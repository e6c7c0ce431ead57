------------------------------- MODULE Algorithms ------------------------------
(***************************************************************************)
(* The pure algorithms, decoding a kubelet's summary and finding the       *)
(* NVLinks: a behaviour takes one input, a summary or a wiring, and the    *)
(* properties say what the algorithm yields for it.                        *)
(***************************************************************************)
EXTENDS Decode, NvLink

CONSTANTS
  None,       \* no input yet
  Summaries,  \* the summaries a kubelet may answer with
  Wirings     \* the wirings of a node

ASSUME InputAssumption == Summaries \subseteq Summary /\ Wirings \subseteq Wiring

VARIABLE input

Init == input = None

ASummary ==
  /\ input = None
  /\ \E s \in Summaries : input' = [summary |-> s]

AWiring ==
  /\ input = None
  /\ \E w \in Wirings : input' = [wiring |-> w]

Next == AWiring \/ ASummary

Spec == Init /\ [][Next]_input

given(kind) == input # None /\ kind \in DOMAIN input

\* decode.go:29-65: Complete, for every summary.
BatchComplete == given("summary") => Complete(input.summary)

\* main.go:553-618: Linked, for every wiring.
LinksCounted == given("wiring") => Linked(input.wiring)

=============================================================================
