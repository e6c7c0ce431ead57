-------------------------------- MODULE Gather --------------------------------
(***************************************************************************)
(* What Scrap promises its caller, channels and goroutines left out: every *)
(* node answers once, in any order, and one reply carries all the answers, *)
(* each exactly once; nothing is replied before the last answer, and       *)
(* nothing changes after the reply.                                        *)
(***************************************************************************)
EXTENDS FiniteSets, Functions, SequencesExt

CONSTANTS
  Node,     \* the nodes asked
  Answers   \* what a node may answer: "full", "partial" or "none"

VARIABLES
  answer,           \* the nodes that have answered, with what
  replied,          \* the caller has its reply
  batches, errs,    \* the reply: nodes whose batch, whose error is in it
  up                \* the process is running

vars == <<answer, replied, batches, errs, up>>

\* The sequence s lists the elements of S, each once, in some order.
Lists(s, S) == IsInjective(s) /\ ToSet(s) = S

Init ==
  /\ answer = <<>>
  /\ replied = FALSE
  /\ batches = <<>> /\ errs = <<>>
  /\ up = TRUE

Answer(n) ==
  /\ up /\ n \notin DOMAIN answer
  /\ \E a \in Answers :
       answer' = [m \in DOMAIN answer \cup {n} |-> IF m = n THEN a ELSE answer[m]]
  /\ UNCHANGED <<replied, batches, errs, up>>

\* A partial answer is both a batch and an error.
Reply ==
  /\ up /\ ~replied
  /\ DOMAIN answer = Node
  /\ replied' = TRUE
  /\ Lists(batches', {n \in Node : answer[n] # "none"})
  /\ Lists(errs', {n \in Node : answer[n] # "full"})
  /\ UNCHANGED <<answer, up>>

\* A node without an address ends the process.
Crash == up /\ ~replied /\ up' = FALSE /\ UNCHANGED <<answer, replied, batches, errs>>

Next == Reply \/ Crash \/ \E n \in Node : Answer(n)

Spec == Init /\ [][Next]_vars

=============================================================================
