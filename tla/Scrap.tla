-------------------------------- MODULE Scrap --------------------------------
(***************************************************************************)
(* Scrap fetches the metrics of every node at once: a goroutine per node   *)
(* sends its batch on responseChannel and then its error on errChannel,    *)
(* both with room for every node, and the caller receives one error and    *)
(* one batch per node before it closes the channels.  A send on a closed   *)
(* channel ends the process.                                               *)
(*                                                                         *)
(* A definition X_Why is a faulty variant of X: it is no part of the       *)
(* specification and serves to show that a property can fail.              *)
(***************************************************************************)
EXTENDS Integers, Sequences, FiniteSets, FiniteSetsExt, SequencesExt

CONSTANTS
  Node,      \* the nodes given to Scrap
  Outcome    \* what CollectNode may do, a set of the outcomes below

\* full: a batch and no error; partial: a batch and an error from decoding it;
\* none: no batch and an error; panic: the node has no address to index.
Outcomes == {"full", "partial", "none", "panic"}

ASSUME ScrapAssumption ==
  /\ IsFiniteSet(Node)
  /\ Outcome \subseteq Outcomes

VARIABLES
  pc,               \* of each node's goroutine
  outcome,          \* what CollectNode did for each node
  responseChannel, errChannel,  \* queues of the nodes whose value is in them
  caller,           \* "err", "response": what it receives next; "close", "returned"
  rounds,           \* errors received
  errs, batches,    \* nodes whose error, whose batch the caller stored, in order
  closed,           \* the channels that are closed
  up                \* the process is running

results == <<errs, batches>>
channels == <<responseChannel, errChannel, closed>>
vars == <<pc, outcome, channels, caller, rounds, results, up>>

N == Cardinality(Node)

\* The caller of Scrap right after its loop of go statements.
Init ==
  /\ pc = [n \in Node |-> "collect"]
  /\ outcome = [n \in Node |-> "none"]
  /\ responseChannel = <<>> /\ errChannel = <<>>
  /\ caller = IF Node = {} THEN "close" ELSE "err"
  /\ rounds = 0
  /\ errs = <<>> /\ batches = <<>>
  /\ closed = {}
  /\ up = TRUE

Goto(n, label) == pc' = [pc EXCEPT ![n] = label]

Crash == up' = FALSE /\ UNCHANGED <<pc, outcome, channels, caller, rounds, results>>

-----------------------------------------------------------------------------
\* The goroutine of a node

CollectNode(n) ==
  /\ pc[n] = "collect"
  /\ \E o \in Outcome :
       \/ o = "panic" /\ Crash
       \/ /\ o # "panic"
          /\ outcome' = [outcome EXCEPT ![n] = o]
          /\ Goto(n, "response")
          /\ UNCHANGED <<channels, caller, rounds, results, up>>

SendResponse_OnlyBatch(n) ==
  /\ pc[n] = "response"
  /\ responseChannel' = IF outcome[n] = "none" THEN responseChannel
                                               ELSE Append(responseChannel, n)
  /\ Goto(n, "err")
  /\ UNCHANGED <<outcome, errChannel, closed, caller, rounds, results, up>>

\* responseChannel <- metrics
SendResponse(n) ==
  /\ pc[n] = "response"
  /\ IF "response" \in closed
       THEN Crash
       ELSE /\ Len(responseChannel) < N
            /\ responseChannel' = Append(responseChannel, n)
            /\ Goto(n, "err")
            /\ UNCHANGED <<outcome, errChannel, closed, caller, rounds, results, up>>

\* errChannel <- err
SendErr(n) ==
  /\ pc[n] = "err"
  /\ IF "err" \in closed
       THEN Crash
       ELSE /\ Len(errChannel) < N
            /\ errChannel' = Append(errChannel, n)
            /\ Goto(n, "done")
            /\ UNCHANGED <<outcome, responseChannel, closed, caller, rounds, results, up>>

-----------------------------------------------------------------------------
\* The caller

\* err := <-errChannel; an error is kept, and the batch that follows stored.
ReceiveErr ==
  /\ caller = "err" /\ errChannel # <<>>
  /\ errs' = IF outcome[Head(errChannel)] = "full" THEN errs
                                                   ELSE Append(errs, Head(errChannel))
  /\ errChannel' = Tail(errChannel)
  /\ rounds' = rounds + 1
  /\ caller' = "response"
  /\ UNCHANGED <<pc, outcome, responseChannel, closed, batches, up>>

AfterResponse_OneShort == IF rounds >= N - 1 THEN "close" ELSE "err"

\* The loop goes round once per node.
AfterResponse == IF rounds >= N THEN "close" ELSE "err"

Stored_FullOnly(n) == outcome[n] = "full"

\* Only a nil batch is left out: partial results are kept.
Stored(n) == outcome[n] # "none"

ReceiveResponse ==
  /\ caller = "response" /\ responseChannel # <<>>
  /\ batches' = IF Stored(Head(responseChannel)) THEN Append(batches, Head(responseChannel))
                                                 ELSE batches
  /\ responseChannel' = Tail(responseChannel)
  /\ caller' = AfterResponse
  /\ UNCHANGED <<pc, outcome, errChannel, closed, rounds, errs, up>>

\* The deferred closes, errChannel's first.
CloseErr ==
  /\ caller = "close" /\ closed = {}
  /\ closed' = {"err"}
  /\ UNCHANGED <<pc, outcome, responseChannel, errChannel, caller, rounds, results, up>>

CloseResponse ==
  /\ caller = "close" /\ closed = {"err"}
  /\ closed' = {"err", "response"}
  /\ caller' = "returned"
  /\ UNCHANGED <<pc, outcome, responseChannel, errChannel, rounds, results, up>>

Caller == ReceiveErr \/ ReceiveResponse \/ CloseErr \/ CloseResponse
Goroutine(n) == CollectNode(n) \/ SendResponse(n) \/ SendErr(n)

Next == up /\ (Caller \/ \E n \in Node : Goroutine(n))

Spec == Init /\ [][Next]_vars

\* Every runnable goroutine runs.  Nothing is assumed of CollectNode: the client
\* of the kubelet has no timeout and its context no deadline.
FairSpec == /\ Spec
            /\ WF_vars(up /\ Caller)
            /\ \A n \in Node : WF_vars(up /\ (SendResponse(n) \/ SendErr(n)))

-----------------------------------------------------------------------------
\* The types of the variables.
TypeOK ==
  /\ pc \in [Node -> {"collect", "response", "err", "done"}]
  /\ outcome \in [Node -> Outcomes \ {"panic"}]
  /\ responseChannel \in Seq(Node) /\ errChannel \in Seq(Node)
  /\ caller \in {"err", "response", "close", "returned"}
  /\ rounds \in 0 .. N
  /\ errs \in Seq(Node) /\ batches \in Seq(Node)
  /\ closed \in SUBSET {"err", "response"}
  /\ up \in BOOLEAN

\* No goroutine is left to send when the channels close, so none ever sends on
\* a closed channel and brings the process down.
AllSentBeforeClose == closed # {} => \A n \in Node : pc[n] = "done"

\* No send has to wait for room, and the caller waits for a value only while a
\* goroutine has yet to send one: nobody is left waiting for somebody who has ended.
NobodyLeftWaiting ==
  /\ \A n \in Node : /\ pc[n] = "response" => Len(responseChannel) < N
                     /\ pc[n] = "err" => Len(errChannel) < N
  /\ caller = "err" /\ errChannel = <<>> => \E n \in Node : pc[n] # "done"
  /\ caller = "response" /\ responseChannel = <<>> =>
       \E n \in Node : pc[n] \in {"collect", "response"}

-----------------------------------------------------------------------------
\* A node has answered when CollectNode has ended, and the reply is what the
\* caller has stored by the time it returns.
G == INSTANCE Gather WITH
  Answers <- Outcomes \ {"panic"},
  answer  <- [n \in {m \in Node : pc[m] # "collect"} |-> outcome[n]],
  replied <- (caller = "returned"),
  batches <- IF caller = "returned" THEN batches ELSE <<>>,
  errs    <- IF caller = "returned" THEN errs ELSE <<>>

\* Scrap implements Gather: whatever order the goroutines send in, it returns once,
\* after every node has answered, with every batch exactly once, those of nodes
\* with an error included, and an error for exactly the nodes that had one; a
\* node without an address ends the process before the reply, never after it.
Gathers == G!Spec

\* Scrap has no wait of its own: when every kubelet asked answers, or fails, some
\* time, it returns (or the process has ended).  One that stays silent holds it, and
\* main's loop with it, for ever.
Returns ==
  (\A n \in Node : <>(pc[n] # "collect" \/ ~up)) => (up ~> (caller = "returned" \/ ~up))

=============================================================================
