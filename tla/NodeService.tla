----------------------------- MODULE NodeService -----------------------------
(***************************************************************************)
(* The total storage of the node over gRPC.  main writes it every cycle;   *)
(* GetNode sends it only when it differs from prevNodeStorage, one global  *)
(* for all callers, and GetInitData always sends it.  In a GetNode reply 0 *)
(* means "as before".  The handlers run in goroutines of their own and     *)
(* read the fields again for every use.                                    *)
(*                                                                         *)
(* A definition X_Why is a faulty variant of X: it is no part of the       *)
(* specification and serves to show that a property can fail.              *)
(***************************************************************************)
EXTENDS Integers

CONSTANTS
  Client,   \* callers of the service
  Total     \* values of the node's total storage

ASSUME ServiceAssumption == Total \subseteq Nat /\ 0 \in Total

VARIABLES
  GrpcNodeTotalStorage, prevNodeStorage,  \* globals of the process
  pc, msg,    \* where each client's call stands, NodeTotalstorage of its reply
  known,      \* external: what each client holds, 0 before it learnt anything
  disturbed   \* history: since the process started main has written while a call
              \* was open, or a reply was lost

globals == <<GrpcNodeTotalStorage, prevNodeStorage>>
serviceVars == <<globals, pc, msg, known, disturbed>>

ServiceInit ==
  /\ GrpcNodeTotalStorage = 0
  /\ prevNodeStorage = 0
  /\ pc = [c \in Client |-> "idle"]
  /\ msg = [c \in Client |-> 0]
  /\ known = [c \in Client |-> 0]
  /\ disturbed = FALSE

Goto(c, label) == pc' = [pc EXCEPT ![c] = label]

-----------------------------------------------------------------------------
\* main's loop stores what the last scrape gave; 0 when the node's filesystem
\* was not in the summary.
Write ==
  /\ \E t \in Total \ {GrpcNodeTotalStorage} : GrpcNodeTotalStorage' = t
  /\ disturbed' = (disturbed \/ \E c \in Client : pc[c] # "idle")
  /\ UNCHANGED <<prevNodeStorage, pc, msg, known>>

\* The process ends and starts again: calls fail, the globals are zero.
Restart ==
  /\ GrpcNodeTotalStorage' = 0
  /\ prevNodeStorage' = 0
  /\ pc' = [c \in Client |-> "idle"]
  /\ msg' = [c \in Client |-> 0]
  /\ disturbed' = FALSE
  /\ UNCHANGED known

-----------------------------------------------------------------------------
\* GetNode

GetNode(c) ==
  /\ pc[c] = "idle"
  /\ Goto(c, "compare")
  /\ UNCHANGED <<globals, msg, known, disturbed>>

Changed_Grown == prevNodeStorage < GrpcNodeTotalStorage

\* prevNodeStorage != Node[0].GrpcNodeTotalStorage
Changed == prevNodeStorage # GrpcNodeTotalStorage

Compare(c) ==
  /\ pc[c] = "compare"
  /\ IF Changed
       THEN Goto(c, "fill") /\ UNCHANGED msg
       ELSE Goto(c, "remember") /\ msg' = [msg EXCEPT ![c] = 0]
  /\ UNCHANGED <<globals, known, disturbed>>

Fill(c) ==
  /\ pc[c] = "fill"
  /\ msg' = [msg EXCEPT ![c] = GrpcNodeTotalStorage]
  /\ Goto(c, "remember")
  /\ UNCHANGED <<globals, known, disturbed>>

\* prevNodeStorage = Node[0].GrpcNodeTotalStorage, whatever was compared or sent.
Remember(c) ==
  /\ pc[c] = "remember"
  /\ prevNodeStorage' = GrpcNodeTotalStorage
  /\ Goto(c, "reply")
  /\ UNCHANGED <<GrpcNodeTotalStorage, msg, known, disturbed>>

\* The client keeps its value when the field is 0.
Receive(c) ==
  /\ pc[c] = "reply"
  /\ known' = [known EXCEPT ![c] = IF msg[c] = 0 THEN known[c] ELSE msg[c]]
  /\ msg' = [msg EXCEPT ![c] = 0]
  /\ Goto(c, "idle")
  /\ UNCHANGED <<globals, disturbed>>

Lose(c) ==
  /\ pc[c] \in {"reply", "initreply"}
  /\ msg' = [msg EXCEPT ![c] = 0]
  /\ Goto(c, "idle")
  /\ disturbed' = TRUE
  /\ UNCHANGED <<globals, known>>

-----------------------------------------------------------------------------
\* GetInitData: after a sleep of one period the message is built, then
\* prevNodeStorage is set from the field as it is by then.

GetInitData(c) ==
  /\ pc[c] = "idle"
  /\ Goto(c, "build")
  /\ UNCHANGED <<globals, msg, known, disturbed>>

Build_OnlyChange(c) ==
  /\ pc[c] = "build"
  /\ msg' = [msg EXCEPT ![c] =
                IF prevNodeStorage # GrpcNodeTotalStorage THEN GrpcNodeTotalStorage ELSE 0]
  /\ Goto(c, "initremember")
  /\ UNCHANGED <<globals, known, disturbed>>

Build(c) ==
  /\ pc[c] = "build"
  /\ msg' = [msg EXCEPT ![c] = GrpcNodeTotalStorage]
  /\ Goto(c, "initremember")
  /\ UNCHANGED <<globals, known, disturbed>>

InitRemember(c) ==
  /\ pc[c] = "initremember"
  /\ prevNodeStorage' = GrpcNodeTotalStorage
  /\ Goto(c, "initreply")
  /\ UNCHANGED <<GrpcNodeTotalStorage, msg, known, disturbed>>

InitReceive(c) ==
  /\ pc[c] = "initreply"
  /\ known' = [known EXCEPT ![c] = msg[c]]
  /\ msg' = [msg EXCEPT ![c] = 0]
  /\ Goto(c, "idle")
  /\ UNCHANGED <<globals, disturbed>>

-----------------------------------------------------------------------------
Serve(c) ==
  \/ Compare(c) \/ Fill(c) \/ Remember(c) \/ Receive(c) \/ Lose(c)
  \/ Build(c) \/ InitRemember(c) \/ InitReceive(c)

ServiceNext ==
  \/ Write \/ Restart
  \/ \E c \in Client : GetNode(c) \/ GetInitData(c) \/ Serve(c)

ServiceSpec == ServiceInit /\ [][ServiceNext]_serviceVars

\* gRPC serves every call it accepts.
FairServiceSpec == ServiceSpec /\ \A c \in Client : WF_serviceVars(Serve(c))

-----------------------------------------------------------------------------
\* The types of the variables.
ServiceTypeOK ==
  /\ GrpcNodeTotalStorage \in Total /\ prevNodeStorage \in Total
  /\ pc \in [Client -> {"idle", "compare", "fill", "remember", "reply",
                        "build", "initremember", "initreply"}]
  /\ msg \in [Client -> Total]
  /\ known \in [Client -> Total]
  /\ disturbed \in BOOLEAN

AtRest == \A c \in Client : pc[c] = "idle"

\* Sending only changes loses none of them: as long as every reply arrives and main
\* does not write into a call, however the calls of several clients interleave,
\* between calls some client holds the value the service believes it sent.  With a
\* single client that is the client itself.
SomebodyKnows ==
  (~disturbed /\ AtRest /\ prevNodeStorage # 0) =>
     \E c \in Client : known[c] = prevNodeStorage

\* A client that is the only one and keeps calling GetNode comes to know the field
\* once it stays at a value, whatever was sent before, if nothing disturbs it.
SoleClientCatchesUp ==
  \A c \in Client, t \in Total \ {0} :
    ( /\ []~disturbed /\ [](\A d \in Client \ {c} : pc[d] = "idle")
      /\ <>[](GrpcNodeTotalStorage = t) /\ []<>(pc[c] = "compare") )
      => <>[](known[c] = t)

\* With any number of clients, lost replies and writes during calls, a client
\* that keeps receiving GetInitData comes to know the field once it stays.
InitRepairs ==
  \A c \in Client, t \in Total :
    (<>[](GrpcNodeTotalStorage = t) /\ []<><<InitReceive(c)>>_serviceVars) => <>[](known[c] = t)

=============================================================================
