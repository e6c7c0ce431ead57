-------------------------------- MODULE Policy --------------------------------
(***************************************************************************)
(* Policy violations in pkg/dcgm.  The library calls ViolationRegistration *)
(* on a thread of its own, which sends the violation on the channel of its *)
(* condition; the channels are globals of capacity one.  A registration    *)
(* starts two goroutines that receive from them: the forwarder takes from  *)
(* every channel and hands what it got to a publisher, whose subscribers   *)
(* nobody reads; the merger takes one violation for each condition of the  *)
(* registration, in the order given, and passes it to the caller.          *)
(*                                                                         *)
(* Only the condition of a violation is kept.  A definition X_Why is a     *)
(* faulty variant of X: it is no part of the specification and serves to   *)
(* show that a property can fail.                                          *)
(***************************************************************************)
EXTENDS Integers, Sequences

CONSTANTS
  Reg,       \* calls of Policy
  Cond,      \* policy conditions
  Requests   \* conditions a call may ask for: sequences over Cond

None == "none"
Off  == "off"

ASSUME PolicyAssumption ==
  /\ Requests \subseteq Seq(Cond)
  /\ Cond \cap {None, Off} = {}

VARIABLES
  reg,         \* where each call of registerPolicy stands
  typ,         \* the conditions it was given
  groups,      \* calls whose group exists in the library
  watched,     \* the conditions the library watches for each call
  notifier,    \* condition the library's thread is about to send, or None
  callbacks,   \* violations in the channel of each condition
  forwarder,   \* of each call: Off, None (in its select), or what it holds
  broadcast,   \* of each call: its publisher's goroutine is in its select
  merger,      \* of each call: Off, "on", or "done" once violation is closed
  violation,   \* buffer of each call's channel
  received     \* external: what the caller has read from it

calls  == <<reg, typ, groups, watched>>
chans  == <<callbacks, violation>>
vars   == <<calls, notifier, chans, forwarder, broadcast, merger, received>>

Init ==
  /\ reg = [r \in Reg |-> "idle"] /\ typ = [r \in Reg |-> <<>>]
  /\ groups = {} /\ watched = [r \in Reg |-> {}]
  /\ notifier = None
  /\ callbacks = [c \in Cond |-> 0]
  /\ forwarder = [r \in Reg |-> Off]
  /\ broadcast = [r \in Reg |-> FALSE]
  /\ merger = [r \in Reg |-> Off]
  /\ violation = [r \in Reg |-> <<>>]
  /\ received = [r \in Reg |-> <<>>]

Conditions(s) == {s[k] : k \in DOMAIN s}

-----------------------------------------------------------------------------
\* registerPolicy

Goto(r, label) == reg' = [reg EXCEPT ![r] = label]

Quiet == UNCHANGED <<notifier, chans, forwarder, broadcast, merger, received>>

\* CreateGroup, of a random name.
Create(r) ==
  /\ reg[r] = "idle"
  /\ \E s \in Requests : typ' = [typ EXCEPT ![r] = s]
  /\ \/ Goto(r, "failed") /\ UNCHANGED groups
     \/ Goto(r, "prepare") /\ groups' = groups \cup {r}
  /\ UNCHANGED watched /\ Quiet

\* AddToGroup, then setPolicy; an error of either returns and leaves the group
\* behind.
Prepare(r) ==
  /\ reg[r] = "prepare"
  /\ Goto(r, "failed") \/ Goto(r, "register")
  /\ UNCHANGED <<typ, groups, watched>> /\ Quiet

\* dcgmPolicyRegister: from here on the library may call back.
Register(r) ==
  /\ reg[r] = "register"
  /\ \/ Goto(r, "failed") /\ UNCHANGED watched
     \/ Goto(r, "start") /\ watched' = [watched EXCEPT ![r] = Conditions(typ[r])]
  /\ UNCHANGED <<typ, groups>> /\ Quiet

StartWith(r, publisher) ==
  /\ reg[r] = "start"
  /\ Goto(r, "destroy")
  /\ forwarder' = [forwarder EXCEPT ![r] = None]
  /\ broadcast' = [broadcast EXCEPT ![r] = publisher]
  /\ merger' = [merger EXCEPT ![r] = "on"]
  /\ UNCHANGED <<typ, groups, watched, notifier, chans, received>>

StartGoroutines_NoBroadcast(r) == StartWith(r, FALSE)

\* The goroutines of the publisher, the forwarder and the merger.
StartGoroutines(r) == StartWith(r, TRUE)

\* DestroyGroup, its error ignored; the caller gets its channel.
Finish(r) ==
  /\ reg[r] = "destroy"
  /\ Goto(r, "listening")
  /\ groups' \in {groups, groups \ {r}}
  /\ UNCHANGED <<typ, watched>> /\ Quiet

-----------------------------------------------------------------------------
\* The library's thread

\* external: the library finds a violation of a condition it watches.
Violate(c) ==
  /\ notifier = None
  /\ \E r \in Reg : c \in watched[r]
  /\ notifier' = c
  /\ UNCHANGED <<calls, chans, forwarder, broadcast, merger, received>>

\* ViolationRegistration sends on the condition's channel, which holds one.
Notify ==
  /\ notifier # None
  /\ callbacks[notifier] < 1
  /\ callbacks' = [callbacks EXCEPT ![notifier] = @ + 1]
  /\ notifier' = None
  /\ UNCHANGED <<calls, violation, forwarder, broadcast, merger, received>>

-----------------------------------------------------------------------------
\* The goroutines of a registration

Forward_Default(r) ==
  /\ forwarder[r] = None
  /\ \A c \in Cond : callbacks[c] = 0
  /\ forwarder' = [forwarder EXCEPT ![r] = "zero value"]
  /\ UNCHANGED <<calls, notifier, chans, broadcast, merger, received>>

\* The forwarder's select over the channels of all conditions.
Forward(r) ==
  /\ forwarder[r] = None
  /\ \E c \in Cond :
       /\ callbacks[c] > 0
       /\ callbacks' = [callbacks EXCEPT ![c] = @ - 1]
       /\ forwarder' = [forwarder EXCEPT ![r] = c]
  /\ UNCHANGED <<calls, notifier, violation, broadcast, merger, received>>

\* publisher.send and the turn of broadcast that takes the value: each of the
\* two subscribers is sent to in a goroutine of its own, so that the turn ends.
Publish(r) ==
  /\ forwarder[r] \in Cond
  /\ broadcast[r]
  /\ forwarder' = [forwarder EXCEPT ![r] = None]
  /\ UNCHANGED <<calls, notifier, chans, broadcast, merger, received>>

\* How many violations the merger has passed on.
passed(r) == Len(received[r]) + Len(violation[r])

MergeOf(r, conds, room) ==
  /\ merger[r] = "on"
  /\ passed(r) < Len(typ[r])
  /\ \E c \in conds :
       /\ callbacks[c] > 0
       /\ callbacks' = [callbacks EXCEPT ![c] = @ - 1]
       /\ violation' = [violation EXCEPT ![r] = Append(@, c)]
  /\ Len(violation[r]) < room
  /\ UNCHANGED <<calls, notifier, forwarder, broadcast, merger, received>>

Merge_AnyOrder(r) == MergeOf(r, Conditions(typ[r]), Len(typ[r]))
Merge_Unbuffered(r) == MergeOf(r, {typ[r][passed(r) + 1]}, 1)

\* val := <-c; violation <- val, for the next condition of the list.  The buffer
\* has room for all of them.
Merge(r) == MergeOf(r, {typ[r][passed(r) + 1]}, Len(typ[r]))

\* close(violation) after the loop.
MergeDone(r) ==
  /\ merger[r] = "on"
  /\ passed(r) = Len(typ[r])
  /\ merger' = [merger EXCEPT ![r] = "done"]
  /\ UNCHANGED <<calls, notifier, chans, forwarder, broadcast, received>>

\* external: the caller reads its channel.
Read(r) ==
  /\ reg[r] = "listening"
  /\ violation[r] # <<>>
  /\ received' = [received EXCEPT ![r] = Append(@, Head(violation[r]))]
  /\ violation' = [violation EXCEPT ![r] = Tail(@)]
  /\ UNCHANGED <<calls, notifier, callbacks, forwarder, broadcast, merger>>

Registering(r) ==
  Create(r) \/ Prepare(r) \/ Register(r) \/ StartGoroutines(r) \/ Finish(r)

Next ==
  \/ Notify
  \/ \E c \in Cond : Violate(c)
  \/ \E r \in Reg : \/ Registering(r) \/ Forward(r) \/ Publish(r)
                    \/ Merge(r) \/ MergeDone(r) \/ Read(r)

Spec == Init /\ [][Next]_vars

\* Every goroutine that can run does.  Receivers wait in a channel's queue in
\* the order in which they came, so a merger whose channel is filled again and
\* again is served, whatever the forwarders take in between.
FairSpec ==
  /\ Spec
  /\ WF_vars(Notify)
  /\ \A r \in Reg : /\ WF_vars(StartGoroutines(r))
                    /\ WF_vars(Forward(r)) /\ WF_vars(Publish(r))
                    /\ SF_vars(Merge(r)) /\ WF_vars(MergeDone(r))

-----------------------------------------------------------------------------
\* The types of the variables.
TypeOK ==
  /\ reg \in [Reg -> {"idle", "prepare", "register", "start", "destroy",
                      "listening", "failed"}]
  /\ typ \in [Reg -> Seq(Cond)]
  /\ groups \subseteq Reg
  /\ watched \in [Reg -> SUBSET Cond]
  /\ notifier \in Cond \cup {None}
  /\ callbacks \in [Cond -> Nat]
  /\ forwarder \in [Reg -> Cond \cup {None, Off}]
  /\ broadcast \in [Reg -> BOOLEAN]
  /\ merger \in [Reg -> {Off, "on", "done"}]
  /\ violation \in [Reg -> Seq(Cond)]
  /\ received \in [Reg -> Seq(Cond)]

\* What a call gets, read and still buffered, are violations of the conditions it
\* listed, in that order and at most one for each, whatever other calls listen to
\* the same channels; when its channel is closed it has got all of them.
ReportsInOrder ==
  \A r \in Reg :
    /\ passed(r) <= Len(typ[r])
    /\ received[r] \o violation[r] = SubSeq(typ[r], 1, passed(r))
    /\ merger[r] = "done" => passed(r) = Len(typ[r])

\* While the library's thread is in a callback there is a forwarder, with a publisher
\* that takes from it, or a registration about to start one: the channel the thread
\* sends on is emptied by somebody, whatever else has failed.
CallbackHasReceiver ==
  notifier # None =>
    \E r \in Reg : reg[r] = "start" \/ (forwarder[r] # Off /\ broadcast[r])

\* The library's thread never waits for ever in a callback: the forwarders empty
\* the channels even when no caller reads what it is sent.
CallbackReturns == notifier # None ~> notifier = None

\* A call whose conditions are violated again and again gets them all and its
\* channel is closed, though the forwarders take from the same channels and
\* though it may read nothing meanwhile.
MergeEnds ==
  \A r \in Reg :
    (/\ merger[r] = "on"
     /\ \A c \in Cond : c \in Conditions(typ[r]) => []<>(notifier = c))
       ~> (merger[r] = "done")

=============================================================================
