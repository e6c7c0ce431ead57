------------------------------ MODULE PolicyProof ------------------------------
(***************************************************************************)
(* Theorems about policy registrations, for any number of calls and        *)
(* conditions and any lists of conditions.                                 *)
(***************************************************************************)
EXTENDS Policy, SequenceTheorems, TLAPS

\* A call that has not begun has got nothing and no goroutine of its own.
Fresh ==
  \A r \in Reg : reg[r] = "idle" =>
     merger[r] = Off /\ received[r] = <<>> /\ violation[r] = <<>>

\* The inductive invariant.
IInv == TypeOK /\ Fresh /\ ReportsInOrder

-----------------------------------------------------------------------------
\* Lemma: a value appended to the buffer is appended to what the call has got.
LEMMA AppendToBuffer ==
  ASSUME NEW s \in Seq(Cond), NEW v \in Seq(Cond), NEW c \in Cond
  PROVE  /\ s \o Append(v, c) = Append(s \o v, c)
         /\ Len(s) + Len(Append(v, c)) = Len(s) + Len(v) + 1
  OBVIOUS

\* Lemma: reading the head of the buffer leaves what the call has got as it is.
LEMMA ReadFromBuffer ==
  ASSUME NEW S, NEW s \in Seq(S), NEW v \in Seq(S), v # <<>>
  PROVE  /\ Append(s, Head(v)) \o Tail(v) = s \o v
         /\ Append(s, Head(v)) \in Seq(S) /\ Tail(v) \in Seq(S)
         /\ Len(Append(s, Head(v))) + Len(Tail(v)) = Len(s) + Len(v)
  OBVIOUS

\* Lemma: a prefix followed by the next element is the next prefix.
LEMMA LongerPrefix ==
  ASSUME NEW S, NEW t \in Seq(S), NEW n \in Nat, n < Len(t)
  PROVE  Append(SubSeq(t, 1, n), t[n + 1]) = SubSeq(t, 1, n + 1)
  OBVIOUS

\* Lemma: the conditions of a list are conditions.
LEMMA ConditionsOfList ==
  ASSUME NEW s \in Seq(Cond)
  PROVE  Conditions(s) \subseteq Cond
<1>1. \A k \in DOMAIN s : s[k] \in Cond
  OBVIOUS
<1> QED BY <1>1 DEF Conditions

\* Lemma: what a call's progress is made of, with its types.
LEMMA CallTypes ==
  ASSUME TypeOK, NEW r \in Reg
  PROVE  /\ typ[r] \in Seq(Cond) /\ received[r] \in Seq(Cond) /\ violation[r] \in Seq(Cond)
         /\ passed(r) \in Nat /\ passed(r) = Len(received[r]) + Len(violation[r])
  BY DEF TypeOK, passed

\* What one call has got is in its order, and is all of it once it is closed.
InOrderOf(q) ==
  /\ passed(q) <= Len(typ[q])
  /\ received[q] \o violation[q] = SubSeq(typ[q], 1, passed(q))
  /\ merger[q] = "done" => passed(q) = Len(typ[q])

\* Lemma: ReportsInOrder, of each call.
LEMMA OrderOfEach == ReportsInOrder <=> \A q \in Reg : InOrderOf(q)
  BY DEF ReportsInOrder, InOrderOf

\* Lemma: a step that changes nothing of what a call has got keeps its order.
LEMMA SameProgress ==
  ASSUME NEW q \in Reg, InOrderOf(q),
         typ'[q] = typ[q], received'[q] = received[q], violation'[q] = violation[q],
         merger'[q] = "done" => merger[q] = "done"
  PROVE  InOrderOf(q)'
<1>1. passed(q)' = passed(q)
  BY DEF passed
<1> QED BY <1>1 DEF InOrderOf

-----------------------------------------------------------------------------
\* The steps of a registration.
LEMMA RegisteringStep ==
  ASSUME PolicyAssumption, IInv, NEW r \in Reg, Registering(r)
  PROVE  IInv'
<1>1. CASE Create(r)
  <2> PICK s \in Requests : typ' = [typ EXCEPT ![r] = s]
    BY <1>1 DEF Create
  <2>1. s \in Seq(Cond)
    BY DEF PolicyAssumption
  <2>2. TypeOK'
    BY <1>1, <2>1 DEF Create, Goto, Quiet, chans, IInv, TypeOK
  <2>3. Fresh'
    BY <1>1 DEF Create, Goto, Quiet, chans, IInv, TypeOK, Fresh
  <2>4. reg[r] = "idle" /\ merger[r] = Off /\ received[r] = <<>> /\ violation[r] = <<>>
    BY <1>1 DEF Create, IInv, Fresh
  <2>5. UNCHANGED <<merger, received, violation>>
    BY <1>1 DEF Create, Quiet, chans
  <2>6. ASSUME NEW q \in Reg
        PROVE  InOrderOf(q)'
    <3>1. CASE q = r
      <4>1. typ'[r] = s /\ passed(r)' = 0
        BY <2>4, <2>5 DEF passed, IInv, TypeOK
      <4>2. merger'[r] # "done"
        BY <2>4, <2>5 DEF Off
      <4>3. received'[r] \o violation'[r] = <<>> /\ SubSeq(s, 1, 0) = <<>>
        BY <2>1, <2>4, <2>5
      <4>4. 0 <= Len(s)
        BY <2>1
      <4>5. InOrderOf(r)'
        BY <4>1, <4>2, <4>3, <4>4 DEF InOrderOf
      <4> QED BY <3>1, <4>5
    <3>2. CASE q # r
      <4>1. typ'[q] = typ[q]
        BY <3>2 DEF IInv, TypeOK
      <4> QED BY <2>5, <4>1, SameProgress, OrderOfEach DEF IInv
    <3> QED BY <3>1, <3>2
  <2>7. ReportsInOrder'
    BY <2>6 DEF ReportsInOrder, InOrderOf
  <2> QED BY <2>2, <2>3, <2>7 DEF IInv
<1>2. CASE Prepare(r) \/ Register(r) \/ Finish(r)
  <2>1. Conditions(typ[r]) \subseteq Cond
    BY ConditionsOfList DEF IInv, TypeOK
  <2>2. TypeOK'
    <3>1. CASE Prepare(r)
      BY <3>1 DEF Prepare, Goto, Quiet, chans, IInv, TypeOK
    <3>2. CASE Register(r)
      <4>1. reg' \in [Reg -> {"idle", "prepare", "register", "start", "destroy",
                             "listening", "failed"}]
        BY <3>2 DEF Register, Goto, IInv, TypeOK
      <4>2. watched' \in [Reg -> SUBSET Cond]
        <5>1. watched' \in {watched, [watched EXCEPT ![r] = Conditions(typ[r])]}
          BY <3>2 DEF Register
        <5> QED BY <2>1, <5>1 DEF IInv, TypeOK
      <4> QED BY <3>2, <4>1, <4>2 DEF Register, Quiet, chans, IInv, TypeOK
    <3>3. CASE Finish(r)
      BY <3>3 DEF Finish, Goto, Quiet, chans, IInv, TypeOK
    <3> QED BY <1>2, <3>1, <3>2, <3>3
  <2>3. Fresh'
    BY <1>2 DEF Prepare, Register, Finish, Goto, Quiet, chans, IInv, TypeOK, Fresh
  <2>4. UNCHANGED <<typ, merger, received, violation>>
    BY <1>2 DEF Prepare, Register, Finish, Quiet, chans
  <2>5. \A q \in Reg : InOrderOf(q)'
    BY <2>4, SameProgress, OrderOfEach DEF IInv
  <2>6. ReportsInOrder'
    BY <2>5 DEF ReportsInOrder, InOrderOf
  <2> QED BY <2>2, <2>3, <2>6 DEF IInv
<1>3. CASE StartGoroutines(r)
  <2>1. TypeOK'
    BY <1>3 DEF StartGoroutines, StartWith, Goto, chans, IInv, TypeOK
  <2>2. Fresh'
    BY <1>3 DEF StartGoroutines, StartWith, Goto, chans, IInv, TypeOK, Fresh
  <2>3. /\ UNCHANGED <<typ, received, violation>>
        /\ \A q \in Reg : merger'[q] = "done" => merger[q] = "done"
    BY <1>3 DEF StartGoroutines, StartWith, chans, IInv, TypeOK
  <2>4. \A q \in Reg : InOrderOf(q)'
    BY <2>3, SameProgress, OrderOfEach DEF IInv
  <2>5. ReportsInOrder'
    BY <2>4 DEF ReportsInOrder, InOrderOf
  <2> QED BY <2>1, <2>2, <2>5 DEF IInv
<1> QED BY <1>1, <1>2, <1>3 DEF Registering

\* The library's thread and the forwarders touch nothing a call has got.
LEMMA OtherStep ==
  ASSUME IInv,
         \/ Notify
         \/ \E c \in Cond : Violate(c)
         \/ \E r \in Reg : Forward(r) \/ Publish(r)
  PROVE  IInv'
<1>1. TypeOK'
  <2>1. CASE Notify
    <3>1. notifier \in Cond /\ callbacks[notifier] \in Nat
      BY <2>1 DEF Notify, IInv, TypeOK
    <3> QED BY <2>1, <3>1 DEF Notify, calls, IInv, TypeOK
  <2>2. CASE \E c \in Cond : Violate(c)
    BY <2>2 DEF Violate, calls, chans, IInv, TypeOK
  <2>3. ASSUME NEW r \in Reg, Forward(r)  PROVE TypeOK'
    <3> PICK c \in Cond : /\ callbacks[c] > 0
                          /\ callbacks' = [callbacks EXCEPT ![c] = @ - 1]
                          /\ forwarder' = [forwarder EXCEPT ![r] = c]
      BY <2>3 DEF Forward
    <3>1. callbacks[c] - 1 \in Nat
      BY DEF IInv, TypeOK
    <3> QED BY <2>3, <3>1 DEF Forward, calls, IInv, TypeOK
  <2>4. ASSUME NEW r \in Reg, Publish(r)  PROVE TypeOK'
    BY <2>4 DEF Publish, calls, chans, IInv, TypeOK
  <2> QED BY <2>1, <2>2, <2>3, <2>4
<1>2. UNCHANGED <<reg, typ, merger, received, violation>>
  BY DEF Notify, Violate, Forward, Publish, calls, chans
<1>3. Fresh'
  BY <1>2 DEF IInv, Fresh
<1>4. \A q \in Reg : InOrderOf(q)'
  BY <1>2, SameProgress, OrderOfEach DEF IInv
<1>5. ReportsInOrder'
  BY <1>4 DEF ReportsInOrder, InOrderOf
<1> QED BY <1>1, <1>3, <1>5 DEF IInv

\* The merger passes on the next condition of its list.
LEMMA MergeStep ==
  ASSUME IInv, NEW r \in Reg, Merge(r)
  PROVE  IInv'
<1> DEFINE n == passed(r)
<1>1. PICK c \in Cond :
        /\ merger[r] = "on" /\ n \in Nat /\ n < Len(typ[r])
        /\ typ[r] \in Seq(Cond) /\ c = typ[r][n + 1] /\ callbacks[c] > 0
        /\ callbacks' = [callbacks EXCEPT ![c] = @ - 1]
        /\ violation' = [violation EXCEPT ![r] = Append(@, c)]
        /\ UNCHANGED <<calls, notifier, forwarder, broadcast, merger, received>>
  <2>1. n \in Nat /\ n < Len(typ[r]) /\ typ[r] \in Seq(Cond)
    BY CallTypes DEF Merge, MergeOf, IInv
  <2>2. typ[r][n + 1] \in Cond
    BY <2>1
  <2> QED BY <2>1, <2>2 DEF Merge, MergeOf
<1>2. TypeOK'
  BY <1>1 DEF IInv, TypeOK, calls
<1>3. Fresh'
  BY <1>1 DEF IInv, TypeOK, Fresh, calls, Off
<1>4. violation'[r] = Append(violation[r], c) /\ typ' = typ /\ received' = received
  BY <1>1 DEF IInv, TypeOK, calls
<1>5. received[r] \o violation[r] = SubSeq(typ[r], 1, n)
  BY DEF IInv, ReportsInOrder
<1>6. received'[r] \o violation'[r] = SubSeq(typ[r], 1, n + 1) /\ passed(r)' = n + 1
  <2>1. received[r] \in Seq(Cond) /\ violation[r] \in Seq(Cond)
        /\ n = Len(received[r]) + Len(violation[r])
    BY CallTypes DEF IInv
  <2>2. received'[r] \o violation'[r] = Append(received[r] \o violation[r], c)
    <3>1. received[r] \o Append(violation[r], c) = Append(received[r] \o violation[r], c)
      BY <1>1, <2>1, AppendToBuffer
    <3> QED BY <1>4, <3>1
  <2>3. Append(SubSeq(typ[r], 1, n), c) = SubSeq(typ[r], 1, n + 1)
    BY <1>1, LongerPrefix
  <2>4. passed(r)' = Len(received[r]) + Len(violation[r]) + 1
    <3>1. Len(received[r]) + Len(Append(violation[r], c)) = Len(received[r]) + Len(violation[r]) + 1
      BY <2>1, AppendToBuffer
    <3>2. passed(r)' = Len(received[r]) + Len(Append(violation[r], c))
      BY <1>4 DEF passed
    <3> QED BY <3>1, <3>2, Zenon
  <2> QED BY <1>5, <2>1, <2>2, <2>3, <2>4
<1>7. ASSUME NEW q \in Reg
      PROVE  InOrderOf(q)'
  <2>1. CASE q = r
    <3>1. n + 1 <= Len(typ[r]) /\ merger'[r] # "done"
      <4>1. merger' = merger /\ Len(typ[r]) \in Nat
        BY <1>1
      <4> QED BY <1>1, <4>1
    <3>2. InOrderOf(r)'
      BY <1>4, <1>6, <3>1 DEF InOrderOf
    <3> QED BY <2>1, <3>2
  <2>2. CASE q # r
    <3>1. violation'[q] = violation[q] /\ merger' = merger
      BY <1>1, <2>2 DEF IInv, TypeOK
    <3> QED BY <1>4, <3>1, SameProgress, OrderOfEach DEF IInv
  <2> QED BY <2>1, <2>2
<1>8. ReportsInOrder'
  BY <1>7 DEF ReportsInOrder, InOrderOf
<1> QED BY <1>2, <1>3, <1>8 DEF IInv

\* The merger closes the channel after the whole list, never before.
LEMMA MergeDoneStep ==
  ASSUME IInv, NEW r \in Reg, MergeDone(r)
  PROVE  IInv'
<1>1. TypeOK'
  BY DEF MergeDone, calls, chans, IInv, TypeOK
<1>2. Fresh'
  BY DEF MergeDone, calls, chans, IInv, TypeOK, Fresh, Off
<1>3. /\ UNCHANGED <<typ, received, violation>> /\ passed(r) = Len(typ[r])
      /\ \A q \in Reg : q # r => merger'[q] = merger[q]
  BY DEF MergeDone, calls, chans, IInv, TypeOK
<1>4. ASSUME NEW q \in Reg
      PROVE  InOrderOf(q)'
  <2>1. InOrderOf(q)
    BY OrderOfEach DEF IInv
  <2>2. CASE q = r
    <3>1. passed(r)' = passed(r)
      BY <1>3 DEF passed
    <3> QED BY <1>3, <2>1, <2>2, <3>1 DEF InOrderOf
  <2>3. CASE q # r
    BY <1>3, <2>1, <2>3, SameProgress
  <2> QED BY <2>2, <2>3
<1>5. ReportsInOrder'
  BY <1>4 DEF ReportsInOrder, InOrderOf
<1> QED BY <1>1, <1>2, <1>5 DEF IInv

\* What the caller reads moves from the buffer to what it has read.
LEMMA ReadStep ==
  ASSUME IInv, NEW r \in Reg, Read(r)
  PROVE  IInv'
<1>1. /\ reg[r] = "listening" /\ violation[r] # <<>>
      /\ received' = [received EXCEPT ![r] = Append(received[r], Head(violation[r]))]
      /\ violation' = [violation EXCEPT ![r] = Tail(violation[r])]
      /\ UNCHANGED <<calls, notifier, callbacks, forwarder, broadcast, merger>>
  BY DEF Read
<1>2. received[r] \in Seq(Cond) /\ violation[r] \in Seq(Cond)
  BY CallTypes DEF IInv
<1>3. /\ Append(received[r], Head(violation[r])) \in Seq(Cond) /\ Tail(violation[r]) \in Seq(Cond)
      /\ Append(received[r], Head(violation[r])) \o Tail(violation[r]) = received[r] \o violation[r]
      /\ Len(Append(received[r], Head(violation[r]))) + Len(Tail(violation[r]))
            = Len(received[r]) + Len(violation[r])
  BY <1>1, <1>2, ReadFromBuffer
<1>4. TypeOK'
  BY <1>1, <1>3 DEF IInv, TypeOK, calls
<1>5. Fresh'
  BY <1>1 DEF IInv, TypeOK, Fresh, calls
<1>6. ASSUME NEW q \in Reg
      PROVE  received'[q] \o violation'[q] = received[q] \o violation[q] /\ passed(q)' = passed(q)
  <2>1. CASE q = r
    BY <1>1, <1>3, <2>1 DEF IInv, TypeOK, passed
  <2>2. CASE q # r
    BY <1>1, <2>2 DEF IInv, TypeOK, passed
  <2> QED BY <2>1, <2>2
<1>7. typ' = typ /\ merger' = merger
  BY <1>1 DEF calls
<1> QED BY <1>4, <1>5, <1>6, <1>7 DEF IInv, ReportsInOrder

-----------------------------------------------------------------------------
\* The invariant holds of every state, whatever fails and however calls interleave.
THEOREM InvariantIInv == Spec => []IInv
<1>1. Init => IInv
  <2> SUFFICES ASSUME Init  PROVE IInv
    OBVIOUS
  <2>1. <<>> \in Seq(Cond) /\ Len(<<>>) = 0
    OBVIOUS
  <2>2. TypeOK
    BY <2>1 DEF Init, TypeOK
  <2>3. Fresh
    BY DEF Init, Fresh
  <2>4. ASSUME NEW r \in Reg
        PROVE  /\ passed(r) <= Len(typ[r])
               /\ received[r] \o violation[r] = SubSeq(typ[r], 1, passed(r))
               /\ merger[r] = "done" => passed(r) = Len(typ[r])
    <3>1. typ[r] = <<>> /\ received[r] = <<>> /\ violation[r] = <<>> /\ passed(r) = 0
      BY DEF Init, passed
    <3>2. <<>> \o <<>> = <<>> /\ SubSeq(<<>>, 1, 0) = <<>>
      OBVIOUS
    <3> QED BY <3>1, <3>2
  <2> QED BY <2>2, <2>3, <2>4 DEF IInv, ReportsInOrder
<1>2. IInv /\ [Next]_vars => IInv'
  <2> SUFFICES ASSUME IInv, [Next]_vars  PROVE IInv'
    OBVIOUS
  <2>1. CASE Next
    BY <2>1, PolicyAssumption, RegisteringStep, OtherStep, MergeStep, MergeDoneStep, ReadStep
       DEF Next
  <2>2. CASE UNCHANGED vars
    <3>1. TypeOK'
      BY <2>2 DEF vars, calls, chans, IInv, TypeOK
    <3>2. Fresh' /\ ReportsInOrder'
      BY <2>2 DEF vars, calls, chans, IInv, Fresh, ReportsInOrder, passed
    <3> QED BY <3>1, <3>2 DEF IInv
  <2> QED BY <2>1, <2>2
<1> QED BY <1>1, <1>2, PTL DEF Spec

\* policy.go:378-384: with any number of calls on the same channels, a call gets
\* violations of its own conditions only, in its order, one for each, and all of
\* them before its channel is closed.
THEOREM InOrder == Spec => []ReportsInOrder
<1>1. IInv => ReportsInOrder
  BY DEF IInv
<1> QED BY <1>1, InvariantIInv, PTL

\* Every variable keeps its type, and no channel is received from when it is empty.
THEOREM TypeCorrect == Spec => []TypeOK
<1>1. IInv => TypeOK
  BY DEF IInv
<1> QED BY <1>1, InvariantIInv, PTL
-----------------------------------------------------------------------------
\* A registration the library has accepted.
Accepted == {r \in Reg : reg[r] \in {"start", "destroy", "listening"}}

\* Only such a registration is watched, once past its start its goroutines run, and
\* a callback is on behalf of one.
Watched == \A r \in Reg : watched[r] # {} => r \in Accepted
Running == \A r \in Accepted : reg[r] # "start" => forwarder[r] # Off /\ broadcast[r]
Called  == notifier # None => Accepted # {}
Served  == Watched /\ Running /\ Called

\* Lemma: when the goroutines start they start all at once, and before that nobody can
\* be called back.
LEMMA RegisteringServes ==
  ASSUME TypeOK, Served, NEW r \in Reg, Registering(r)
  PROVE  Served'
<1> USE DEF TypeOK, Served, Watched, Running, Called, Accepted, Goto
<1>1. CASE Create(r)
  BY <1>1 DEF Create, Quiet
<1>2. CASE Prepare(r)
  BY <1>2 DEF Prepare, Quiet
<1>3. CASE Register(r)
  BY <1>3 DEF Register, Quiet
<1>4. CASE StartGoroutines(r)
  BY <1>4 DEF StartGoroutines, StartWith, None, Off
<1>5. CASE Finish(r)
  BY <1>5 DEF Finish, Quiet
<1> QED BY <1>1, <1>2, <1>3, <1>4, <1>5 DEF Registering

\* Lemma: no goroutine of a registration ever ends, and the library calls back only for
\* what it watches.
LEMMA RunningServes ==
  ASSUME PolicyAssumption, TypeOK, Served,
         \/ Notify
         \/ \E c \in Cond : Violate(c)
         \/ \E r \in Reg : Forward(r) \/ Publish(r) \/ Merge(r) \/ MergeDone(r) \/ Read(r)
  PROVE  Served'
<1>1. UNCHANGED <<reg, watched, broadcast>> /\ Accepted' = Accepted
  BY DEF Notify, Violate, Forward, Publish, Merge, MergeOf, MergeDone, Read, calls, Accepted
<1>2. ASSUME NEW r \in Reg, forwarder[r] # Off
      PROVE  forwarder'[r] # Off
  <2>1. CASE UNCHANGED forwarder
    BY <1>2, <2>1
  <2>2. ASSUME NEW q \in Reg, Forward(q)  PROVE forwarder'[r] # Off
    BY <1>2, <2>2 DEF Forward, TypeOK, PolicyAssumption
  <2>3. ASSUME NEW q \in Reg, Publish(q)  PROVE forwarder'[r] # Off
    BY <1>2, <2>3 DEF Publish, TypeOK, None, Off
  <2> QED BY <2>1, <2>2, <2>3 DEF Notify, Violate, Merge, MergeOf, MergeDone, Read
<1>3. Running'
  BY <1>1, <1>2 DEF Served, Running, Accepted
<1>4. Called'
  <2>1. ASSUME NEW c \in Cond, Violate(c)  PROVE Accepted # {}
    BY <2>1 DEF Violate, Served, Watched
  <2>2. notifier' # None => notifier # None \/ \E c \in Cond : Violate(c)
    BY DEF Notify, Forward, Publish, Merge, MergeOf, MergeDone, Read
  <2> QED BY <1>1, <2>1, <2>2 DEF Served, Called
<1> QED BY <1>1, <1>3, <1>4 DEF Served, Watched

\* policy.go:353-376: for any number of calls, whichever of them fail and at which step, a
\* thread of the library that is in a callback has a forwarder that receives, or one that is
\* about to start.
THEOREM CallbacksAreReceived == Spec => []CallbackHasReceiver
<1>1. Init => Served
  BY DEF Init, Served, Watched, Running, Called, Accepted
<1>2. TypeOK /\ Served /\ [Next]_vars => Served'
  <2> SUFFICES ASSUME TypeOK, Served, [Next]_vars  PROVE Served'
    OBVIOUS
  <2>1. CASE Next
    BY <2>1, PolicyAssumption, RegisteringServes, RunningServes DEF Next
  <2>2. CASE UNCHANGED vars
    BY <2>2 DEF vars, calls, Served, Watched, Running, Called, Accepted
  <2> QED BY <2>1, <2>2
<1>3. Served => CallbackHasReceiver
  BY DEF Served, Running, Called, Accepted, CallbackHasReceiver
<1> QED BY <1>1, <1>2, <1>3, TypeCorrect, PTL DEF Spec
=============================================================================
