------------------------------- MODULE DcgmProof -------------------------------
(***************************************************************************)
(* What holds of pkg/dcgm's start and stop for every set of callers and    *)
(* any number of failures, and of its groups for any number of goroutines  *)
(* and handles.                                                            *)
(***************************************************************************)
EXTENDS DcgmInit, DcgmGroups, FiniteSetTheorems, TLAPS

\* A live handle comes with a dcgmInit call to undo.
EngineHasAgent == engine => agent > 0

EnvOK ==
  /\ lib \in BOOLEAN /\ engine \in BOOLEAN /\ agent \in Nat /\ children \in Nat
  /\ hostengineAsChildPid \in {"zero", "live", "killed"}

\* The inductive invariant of the types.
IInv == TypeOK /\ EngineHasAgent

-----------------------------------------------------------------------------
\* What initDcgm and shutdown do to the environment keeps the types.
LEMMA initDcgmKeeps ==
  ASSUME InitAssumption, IInv, NEW m \in Mode, NEW r, initDcgm(m, r)
  PROVE  stopMode' \in Modes /\ EnvOK' /\ faults' \subseteq StartFailures \cup StopFailures /\ EngineHasAgent'
<1> USE DEF IInv, TypeOK, EnvOK, EngineHasAgent
<1>1. m \in Modes
  BY DEF InitAssumption
<1>2. CASE NoLibrary
  BY <1>2 DEF NoLibrary, Fault, StartFailures
<1>3. CASE NotPrepared(m)
  BY <1>1, <1>3 DEF NotPrepared, Fault, StartFailures
<1>4. CASE NoAgent(m)
  BY <1>1, <1>4 DEF NoAgent, Fault, Forked, StartFailures
<1>5. CASE NoEngine(m)
  BY <1>1, <1>5 DEF NoEngine, Fault, Forked, StartFailures
<1>6. CASE Started(m)
  BY <1>1, <1>6 DEF Started, Forked
<1> QED BY <1>2, <1>3, <1>4, <1>5, <1>6 DEF initDcgm

\* Lemma: shutdown undoes dcgmInit only while the engine's own dcgmInit is outstanding.
LEMMA shutdownKeeps ==
  ASSUME IInv, shutdown
  PROVE  EnvOK' /\ up' \in BOOLEAN /\ faults' \subseteq StartFailures \cup StopFailures /\ EngineHasAgent'
<1> USE DEF IInv, TypeOK, EnvOK, EngineHasAgent
<1>1. CASE Unresolved
  BY <1>1 DEF Unresolved, env
<1>2. CASE NotStopped
  BY <1>2 DEF NotStopped, Fault, StopFailures
<1>3. CASE AgentNotStopped
  BY <1>3 DEF AgentNotStopped, Fault, StopFailures
<1>4. CASE NotTerminated \/ Stopped
  <2>1. engine /\ lib' = FALSE /\ engine' = FALSE /\ agent' = agent - 1
    BY <1>4 DEF NotTerminated, Stopped
  <2>2. agent' \in Nat
    BY <2>1
  <2>3. /\ hostengineAsChildPid' \in {"zero", "live", "killed"} /\ up' \in BOOLEAN
        /\ faults' \subseteq StartFailures \cup StopFailures
    BY <1>4 DEF NotTerminated, Stopped, Terminate, Fault, StopFailures
  <2>4. children' \in Nat
    BY <1>4 DEF NotTerminated, Stopped, Terminate
  <2> QED BY <2>1, <2>2, <2>3, <2>4
<1> QED BY <1>1, <1>2, <1>3, <1>4 DEF shutdown

\* Shutdown as a whole; the caller's own record is the callers' affair.
LEMMA ShutdownKeeps ==
  ASSUME IInv, Shutdown, user' \in [User -> {"idle", "ok", "failed"}], stray' \in BOOLEAN
  PROVE  IInv'
<1>1. dcgmInitCounter' \in Int /\ stopMode' \in Modes
  BY DEF Shutdown, IInv, TypeOK
<1>2. CASE IsLast
  BY <1>1, <1>2, shutdownKeeps DEF Shutdown, IInv, TypeOK, EnvOK
<1>3. CASE ~IsLast
  BY <1>1, <1>3 DEF Shutdown, IInv, TypeOK, EngineHasAgent, env
<1> QED BY <1>2, <1>3

\* Init leaves the environment alone unless it is the first.
LEMMA LaterInit ==
  ASSUME IInv, NEW u \in User, NEW m \in Mode, Init(u, m), dcgmInitCounter # 0
  PROVE  UNCHANGED <<stopMode, env, faults>>
<1>1. dcgmInitCounter \in Int
  BY DEF IInv, TypeOK
<1>2. PICK r \in {"ok", "failed"} :
        CASE dcgmInitCounter = 0 -> initDcgm(m, r)
          [] dcgmInitCounter > 0 -> r = "ok" /\ UNCHANGED <<stopMode, env, faults>>
          [] dcgmInitCounter < 0 -> r = "failed" /\ UNCHANGED <<stopMode, env, faults>>
  BY DEF Init
<1>3. CASE dcgmInitCounter > 0
  <2>1. ~(dcgmInitCounter < 0)
    BY <1>1, <1>3
  <2> QED BY <1>2, <1>3, <2>1, Zenon
<1>4. CASE dcgmInitCounter < 0
  <2>1. ~(dcgmInitCounter > 0)
    BY <1>1, <1>4
  <2> QED BY <1>2, <1>4, <2>1, Zenon
<1> QED BY <1>1, <1>3, <1>4

\* Lemma: Init as a whole keeps the types, whichever part of initDcgm fails.
LEMMA InitKeeps ==
  ASSUME InitAssumption, IInv, NEW u \in User, NEW m \in Mode, Init(u, m)
  PROVE  IInv'
<1>1. /\ dcgmInitCounter' \in Int /\ up' = up /\ stray' = stray
      /\ user' \in [User -> {"idle", "ok", "failed"}]
  BY DEF Init, IInv, TypeOK
<1>2. CASE dcgmInitCounter = 0
  <2>1. PICK r : initDcgm(m, r)
    BY <1>2 DEF Init
  <2> QED BY <1>1, <2>1, initDcgmKeeps DEF IInv, TypeOK, EnvOK
<1>3. CASE dcgmInitCounter # 0
  <2>1. UNCHANGED <<stopMode, env, faults>>
    BY <1>3, LaterInit
  <2> QED BY <1>1, <2>1 DEF IInv, TypeOK, EngineHasAgent, env
<1> QED BY <1>2, <1>3

\* The types, and that a running engine has an outstanding dcgmInit, hold in every state.
THEOREM InvariantIInv == Spec => []IInv
<1>1. Start => IInv
  <2> SUFFICES ASSUME Start  PROVE IInv
    OBVIOUS
  <2>1. user \in [User -> {"idle", "ok", "failed"}] /\ stopMode \in Modes
    BY DEF Start, Modes
  <2>2. /\ ~engine /\ lib \in BOOLEAN /\ engine \in BOOLEAN
        /\ up \in BOOLEAN /\ stray \in BOOLEAN
    BY DEF Start
  <2> QED BY <2>1, <2>2 DEF Start, IInv, TypeOK, EngineHasAgent
<1>2. IInv /\ [Next]_vars => IInv'
  <2> SUFFICES ASSUME IInv, [Next]_vars  PROVE IInv'
    OBVIOUS
  <2>1. CASE StrayShutdown
    BY <2>1, ShutdownKeeps DEF StrayShutdown, IInv, TypeOK
  <2>2. ASSUME NEW u \in User, Cleanup(u)
        PROVE  IInv'
    BY <2>2, ShutdownKeeps DEF Cleanup, IInv, TypeOK
  <2>3. ASSUME NEW u \in User, GiveUp(u)
        PROVE  IInv'
    BY <2>3 DEF GiveUp, IInv, TypeOK, EngineHasAgent, env
  <2>4. ASSUME NEW u \in User, NEW m \in Mode, Init(u, m)
        PROVE  IInv'
    BY <2>4, InitKeeps, InitAssumption
  <2>5. CASE UNCHANGED vars
    BY <2>5 DEF vars, env, IInv, TypeOK, EngineHasAgent
  <2> QED BY <2>1, <2>2, <2>3, <2>4, <2>5 DEF Next
<1> QED BY <1>1, <1>2, PTL DEF Spec

\* admin.go:88-128: dcgmShutdown is never called more often than dcgmInit
\* succeeded, in whatever order calls come and whatever fails.
THEOREM TypeCorrect == Spec => []TypeOK
<1>1. IInv => TypeOK
  BY DEF IInv
<1> QED BY <1>1, InvariantIInv, PTL

-----------------------------------------------------------------------------
\* Lemma: the callers that still owe a cleanup can be counted.
LEMMA HeldFinite ==
  ASSUME InitAssumption
  PROVE  IsFiniteSet(Held) /\ Cardinality(Held) \in Nat
<1>1. Held \in SUBSET User
  BY DEF Held
<1> QED BY <1>1, FS_Subset, FS_CardinalityType DEF InitAssumption

\* api.go:20-52: as long as callers clean up exactly once the counter is the number
\* of cleanups still to come, for any number of callers and any failures.
THEOREM CounterCorrect == Spec => []CounterMatches
<1>1. Start => CounterMatches
  <2> SUFFICES ASSUME Start  PROVE CounterMatches
    OBVIOUS
  <2>1. Held = {}
    BY DEF Start, Held
  <2> QED BY <2>1, FS_EmptySet DEF Start, CounterMatches
<1>2. IInv /\ CounterMatches /\ [Next]_vars => CounterMatches'
  <2> SUFFICES ASSUME IInv, CounterMatches, [Next]_vars, ~stray'
               PROVE  dcgmInitCounter' = Cardinality(Held')
    BY DEF CounterMatches
  <2>1. user \in [User -> {"idle", "ok", "failed"}]
    BY DEF IInv, TypeOK
  <2>2. ASSUME NEW u \in User, Cleanup(u)
        PROVE  dcgmInitCounter' = Cardinality(Held')
    <3>1. Held' = Held \ {u} /\ u \in Held /\ ~stray
      BY <2>1, <2>2 DEF Cleanup, Held
    <3>2. Cardinality(Held') = Cardinality(Held) - 1
      BY <3>1, HeldFinite, FS_RemoveElement, InitAssumption
    <3> QED BY <2>2, <3>1, <3>2 DEF Cleanup, Shutdown, CounterMatches
  <2>3. ASSUME NEW u \in User, NEW m \in Mode, Init(u, m)
        PROVE  dcgmInitCounter' = Cardinality(Held')
    <3>1. PICK r \in {"ok", "failed"} : user[u] = "idle" /\ user' = [user EXCEPT ![u] = r]
      BY <2>3 DEF Init
    <3>2. Held' = Held \cup {u} /\ u \notin Held
      BY <2>1, <3>1 DEF Held
    <3>3. Cardinality(Held') = Cardinality(Held) + 1
      BY <3>2, HeldFinite, FS_AddElement, InitAssumption
    <3> QED BY <2>3, <3>3 DEF Init, CounterMatches
  <2>4. CASE UNCHANGED vars
    BY <2>4 DEF vars, CounterMatches, Held
  <2> QED BY <2>2, <2>3, <2>4 DEF Next, StrayShutdown, GiveUp
<1> QED BY <1>1, <1>2, InvariantIInv, PTL DEF Spec

-----------------------------------------------------------------------------
\* Lemma: an Init without failures leaves the engine running.
LEMMA SoundAfterInit ==
  ASSUME InitAssumption, IInv, CounterDecides, NEW u \in User, NEW m \in Mode, Init(u, m)
  PROVE  CounterDecides'
<1> SUFFICES ASSUME faults' = {}
             PROVE  (dcgmInitCounter' > 0 => Running') /\ (dcgmInitCounter' <= 0 => Down')
  BY DEF CounterDecides
<1>1. dcgmInitCounter \in Int /\ dcgmInitCounter' = dcgmInitCounter + 1
  BY DEF IInv, TypeOK, Init
<1>2. CASE dcgmInitCounter = 0
  <2>1. PICK r : initDcgm(m, r)
    BY <1>2 DEF Init
  <2>2. Started(m)
    BY <2>1 DEF initDcgm, NoLibrary, NotPrepared, NoAgent, NoEngine, Fault
  <2>3. Down
    BY <1>2, <2>2 DEF CounterDecides, Started
  <2>4. agent' = 1
    BY <2>2, <2>3 DEF Started, Down
  <2>5. Running'
    BY <2>2, <2>3, <2>4 DEF Started, Forked, Running, Down
  <2>6. dcgmInitCounter' > 0
    BY <1>1, <1>2
  <2> QED BY <1>1, <2>5, <2>6
<1>3. CASE dcgmInitCounter # 0
  <2>1. UNCHANGED <<stopMode, env, faults>>
    BY <1>3, LaterInit
  <2>2. (Running <=> Running') /\ (Down <=> Down')
    BY <2>1 DEF env, Running, Down
  <2>3. (dcgmInitCounter > 0 => Running) /\ (dcgmInitCounter <= 0 => Down)
    BY <2>1 DEF CounterDecides
  <2>4. (dcgmInitCounter > 0 <=> dcgmInitCounter' > 0) /\ (dcgmInitCounter <= 0 <=> dcgmInitCounter' <= 0)
    BY <1>1, <1>3
  <2> QED BY <2>2, <2>3, <2>4
<1> QED BY <1>2, <1>3

\* Lemma: a Shutdown without failures stops the engine iff it is the last.
LEMMA SoundAfterShutdown ==
  ASSUME IInv, CounterDecides, Shutdown
  PROVE  CounterDecides'
<1> SUFFICES ASSUME faults' = {}
             PROVE  (dcgmInitCounter' > 0 => Running') /\ (dcgmInitCounter' <= 0 => Down')
  BY DEF CounterDecides
<1>1. dcgmInitCounter \in Int /\ dcgmInitCounter' = dcgmInitCounter - 1 /\ stopMode' = stopMode
  BY DEF IInv, TypeOK, Shutdown
<1>2. faults = {}
  BY DEF Shutdown, shutdown, Unresolved, NotStopped, AgentNotStopped, NotTerminated, Stopped, Fault
<1>3. (dcgmInitCounter > 0 => Running) /\ (dcgmInitCounter <= 0 => Down)
  BY <1>2 DEF CounterDecides
<1>4. CASE IsLast
  <2>1. dcgmInitCounter = 1 /\ shutdown
    BY <1>4 DEF IsLast, Shutdown
  <2>2. Running
    BY <1>3, <2>1
  <2>3. Stopped
    BY <2>1, <2>2
       DEF shutdown, Unresolved, NotStopped, AgentNotStopped, NotTerminated, Fault, Running
  <2>4. agent' = 0
    BY <2>2, <2>3 DEF Stopped, Running
  <2>5. children' = 0
    BY <2>2, <2>3 DEF Stopped, Terminate, Running
  <2>7. Down'
    BY <2>3, <2>4, <2>5 DEF Stopped, Down
  <2>6. ~(dcgmInitCounter' > 0)
    BY <1>1, <2>1
  <2> QED BY <2>6, <2>7
<1>5. CASE ~IsLast
  <2>1. (Running <=> Running') /\ (Down <=> Down')
    BY <1>1, <1>5 DEF Shutdown, env, Running, Down
  <2>2. (dcgmInitCounter > 0 <=> dcgmInitCounter' > 0) /\ (dcgmInitCounter <= 0 <=> dcgmInitCounter' <= 0)
    BY <1>1, <1>5 DEF IsLast
  <2> QED BY <1>3, <2>1, <2>2
<1> QED BY <1>4, <1>5

\* api.go:20-52, admin.go:88-128, 230-243: whatever order Init, cleanups and stray
\* Shutdowns come in, as long as nothing has failed the engine and all it needs is
\* there iff the counter is positive, and otherwise nothing is left.
THEOREM EngineFollowsCounter == Spec => []CounterDecides
<1>1. Start => CounterDecides
  BY DEF Start, CounterDecides, Down
<1>2. IInv /\ CounterDecides /\ [Next]_vars => CounterDecides'
  <2> SUFFICES ASSUME IInv, CounterDecides, [Next]_vars  PROVE CounterDecides'
    OBVIOUS
  <2>1. CASE StrayShutdown \/ \E u \in User : Cleanup(u)
    BY <2>1, SoundAfterShutdown DEF StrayShutdown, Cleanup
  <2>2. ASSUME NEW u \in User, NEW m \in Mode, Init(u, m)
        PROVE  CounterDecides'
    BY <2>2, SoundAfterInit, InitAssumption
  <2>3. CASE (\E u \in User : GiveUp(u)) \/ UNCHANGED vars
    BY <2>3 DEF GiveUp, vars, env, CounterDecides, Running, Down
  <2> QED BY <2>1, <2>2, <2>3 DEF Next
<1> QED BY <1>1, <1>2, InvariantIInv, PTL DEF Spec

-----------------------------------------------------------------------------
\* As long as no start has failed a positive counter means a running engine, whose
\* process is known when it is a child's.
CountedRuns ==
  (faults \cap StartFailures = {} /\ dcgmInitCounter > 0) =>
    engine /\ lib /\ (stopMode = "StartHostengine" => hostengineAsChildPid # "zero")

\* Lemma: a caller whose Init was refused below zero, or who finds a positive
\* counter, changes nothing; the first one starts the engine.
LEMMA RunsInvariant == Spec => []CountedRuns
<1>1. Start => CountedRuns
  BY DEF Start, CountedRuns
<1>2. IInv /\ CountedRuns /\ [Next]_vars => CountedRuns'
  <2> SUFFICES ASSUME IInv, CountedRuns, [Next]_vars,
                      faults' \cap StartFailures = {}, dcgmInitCounter' > 0
               PROVE  CountedRuns'
    BY DEF CountedRuns
  <2>1. dcgmInitCounter \in Int
    BY DEF IInv, TypeOK
  <2>2. CASE Shutdown
    <3>1. dcgmInitCounter > 1 /\ ~IsLast
      BY <2>1, <2>2 DEF Shutdown, IsLast
    <3> QED BY <2>1, <2>2, <3>1 DEF Shutdown, env, CountedRuns
  <2>3. ASSUME NEW u \in User, NEW m \in Mode, Init(u, m)
        PROVE  CountedRuns'
    <3>1. dcgmInitCounter' = dcgmInitCounter + 1
      BY <2>3 DEF Init
    <3>2. CASE dcgmInitCounter = 0
      <4>1. PICK r : initDcgm(m, r)
        BY <2>3, <3>2 DEF Init
      <4>2. Started(m)
        BY <4>1 DEF initDcgm, NoLibrary, NotPrepared, NoAgent, NoEngine, Fault, StartFailures
      <4> QED BY <4>2 DEF Started, Forked, CountedRuns
    <3>3. CASE dcgmInitCounter # 0
      <4>1. UNCHANGED <<stopMode, env, faults>> /\ dcgmInitCounter > 0
        BY <2>1, <2>3, <3>1, <3>3, LaterInit
      <4> QED BY <4>1 DEF env, CountedRuns
    <3> QED BY <3>2, <3>3
  <2>4. CASE (\E u \in User : GiveUp(u)) \/ UNCHANGED vars
    BY <2>4 DEF GiveUp, vars, env, CountedRuns
  <2> QED BY <2>2, <2>3, <2>4 DEF Next, StrayShutdown, Cleanup
<1> QED BY <1>1, <1>2, InvariantIInv, PTL DEF Spec

-----------------------------------------------------------------------------
\* No start has failed and every cleanup was called once.
Reliable == ~stray /\ faults \cap StartFailures = {}

\* Until then nobody's Init has returned an error.
NoneFailed == Reliable => \A u \in User : user[u] # "failed"

\* What the steps rely on.
LInv == IInv /\ CounterMatches /\ CounterDecides /\ CountedRuns /\ NoneFailed

\* Lemma: nothing that has failed is forgotten.
LEMMA FaultsGrow ==
  ASSUME IInv, [Next]_vars
  PROVE  faults \subseteq faults'
<1>1. CASE Shutdown
  BY <1>1 DEF Shutdown, shutdown, Unresolved, NotStopped, AgentNotStopped, NotTerminated,
              Stopped, Fault
<1>2. ASSUME NEW u \in User, NEW m \in Mode, Init(u, m)
      PROVE  faults \subseteq faults'
  <2>1. CASE dcgmInitCounter = 0
    BY <1>2, <2>1 DEF Init, initDcgm, Started, NoLibrary, NotPrepared, NoAgent, NoEngine, Fault
  <2>2. CASE dcgmInitCounter # 0
    BY <1>2, <2>2, LaterInit
  <2> QED BY <2>1, <2>2
<1>3. CASE (\E u \in User : GiveUp(u)) \/ UNCHANGED vars
  BY <1>3 DEF GiveUp, vars
<1> QED BY <1>1, <1>2, <1>3 DEF Next, StrayShutdown, Cleanup

\* Lemma: a promise that holds has held before.
LEMMA StaysUnreliable ==
  ASSUME IInv, [Next]_vars, Reliable'
  PROVE  Reliable
<1>1. stray \in BOOLEAN
  BY DEF IInv, TypeOK
<1>2. stray' \/ stray' = stray
  BY DEF Next, StrayShutdown, Cleanup, GiveUp, Init, vars
<1> QED BY <1>1, <1>2, FaultsGrow DEF Reliable

\* Lemma: an Init after which the promise holds made its caller a holder of the engine.
LEMMA InitHolds ==
  ASSUME LInv, NEW u \in User, NEW m \in Mode, Init(u, m), Reliable, Reliable'
  PROVE  /\ user[u] = "idle" /\ user' = [user EXCEPT ![u] = "ok"]
         /\ engine' /\ lib' /\ faults' = faults
<1>1. PICK r \in {"ok", "failed"} :
        /\ CASE dcgmInitCounter = 0 -> initDcgm(m, r)
             [] dcgmInitCounter > 0 -> r = "ok" /\ UNCHANGED <<stopMode, env, faults>>
             [] dcgmInitCounter < 0 -> r = "failed" /\ UNCHANGED <<stopMode, env, faults>>
        /\ user' = [user EXCEPT ![u] = r]
  BY DEF Init
<1>2. dcgmInitCounter \in Nat
  BY HeldFinite, InitAssumption DEF LInv, CounterMatches, Reliable
<1>3. CASE dcgmInitCounter = 0
  <2>1. initDcgm(m, r)
    BY <1>1, <1>3
  <2>2. r = "ok" /\ Started(m)
    BY <2>1 DEF initDcgm, NoLibrary, NotPrepared, NoAgent, NoEngine, Fault, StartFailures,
                Reliable
  <2> QED BY <1>1, <2>2 DEF Init, Started
<1>4. CASE dcgmInitCounter > 0
  <2>1. r = "ok" /\ UNCHANGED <<stopMode, env, faults>>
    <3>1. dcgmInitCounter # 0 /\ ~(dcgmInitCounter < 0)
      BY <1>2, <1>4
    <3> QED BY <1>1, <1>4, <3>1
  <2> QED BY <1>1, <1>4, <2>1 DEF Init, LInv, CountedRuns, Reliable, env
<1> QED BY <1>2, <1>3, <1>4

\* What is left of an engine, and that a stop has failed.
Left == lib \/ engine \/ agent > 0 \/ children > 0
Botched == faults \cap StopFailures # {}

\* Lemma: the counter is one for the last holder, and then the engine is there to be
\* stopped; for any other it stays as it is.
LEMMA CleanupReleases ==
  ASSUME LInv, NEW u \in User, Cleanup(u), Reliable, Reliable', IInv', CounterDecides'
  PROVE  /\ user[u] = "ok" /\ user' = [user EXCEPT ![u] = "idle"] /\ up' = up
         /\ IF Held \ {u} = {} THEN Left' => Botched' ELSE UNCHANGED <<env, faults>>
<1>1. /\ user[u] # "idle" /\ user' = [user EXCEPT ![u] = "idle"] /\ Shutdown
  BY DEF Cleanup
<1>2. user[u] = "ok" /\ u \in Held
  BY <1>1 DEF LInv, NoneFailed, IInv, TypeOK, Held
<1>3. /\ dcgmInitCounter = Cardinality(Held) /\ dcgmInitCounter \in Nat
      /\ Cardinality(Held \ {u}) = dcgmInitCounter - 1
      /\ Cardinality(Held \ {u}) = 0 <=> Held \ {u} = {}
  <2>1. IsFiniteSet(Held) /\ Cardinality(Held) \in Nat
    BY HeldFinite, InitAssumption
  <2>2. IsFiniteSet(Held \ {u}) /\ Cardinality(Held \ {u}) = Cardinality(Held) - 1
    BY <1>2, <2>1, FS_RemoveElement
  <2>3. Cardinality(Held \ {u}) = 0 <=> Held \ {u} = {}
    BY <2>2, FS_EmptySet
  <2>4. dcgmInitCounter = Cardinality(Held)
    BY DEF LInv, CounterMatches, Reliable
  <2> QED BY <2>1, <2>2, <2>3, <2>4
<1>4. dcgmInitCounter > 0
  BY <1>2, <1>3, HeldFinite, FS_EmptySet, InitAssumption
<1>5. engine /\ lib /\ (stopMode = "StartHostengine" => hostengineAsChildPid # "zero")
  BY <1>4 DEF LInv, CountedRuns, Reliable
<1>6. CASE IsLast
  <2>1. up' = up
    <3>1. up = TRUE
      BY DEF Cleanup, LInv, IInv, TypeOK
    <3> QED BY <1>1, <1>5, <1>6, <3>1 DEF Shutdown, shutdown, Unresolved, NotStopped,
              AgentNotStopped, NotTerminated, Stopped, Terminate
  <2>2. Held \ {u} = {} /\ dcgmInitCounter' = 0
    BY <1>1, <1>3, <1>6 DEF IsLast, Shutdown
  <2>3. ~Botched' => faults' = {}
    BY DEF Botched, Reliable, IInv, TypeOK
  <2>4. faults' = {} => Down'
    BY <2>2 DEF CounterDecides
  <2>5. Down' => ~Left'
    BY DEF Down, Left
  <2> QED BY <1>1, <1>2, <2>1, <2>2, <2>3, <2>4, <2>5
<1>7. CASE ~IsLast
  <2>1. UNCHANGED <<env, up, faults>>
    BY <1>1, <1>7 DEF Shutdown
  <2> QED BY <1>1, <1>2, <1>3, <1>7, <2>1 DEF IsLast
<1> QED BY <1>6, <1>7

\* Lemma: an error is returned only when a start fails.
LEMMA NoneFailedStep == LInv /\ [Next]_vars => NoneFailed'
<1> SUFFICES ASSUME LInv, [Next]_vars, Reliable', NEW v \in User
             PROVE  user'[v] # "failed"
  BY DEF NoneFailed
<1>1. Reliable /\ user[v] # "failed" /\ user \in [User -> {"idle", "ok", "failed"}]
  BY StaysUnreliable DEF LInv, NoneFailed, IInv, TypeOK
<1>2. ASSUME NEW u \in User, NEW m \in Mode, Init(u, m)  PROVE user'[v] # "failed"
  BY <1>1, <1>2, InitHolds
<1>3. ASSUME NEW u \in User, Cleanup(u) \/ GiveUp(u)  PROVE user'[v] # "failed"
  BY <1>1, <1>3 DEF Cleanup, GiveUp
<1>4. CASE StrayShutdown \/ UNCHANGED vars
  BY <1>1, <1>4 DEF StrayShutdown, vars
<1> QED BY <1>2, <1>3, <1>4 DEF Next

\* Lemma: every step that keeps the promise takes or gives back the engine for one caller.
LEMMA LeaseStep == LInv /\ [Next]_vars /\ IInv' /\ CounterDecides' => [L!Next]_(L!vars)
<1> SUFFICES ASSUME LInv, [Next]_vars, IInv', CounterDecides'  PROVE [L!Next]_(L!vars)
  OBVIOUS
<1> DEFINE holders == {u \in User : user[u] = "ok"}
<1>0. /\ (~stray /\ faults \cap StartFailures = {}) <=> Reliable
      /\ (~stray' /\ faults' \cap StartFailures = {}) <=> Reliable'
  BY DEF Reliable
<1>1. CASE ~Reliable'
  BY <1>0, <1>1 DEF L!Next
<1>2. CASE Reliable'
  <2>1. Reliable /\ user \in [User -> {"idle", "ok", "failed"}]
    BY <1>2, StaysUnreliable DEF LInv, IInv, TypeOK
  <2>2. Held = holders
    BY <1>2, <2>1 DEF Held, LInv, NoneFailed
  <2>0. faults \cap StopFailures # {} => faults' \cap StopFailures # {}
    BY FaultsGrow DEF LInv
  <2>3. ASSUME NEW u \in User, NEW m \in Mode, Init(u, m)
        PROVE  L!Next
    <3>1. /\ user[u] = "idle" /\ user' = [user EXCEPT ![u] = "ok"]
          /\ engine' /\ lib' /\ up' = up /\ faults' = faults
      BY <1>2, <2>1, <2>3, InitHolds DEF Init
    <3>2. u \notin holders /\ holders' = holders \cup {u}
      BY <2>1, <3>1
    <3>3. L!Acquire(u)
      BY <3>1, <3>2 DEF L!Acquire
    <3> QED BY <1>0, <1>2, <2>0, <2>1, <3>1, <3>3 DEF L!Next
  <2>4. ASSUME NEW u \in User, Cleanup(u)
        PROVE  L!Next
    <3>1. /\ user[u] = "ok" /\ user' = [user EXCEPT ![u] = "idle"] /\ up' = up
          /\ IF Held \ {u} = {} THEN Left' => Botched' ELSE UNCHANGED <<env, faults>>
      BY <1>2, <2>1, <2>4, CleanupReleases
    <3>2. u \in holders /\ holders' = holders \ {u}
      BY <2>1, <3>1
    <3>3. L!Release(u)
      BY <2>2, <3>1, <3>2 DEF L!Release, Left, Botched, env
    <3> QED BY <1>0, <1>2, <2>0, <2>1, <3>1, <3>3 DEF L!Next
  <2>5. CASE UNCHANGED vars
    BY <2>5 DEF L!vars, vars, env
  <2>6. ~StrayShutdown /\ \A u \in User : ~GiveUp(u)
    BY <1>2 DEF StrayShutdown, GiveUp, Reliable
  <2> QED BY <2>3, <2>4, <2>5, <2>6 DEF Next
<1> QED BY <1>1, <1>2

\* api.go:20-52, admin.go:88-243: for any number of callers Init and Shutdown implement
\* Lease. Until a start fails or a cleanup is one too many, the engine can be used from
\* the first who takes it until the last has given it back, no call ends the process,
\* and the last leaves no library, agent, handle or child behind unless a stop has failed.
THEOREM ImplementsLease == Spec => Leases
<1>1. Start => L!Free
  BY DEF Start, L!Free
<1>2. Start => NoneFailed
  BY DEF Start, NoneFailed
<1>3. LInv /\ [Next]_vars => NoneFailed'
  BY NoneFailedStep
<1>4. LInv /\ [Next]_vars /\ IInv' /\ CounterDecides' => [L!Next]_(L!vars)
  BY LeaseStep
<1> QED BY <1>1, <1>2, <1>3, <1>4, InvariantIInv, CounterCorrect, EngineFollowsCounter,
           RunsInvariant, PTL DEF Spec, LInv, Leases, L!Spec

-----------------------------------------------------------------------------
\* Where a call has a field group: from its creation to its destruction.
WithFields == {"create", "add", "set", "latest", "dropFields"}

\* A goroutine has a field group exactly there, it exists, and it is nobody else's.
FieldsOwn ==
  \A p \in Proc :
    /\ fieldsId[p] # NoHandle <=> (call[p] = "values" /\ pc[p] \in WithFields)
    /\ fieldsId[p] # NoHandle =>
         /\ fieldsId[p] \in fieldGroups
         /\ \A q \in Proc \ {p} : fieldsId[q] # fieldsId[p]

\* Only latestValuesForDevice and getPciBandwidth get as far as their values, and
\* before a group is created no call has one.
Places ==
  \A p \in Proc :
    /\ pc[p] \in {"latest", "dropFields"} => call[p] = "values"
    /\ pc[p] \in {"idle", "fields", "create"} => groupId[p] = NoHandle

Typed == GroupsTypeOK /\ FieldsOwn /\ Places

-----------------------------------------------------------------------------
LEMMA TypedInit == GroupsInit => Typed
<1> SUFFICES ASSUME GroupsInit PROVE Typed
  OBVIOUS
<1> USE GroupsAssumption DEF GroupsAssumption, GroupsInit
<1>1. misused \in BOOLEAN
  OBVIOUS
<1>2. GroupsTypeOK
  BY <1>1 DEF GroupsTypeOK, Kind, Label
<1>3. FieldsOwn
  BY DEF FieldsOwn, WithFields
<1>4. Places
  BY DEF Places
<1> QED
  BY <1>2, <1>3, <1>4 DEF Typed

LEMMA TypedStep == Typed /\ [GroupsNext]_groupsVars => Typed'
<1> SUFFICES ASSUME Typed, [GroupsNext]_groupsVars PROVE Typed'
  OBVIOUS
<1> USE GroupsAssumption DEF GroupsAssumption, Typed, GroupsTypeOK, FieldsOwn, Places, WithFields, Kind, Label
<1>1. ASSUME NEW p \in Proc, Alone,
             \/ Begin(p, "values", "fields", NoHandle)
             \/ \E k \in {"check", "watch"} : Begin(p, k, "create", NoHandle)
      PROVE  Typed'
  BY <1>1 DEF Begin, Alone, library, counts, handles
<1>2. ASSUME NEW p \in Proc, NEW h \in Handle, getProcessInfo(p, h)
      PROVE  Typed'
  BY <1>2 DEF getProcessInfo, Begin, library, counts
<1>3. ASSUME NEW p \in Proc, FieldGroupCreate(p) PROVE Typed'
  BY <1>3 DEF FieldGroupCreate, Calling, Goto, dcgmFieldGroupCreate, handles, counts
<1>4. ASSUME NEW p \in Proc, CreateGroup(p) PROVE Typed'
  BY <1>4 DEF CreateGroup, Abandon, Goto, dcgmGroupCreate, handles, counts
<1>5. ASSUME NEW p \in Proc, getSupportedDevices(p) PROVE Typed'
  BY <1>5 DEF getSupportedDevices, Calling, Abandon, Goto, Fail, library, handles
<1>6. ASSUME NEW p \in Proc, OnGroup(p, "set"), pc[p] = "add" PROVE Typed'
  BY <1>6 DEF OnGroup, Abandon, Goto, Succeeds, Errs, Fail, library, handles
<1>7. ASSUME NEW p \in Proc, Set(p) PROVE Typed'
  BY <1>7 DEF Set, Calling, OnGroup, Abandon, Goto, Succeeds, Errs, Fail, library, handles
<1>8. ASSUME NEW p \in Proc, Check(p) PROVE Typed'
  BY <1>8 DEF Check, Calling, OnGroup, Abandon, Goto, Succeeds, Errs, Fail, library, handles
<1>9. ASSUME NEW p \in Proc, WatchFields(p) PROVE Typed'
  BY <1>9 DEF WatchFields, Calling, OnGroup, Abandon, Goto, Succeeds, Errs, Fail, library,
              handles
<1>10. ASSUME NEW p \in Proc, GetLatestValuesForFields(p) PROVE Typed'
  BY <1>10 DEF GetLatestValuesForFields, Calling, Goto, library, handles, counts
<1>11. ASSUME NEW p \in Proc, FieldGroupDestroy(p) PROVE Typed'
  BY <1>11 DEF FieldGroupDestroy, Calling, Goto, dcgmFieldGroupDestroy, handles
<1>12. ASSUME NEW p \in Proc, WatchPid(p) PROVE Typed'
  BY <1>12 DEF WatchPid, Calling, Abandon, Goto, Succeeds, Errs, Fail, library, handles
<1>13. ASSUME NEW p \in Proc, PidInfo(p) PROVE Typed'
  BY <1>13 DEF PidInfo, PidInfoAs, Calling, Goto, Succeeds, library, handles
<1>14. ASSUME NEW p \in Proc, DestroyGroup(p) PROVE Typed'
  BY <1>14 DEF DestroyGroup, dcgmGroupDestroy, Goto, Succeeds, Errs, Fail, handles
<1>15. CASE UNCHANGED groupsVars
  BY <1>15 DEF groupsVars, library, calls, handles, counts
<1> QED
  BY <1>1, <1>2, <1>3, <1>4, <1>5, <1>6, <1>7, <1>8, <1>9, <1>10, <1>11, <1>12, <1>13,
     <1>14, <1>15
  DEF GroupsNext, healthCheckByGpuId, registerPolicy, latestValuesForDevice, getPciBandwidth,
      watchPidFields, AddToGroup

-----------------------------------------------------------------------------
\* Handles the application may still pass name groups that exist.
Owned == OwnGroup /\ (~misused => watches \subseteq groups)

LEMMA OwnedStep == Typed /\ Owned /\ [GroupsNext]_groupsVars => Owned'
<1> SUFFICES ASSUME Typed, Owned, [GroupsNext]_groupsVars, ~misused' PROVE Owned'
  BY DEF Owned, OwnGroup
<1>m. ~misused
  BY DEF GroupsNext, healthCheckByGpuId, registerPolicy, latestValuesForDevice, getPciBandwidth,
         watchPidFields, AddToGroup, Alone, getProcessInfo, FieldGroupCreate, CreateGroup,
         getSupportedDevices, OnGroup, Set, Check, WatchFields, GetLatestValuesForFields,
         FieldGroupDestroy, WatchPid, PidInfo, PidInfoAs, DestroyGroup, groupsVars
<1> USE <1>m, GroupsAssumption DEF GroupsAssumption, Owned, OwnGroup, Typed, GroupsTypeOK, Places
<1>1. ASSUME NEW p \in Proc, Alone, \E k \in Kind, l \in Label : Begin(p, k, l, NoHandle)
      PROVE  Owned'
  BY <1>1 DEF Begin, Alone, library, counts, handles
<1>2. ASSUME NEW p \in Proc, NEW h \in Handle, getProcessInfo(p, h)
      PROVE  Owned'
  <2>1. h \in watches
    BY ONLY <1>2, ~misused' DEF getProcessInfo
  <2>2. /\ pc[p] = "idle" /\ call' = [call EXCEPT ![p] = "info"]
        /\ groupId' = [groupId EXCEPT ![p] = h] /\ watches' = watches \ {h}
        /\ UNCHANGED <<groups, maker>>
    BY <1>2 DEF getProcessInfo, Begin, library
  <2> QED
    BY <2>1, <2>2
<1>3. ASSUME NEW p \in Proc, FieldGroupCreate(p) PROVE Owned'
  BY <1>3 DEF FieldGroupCreate, Calling, Goto, dcgmFieldGroupCreate, handles, counts
<1>4. ASSUME NEW p \in Proc, CreateGroup(p) PROVE Owned'
  BY <1>4 DEF CreateGroup, Abandon, Goto, dcgmGroupCreate, handles, counts
<1>5. ASSUME NEW p \in Proc, getSupportedDevices(p) PROVE Owned'
  BY <1>5 DEF getSupportedDevices, Calling, Abandon, Goto, Fail, library, handles
<1>6. ASSUME NEW p \in Proc, NEW l \in Label \ {"idle"}, OnGroup(p, l) PROVE Owned'
  BY <1>6 DEF OnGroup, Abandon, Goto, Succeeds, Errs, Fail, library, handles
<1>7. ASSUME NEW p \in Proc, GetLatestValuesForFields(p) PROVE Owned'
  BY <1>7 DEF GetLatestValuesForFields, Calling, Goto, library, handles, counts
<1>8. ASSUME NEW p \in Proc, FieldGroupDestroy(p) PROVE Owned'
  BY <1>8 DEF FieldGroupDestroy, Calling, Goto, dcgmFieldGroupDestroy, handles
<1>9. ASSUME NEW p \in Proc, WatchPid(p) PROVE Owned'
  BY <1>9 DEF WatchPid, Calling, Abandon, Goto, Succeeds, Errs, Fail, library, handles
<1>10. ASSUME NEW p \in Proc, PidInfo(p) PROVE Owned'
  BY <1>10 DEF PidInfo, PidInfoAs, Calling, Goto, Succeeds, library, handles
<1>11. ASSUME NEW p \in Proc, DestroyGroup(p) PROVE Owned'
  BY <1>11 DEF DestroyGroup, dcgmGroupDestroy, Goto, Succeeds, Errs, Fail, handles
<1>12. CASE UNCHANGED groupsVars
  BY <1>12 DEF groupsVars, library, calls, handles, counts
<1> QED
  BY <1>1, <1>2, <1>3, <1>4, <1>5, <1>6, <1>7, <1>8, <1>9, <1>10, <1>11, <1>12
  DEF GroupsNext, healthCheckByGpuId, registerPolicy, latestValuesForDevice, getPciBandwidth,
      watchPidFields, AddToGroup, Set, Check, WatchFields, Calling, Kind, Label

-----------------------------------------------------------------------------
\* Field groups nobody has a handle of.
Orphans == fieldGroups \ {fieldsId[p] : p \in Proc}

\* A step that leaves the field groups and their handles alone.
LEMMA SameOrphans ==
  ASSUME UNCHANGED <<fieldGroups, fieldsId, fieldFailures>>
  PROVE  UNCHANGED <<Orphans, fieldFailures>>
  BY DEF Orphans

LEMMA FreedStep == Typed /\ FieldGroupsFreed /\ [GroupsNext]_groupsVars => FieldGroupsFreed'
<1> SUFFICES ASSUME Typed, FieldGroupsFreed, [GroupsNext]_groupsVars PROVE FieldGroupsFreed'
  OBVIOUS
<1> USE GroupsAssumption DEF GroupsAssumption
<1>f. IsFiniteSet(Orphans) /\ Cardinality(Orphans) \in Nat
  BY FS_Subset, FS_CardinalityType DEF Typed, GroupsTypeOK, Orphans
<1>c. Cardinality(Orphans) <= fieldFailures /\ fieldFailures \in Nat
  BY DEF FieldGroupsFreed, Orphans, Typed, GroupsTypeOK
<1>s. ASSUME UNCHANGED <<Orphans, fieldFailures>> PROVE FieldGroupsFreed'
  BY <1>s, <1>c DEF FieldGroupsFreed, Orphans
<1>1. ASSUME NEW p \in Proc, FieldGroupCreate(p) PROVE FieldGroupsFreed'
  <2>1. UNCHANGED <<Orphans, fieldFailures>>
    <3> USE <1>1 DEF FieldGroupCreate, Calling, dcgmFieldGroupCreate, counts, Orphans
    <3>1. CASE UNCHANGED <<fieldGroups, fieldsId>>
      BY <3>1
    <3>2. ASSUME NEW f \in FieldHandle, f \notin fieldGroups, fieldGroups' = fieldGroups \cup {f},
                 fieldsId' = [fieldsId EXCEPT ![p] = f]
          PROVE  Orphans' = Orphans
      <4>1. fieldsId[p] = NoHandle /\ NoHandle \notin fieldGroups
        BY DEF Typed, GroupsTypeOK, FieldsOwn, WithFields
      <4>2. ASSUME NEW g PROVE g \in Orphans' <=> g \in Orphans
        BY <3>2, <4>1 DEF Typed, GroupsTypeOK
      <4> QED
        BY <4>2
    <3> QED
      BY <3>1, <3>2
  <2> QED
    BY <2>1, <1>s
<1>2. ASSUME NEW p \in Proc, FieldGroupDestroy(p) PROVE FieldGroupsFreed'
  <2> USE <1>2 DEF FieldGroupDestroy, Calling, dcgmFieldGroupDestroy
  <2>1. /\ fieldsId' = [fieldsId EXCEPT ![p] = NoHandle]
        /\ fieldsId[p] \in fieldGroups /\ NoHandle \notin fieldGroups
        /\ \A q \in Proc \ {p} : fieldsId[q] # fieldsId[p]
    BY DEF Typed, GroupsTypeOK, FieldsOwn
  <2>2. CASE fieldGroups' = fieldGroups \ {fieldsId[p]} /\ UNCHANGED fieldFailures
    <3>1. ASSUME NEW g PROVE g \in Orphans' <=> g \in Orphans
      BY <2>1, <2>2 DEF Typed, GroupsTypeOK, Orphans
    <3> QED
      BY <3>1, <2>2, <1>s
  <2>3. CASE fieldFailures' = fieldFailures + 1 /\ UNCHANGED fieldGroups
    <3>1. ASSUME NEW g PROVE g \in Orphans' <=> g \in Orphans \cup {fieldsId[p]}
      BY <2>1, <2>3 DEF Typed, GroupsTypeOK, Orphans
    <3>2. Orphans' = Orphans \cup {fieldsId[p]}
      BY <3>1
    <3>3. Cardinality(Orphans') = Cardinality(Orphans) \/ Cardinality(Orphans') = Cardinality(Orphans) + 1
      BY <3>2, <1>f, FS_AddElement
    <3>4. Cardinality(Orphans') <= fieldFailures'
      BY <3>3, <2>3, <1>c, <1>f
    <3> QED
      BY <3>4 DEF FieldGroupsFreed, Orphans
  <2> QED
    BY <2>2, <2>3
<1>3. CASE UNCHANGED <<fieldGroups, fieldsId, fieldFailures>>
  BY <1>3, <1>s, SameOrphans
<1> QED
  BY <1>1, <1>2, <1>3
  DEF GroupsNext, healthCheckByGpuId, registerPolicy, latestValuesForDevice, getPciBandwidth,
      watchPidFields, Begin, getProcessInfo, CreateGroup, getSupportedDevices, AddToGroup,
      OnGroup, Set, Check, WatchFields, GetLatestValuesForFields, WatchPid, PidInfo, PidInfoAs,
      DestroyGroup, library, counts, groupsVars, calls

-----------------------------------------------------------------------------
\* A call forgets one group at most, and then a failure is counted.
LEMMA ForgottenFinite ==
  ASSUME Typed
  PROVE  IsFiniteSet(forgotten) /\ Cardinality(forgotten) \in Nat
  BY GroupsAssumption, FS_Subset, FS_CardinalityType
  DEF GroupsAssumption, Typed, GroupsTypeOK, forgotten

LEMMA NothingForgotten ==
  ASSUME Typed, OneGroupPerFailure, failures' \in Nat, failures' >= failures,
         forgotten' \subseteq forgotten
  PROVE  OneGroupPerFailure'
<1>1. Cardinality(forgotten') \in Nat /\ Cardinality(forgotten') <= Cardinality(forgotten)
  BY ForgottenFinite, FS_Subset, FS_CardinalityType
<1> QED
  BY <1>1, ForgottenFinite DEF OneGroupPerFailure, Typed, GroupsTypeOK

LEMMA OneForgotten ==
  ASSUME Typed, OneGroupPerFailure, failures' = failures + 1,
         NEW g, forgotten' \subseteq forgotten \cup {g}
  PROVE  OneGroupPerFailure'
<1>1. /\ IsFiniteSet(forgotten \cup {g})
      /\ \/ Cardinality(forgotten \cup {g}) = Cardinality(forgotten)
         \/ Cardinality(forgotten \cup {g}) = Cardinality(forgotten) + 1
  BY ForgottenFinite, FS_AddElement
<1>2. Cardinality(forgotten') \in Nat /\ Cardinality(forgotten') <= Cardinality(forgotten \cup {g})
  BY <1>1, FS_Subset, FS_CardinalityType
<1> QED
  BY <1>1, <1>2, ForgottenFinite DEF OneGroupPerFailure, Typed, GroupsTypeOK

LEMMA FailureStep == Typed /\ OneGroupPerFailure /\ [GroupsNext]_groupsVars => OneGroupPerFailure'
<1> SUFFICES ASSUME Typed, OneGroupPerFailure, [GroupsNext]_groupsVars PROVE OneGroupPerFailure'
  OBVIOUS
<1> USE GroupsAssumption DEF GroupsAssumption
<1>t. failures \in Nat
  BY DEF Typed, GroupsTypeOK
<1>0. ASSUME UNCHANGED <<groups, groupId, watches, failures>> PROVE OneGroupPerFailure'
  <2>1. forgotten' = forgotten
    BY <1>0 DEF forgotten, inUse
  <2> QED
    BY <2>1, <1>0, <1>t, NothingForgotten
\* A step of p that keeps its group, or had none.
<1>k. ASSUME NEW p \in Proc, UNCHANGED <<groups, watches, failures>>,
             NEW h, groupId' = [groupId EXCEPT ![p] = h],
             groupId[p] = NoHandle \/ groupId[p] = h
      PROVE  OneGroupPerFailure'
  <2>1. ASSUME NEW g \in forgotten' PROVE g \in forgotten
    BY <1>k DEF forgotten, inUse, Typed, GroupsTypeOK
  <2> QED
    BY <2>1, <1>k, <1>t, NothingForgotten
\* A step of p that gives its group up after an error.
<1>a. ASSUME NEW p \in Proc, UNCHANGED <<groups, watches>>, Errs(groupId[p]),
             groupId' = [groupId EXCEPT ![p] = NoHandle]
      PROVE  OneGroupPerFailure'
  <2>1. ASSUME NEW g \in forgotten' PROVE g \in forgotten \cup {groupId[p]}
    BY <1>a DEF forgotten, inUse, Typed, GroupsTypeOK
  <2>2. CASE groupId[p] \in groups
    BY <2>1, <2>2, <1>a, <1>t, OneForgotten DEF Errs, Fail
  <2>3. CASE groupId[p] \notin groups
    <3>1. forgotten' \subseteq forgotten
      BY <2>1, <2>3, <1>a DEF forgotten
    <3> QED
      BY <3>1, <2>3, <1>a, <1>t, NothingForgotten DEF Errs
  <2> QED
    BY <2>2, <2>3
\* A step of p that hands its group to the application.
<1>h. ASSUME NEW p \in Proc, UNCHANGED <<groups, failures>>,
             watches' = watches \cup {groupId[p]},
             groupId' = [groupId EXCEPT ![p] = NoHandle]
      PROVE  OneGroupPerFailure'
  <2>1. ASSUME NEW g \in forgotten' PROVE g \in forgotten
    BY <1>h DEF forgotten, inUse, Typed, GroupsTypeOK
  <2> QED
    BY <2>1, <1>h, <1>t, NothingForgotten
<1>1. ASSUME NEW p \in Proc, Alone, \E k \in Kind, l \in Label : Begin(p, k, l, NoHandle)
      PROVE  OneGroupPerFailure'
  BY <1>1, <1>k DEF Begin, Alone, library, counts, handles, Typed, Places
<1>2. ASSUME NEW p \in Proc, NEW h \in Handle, getProcessInfo(p, h)
      PROVE  OneGroupPerFailure'
  <2>1. /\ pc[p] = "idle" /\ groupId' = [groupId EXCEPT ![p] = h] /\ watches' = watches \ {h}
        /\ UNCHANGED <<groups, failures>>
    BY <1>2 DEF getProcessInfo, Begin, library, counts
  <2>2. ASSUME NEW g \in forgotten' PROVE g \in forgotten
    BY <2>1 DEF forgotten, inUse, Typed, GroupsTypeOK, Places
  <2> QED
    BY <2>1, <2>2, <1>t, NothingForgotten
<1>3. ASSUME NEW p \in Proc, FieldGroupCreate(p) PROVE OneGroupPerFailure'
  <2>1. groupId[p] = NoHandle
    BY <1>3 DEF FieldGroupCreate, Calling, Typed, Places
  <2> QED
    BY <1>3, <2>1, <1>k DEF FieldGroupCreate, Goto, handles, counts
<1>4. ASSUME NEW p \in Proc, CreateGroup(p) PROVE OneGroupPerFailure'
  <2>1. groupId[p] = NoHandle
    BY <1>4 DEF CreateGroup, Typed, Places
  <2>2. ASSUME NEW h \in Handle, groups' = groups \cup {h},
               groupId' = [groupId EXCEPT ![p] = h], UNCHANGED <<watches, failures>>
        PROVE  OneGroupPerFailure'
    <3>1. ASSUME NEW g \in forgotten' PROVE g \in forgotten
      BY <2>1, <2>2 DEF forgotten, inUse, Typed, GroupsTypeOK
    <3> QED
      BY <3>1, <2>2, <1>t, NothingForgotten
  <2>3. ASSUME Abandon(p), UNCHANGED <<groups, watches, failures>>
        PROVE  OneGroupPerFailure'
    BY <2>1, <2>3, <1>k DEF Abandon, Goto
  <2> QED
    BY <1>4, <2>2, <2>3 DEF CreateGroup, dcgmGroupCreate, Goto, handles, counts
<1>5. ASSUME NEW p \in Proc, getSupportedDevices(p) PROVE OneGroupPerFailure'
  <2>1. CASE Abandon(p) /\ Fail
    <3>1. UNCHANGED <<groups, watches>> /\ groupId' = [groupId EXCEPT ![p] = NoHandle]
      BY <1>5, <2>1 DEF getSupportedDevices, Abandon, Goto, library, handles
    <3>2. ASSUME NEW g \in forgotten' PROVE g \in forgotten \cup {groupId[p]}
      BY <3>1 DEF forgotten, inUse, Typed, GroupsTypeOK
    <3> QED
      BY <3>2, <2>1, OneForgotten DEF Fail
  <2>2. CASE ~(Abandon(p) /\ Fail)
    BY <1>5, <2>2, <1>k DEF getSupportedDevices, Goto, library, handles
  <2> QED
    BY <2>1, <2>2
<1>6. ASSUME NEW p \in Proc, NEW l, OnGroup(p, l) PROVE OneGroupPerFailure'
  <2>1. CASE Goto(p, l, groupId[p]) /\ Succeeds(groupId[p])
    BY <1>6, <2>1, <1>k DEF OnGroup, Goto, Succeeds, library, handles
  <2>2. CASE Abandon(p) /\ Errs(groupId[p])
    BY <1>6, <2>2, <1>a DEF OnGroup, Abandon, Goto, library, handles
  <2> QED
    BY <1>6, <2>1, <2>2 DEF OnGroup
<1>7. ASSUME NEW p \in Proc, GetLatestValuesForFields(p) PROVE OneGroupPerFailure'
  BY <1>7, <1>k DEF GetLatestValuesForFields, Goto, library, handles, counts
<1>8. ASSUME NEW p \in Proc, FieldGroupDestroy(p) PROVE OneGroupPerFailure'
  BY <1>8, <1>k DEF FieldGroupDestroy, Goto, handles
<1>9. ASSUME NEW p \in Proc, WatchPid(p) PROVE OneGroupPerFailure'
  <2>1. CASE Errs(groupId[p]) /\ Abandon(p) /\ UNCHANGED handles
    BY <1>9, <2>1, <1>a DEF WatchPid, Abandon, Goto, library, handles
  <2>2. CASE ~(Errs(groupId[p]) /\ Abandon(p) /\ UNCHANGED handles)
    BY <1>9, <2>2, <1>h DEF WatchPid, Succeeds, Goto, library
  <2> QED
    BY <2>1, <2>2
<1>10. ASSUME NEW p \in Proc, PidInfo(p) PROVE OneGroupPerFailure'
  <2>1. CASE Succeeds(groupId[p]) /\ Goto(p, "destroy", groupId[p]) /\ UNCHANGED handles
    BY <1>10, <2>1, <1>k DEF PidInfo, PidInfoAs, Succeeds, Goto, library, handles
  <2>2. CASE ~(Succeeds(groupId[p]) /\ Goto(p, "destroy", groupId[p]) /\ UNCHANGED handles)
    BY <1>10, <2>2, <1>h DEF PidInfo, PidInfoAs, Goto, library
  <2> QED
    BY <2>1, <2>2
<1>11. ASSUME NEW p \in Proc, DestroyGroup(p) PROVE OneGroupPerFailure'
  <2>1. UNCHANGED watches /\ groupId' = [groupId EXCEPT ![p] = NoHandle]
    BY <1>11 DEF DestroyGroup, Goto, handles
  <2>2. CASE Succeeds(groupId[p]) /\ groups' = groups \ {groupId[p]}
    <3>1. ASSUME NEW g \in forgotten' PROVE g \in forgotten
      BY <2>1, <2>2 DEF forgotten, inUse, Typed, GroupsTypeOK
    <3> QED
      BY <3>1, <2>2, <1>t, NothingForgotten DEF Succeeds
  <2>3. CASE Errs(groupId[p]) /\ UNCHANGED groups
    BY <2>1, <2>3, <1>a
  <2> QED
    BY <1>11, <2>2, <2>3 DEF DestroyGroup, dcgmGroupDestroy
<1>12. CASE UNCHANGED groupsVars
  BY <1>12, <1>0 DEF groupsVars, library, calls, handles, counts
<1> QED
  BY <1>1, <1>2, <1>3, <1>4, <1>5, <1>6, <1>7, <1>8, <1>9, <1>10, <1>11, <1>12
  DEF GroupsNext, healthCheckByGpuId, registerPolicy, latestValuesForDevice, getPciBandwidth,
      watchPidFields, AddToGroup, Set, Check, WatchFields, Kind, Label

-----------------------------------------------------------------------------
LEMMA IsTyped == GroupsSpec => []Typed
  BY TypedInit, TypedStep, PTL DEF GroupsSpec

\* The types, for any goroutines and handles: a call has a group and a field group
\* whenever its next step needs them, however the calls before it ended.
THEOREM GroupsTyped == GroupsSpec => []GroupsTypeOK
<1>1. Typed => GroupsTypeOK
  BY DEF Typed
<1> QED
  BY <1>1, IsTyped, PTL

\* health.go, policy.go, device_status.go, device_info.go, process_info.go: a call
\* works on its own group, with any number of calls at once and handles given out
\* again, unless a handle was passed to GetProcessInfo again.
THEOREM GroupsAreOwn == GroupsSpec => []OwnGroup
<1>1. GroupsInit => Owned
  BY GroupsAssumption DEF GroupsAssumption, GroupsInit, Owned, OwnGroup
<1>2. Owned => OwnGroup
  BY DEF Owned
<1> QED
  BY <1>1, <1>2, IsTyped, OwnedStep, PTL DEF GroupsSpec

\* fields.go: a field group is left behind only when the library would not destroy
\* it, in any number of concurrent calls.
THEOREM FieldGroupsReturned == GroupsSpec => []FieldGroupsFreed
<1>1. GroupsInit => FieldGroupsFreed
  <2> SUFFICES ASSUME GroupsInit PROVE FieldGroupsFreed
    OBVIOUS
  <2>1. fieldGroups \ {fieldsId[p] : p \in Proc} = {} /\ fieldFailures = 0
    BY DEF GroupsInit
  <2> QED
    BY <2>1, FS_EmptySet DEF FieldGroupsFreed
<1> QED
  BY <1>1, IsTyped, FreedStep, PTL DEF GroupsSpec

\* fields.go:63 and the other early returns: a failed call leaves one group behind
\* at most, and one that fails because its group is gone, or the library is full,
\* none.
THEOREM LeaksCounted == GroupsSpec => []OneGroupPerFailure
<1>1. GroupsInit => OneGroupPerFailure
  <2> SUFFICES ASSUME GroupsInit PROVE OneGroupPerFailure
    OBVIOUS
  <2>1. forgotten = {} /\ failures = 0
    BY DEF GroupsInit, forgotten
  <2> QED
    BY <2>1, FS_EmptySet DEF OneGroupPerFailure
<1> QED
  BY <1>1, IsTyped, FailureStep, PTL DEF GroupsSpec

=============================================================================
