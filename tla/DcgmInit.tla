------------------------------- MODULE DcgmInit -------------------------------
(***************************************************************************)
(* Starting and stopping DCGM (pkg/dcgm): Init and Shutdown count their    *)
(* callers and run initDcgm and shutdown for the first and the last.  Both *)
(* hold mux from start to end and nothing else takes it, so each call is   *)
(* one step; what it does to the library, the agent and the hostengine     *)
(* depends on which of its calls into C or the system fails.               *)
(*                                                                         *)
(* A definition X_Why is a faulty variant of X: it is no part of the       *)
(* specification and serves to show that a property can fail.              *)
(***************************************************************************)
EXTENDS Integers, FiniteSets

CONSTANTS
  User,      \* callers of Init
  Mode,      \* modes they ask for, a subset of Modes
  MayFail,   \* calls of the environment that may fail, a subset of Failures
  Bound      \* bound of the counter, the dcgmInit calls and the children left open

Modes == {"Embedded", "Standalone", "StartHostengine"}

\* What may fail on the way up: dlopen; the address of a standalone engine or
\* the fork of nv-hostengine; dcgmInit; starting or connecting to the engine.
StartFailures == {"dlopen", "prepare", "agent", "start"}
\* And on the way down: stopping or disconnecting; dcgmShutdown; --term.
StopFailures == {"stop", "agentstop", "term"}

ASSUME InitAssumption ==
  /\ IsFiniteSet(User)
  /\ Mode \subseteq Modes /\ MayFail \subseteq StartFailures \cup StopFailures
  /\ Bound \in Nat

VARIABLES
  dcgmInitCounter, stopMode,   \* globals of the package
  lib,      \* libdcgm is open
  agent,    \* dcgmInit calls not undone by dcgmShutdown
  engine,   \* the handle is that of a running engine or connection
  children, \* nv-hostengines this process started and nothing has stopped
  hostengineAsChildPid, \* "zero", or the process forked last, "live" or "killed"
  user,     \* each caller: "idle", or what its Init returned, "ok" or "failed"
  up,       \* the process is running
  faults,   \* history: what has failed so far
  stray     \* history: a caller has shut down once too often, or never

env == <<lib, agent, engine, children, hostengineAsChildPid>>
vars == <<dcgmInitCounter, stopMode, env, user, up, faults, stray>>

Start ==
  /\ dcgmInitCounter = 0
  /\ stopMode = "Embedded"
  /\ lib = FALSE /\ agent = 0 /\ engine = FALSE
  /\ children = 0 /\ hostengineAsChildPid = "zero"
  /\ user = [u \in User |-> "idle"]
  /\ up = TRUE
  /\ faults = {}
  /\ stray = FALSE

Fault(f) == f \in MayFail /\ faults' = faults \cup {f}

-----------------------------------------------------------------------------
\* initDcgm in mode m: where it fails, what was done before stays done.

NoLibrary ==
  /\ Fault("dlopen")
  /\ lib' = FALSE
  /\ UNCHANGED <<stopMode, agent, engine, children, hostengineAsChildPid>>

\* No address for a standalone engine; no binary, socket or child: a fork that fails
\* gives zero.
NotPrepared(m) ==
  /\ m # "Embedded" /\ Fault("prepare")
  /\ lib' = TRUE /\ stopMode' = m
  /\ \/ UNCHANGED hostengineAsChildPid
     \/ m = "StartHostengine" /\ hostengineAsChildPid' = "zero"
  /\ UNCHANGED <<agent, engine, children>>

Forked(m) ==
  IF m = "StartHostengine"
    THEN children' = children + 1 /\ hostengineAsChildPid' = "live"
    ELSE UNCHANGED <<children, hostengineAsChildPid>>

NoAgent(m) ==
  /\ Fault("agent")
  /\ lib' = TRUE /\ stopMode' = m /\ Forked(m)
  /\ UNCHANGED <<agent, engine>>

NoEngine(m) ==
  /\ Fault("start")
  /\ lib' = TRUE /\ stopMode' = m /\ Forked(m)
  /\ agent' = agent + 1
  /\ UNCHANGED engine

Started(m) ==
  /\ lib' = TRUE /\ stopMode' = m /\ Forked(m)
  /\ agent' = agent + 1
  /\ engine' = TRUE
  /\ UNCHANGED faults

initDcgm(m, r) ==
  \/ r = "ok" /\ Started(m)
  \/ r = "failed" /\ (NoLibrary \/ NotPrepared(m) \/ NoAgent(m) \/ NoEngine(m))

-----------------------------------------------------------------------------
\* shutdown.  A call into a library that was never opened ends the process.

Unresolved ==
  /\ ~lib
  /\ up' = FALSE
  /\ UNCHANGED <<env, faults>>

NotStopped_GoesOn ==
  /\ lib
  /\ IF engine THEN Fault("stop") ELSE UNCHANGED faults
  /\ lib' = FALSE /\ agent' = agent - 1
  /\ UNCHANGED <<engine, children, hostengineAsChildPid, up>>

\* stopEmbedded or disconnectStandalone fails, as it does with no live handle;
\* dcgmShutdown and --term are then not reached, dlclose is.
NotStopped ==
  /\ lib
  /\ IF engine THEN Fault("stop") ELSE UNCHANGED faults
  /\ lib' = FALSE
  /\ UNCHANGED <<agent, engine, children, hostengineAsChildPid, up>>

AgentNotStopped ==
  /\ lib /\ engine /\ Fault("agentstop")
  /\ lib' = FALSE /\ engine' = FALSE
  /\ UNCHANGED <<agent, children, hostengineAsChildPid, up>>

NotTerminated ==
  /\ lib /\ engine /\ stopMode = "StartHostengine" /\ Fault("term")
  /\ lib' = FALSE /\ engine' = FALSE /\ agent' = agent - 1
  /\ UNCHANGED <<children, hostengineAsChildPid, up>>

Stopped_NoTerm ==
  /\ lib /\ engine
  /\ lib' = FALSE /\ engine' = FALSE /\ agent' = agent - 1
  /\ UNCHANGED <<children, hostengineAsChildPid, up, faults>>

\* --term stops one nv-hostengine and SIGKILL the process forked last: the same or
\* another.  Process zero is the caller's own group, this process included.
Terminate ==
  /\ hostengineAsChildPid' = IF hostengineAsChildPid = "zero" THEN "zero" ELSE "killed"
  /\ CASE hostengineAsChildPid = "live" -> children' \in {children - 1, children - 2} \cap Nat
       [] OTHER -> children' \in {children, children - 1} \cap Nat
  /\ up' = (hostengineAsChildPid # "zero")

Stopped ==
  /\ lib /\ engine
  /\ lib' = FALSE /\ engine' = FALSE /\ agent' = agent - 1
  /\ IF stopMode = "StartHostengine"
       THEN Terminate ELSE UNCHANGED <<children, hostengineAsChildPid, up>>
  /\ UNCHANGED faults

shutdown == Unresolved \/ NotStopped \/ AgentNotStopped \/ NotTerminated \/ Stopped

-----------------------------------------------------------------------------
\* Init: the first caller starts the engine, a later one is told it runs; below
\* zero the call is refused but counted.
Init(u, m) ==
  /\ up /\ user[u] = "idle" /\ agent < Bound /\ children < Bound
  /\ \E r \in {"ok", "failed"} :
       /\ CASE dcgmInitCounter = 0 -> initDcgm(m, r)
            [] dcgmInitCounter > 0 -> r = "ok" /\ UNCHANGED <<stopMode, env, faults>>
            [] dcgmInitCounter < 0 -> r = "failed" /\ UNCHANGED <<stopMode, env, faults>>
       /\ user' = [user EXCEPT ![u] = r]
  /\ dcgmInitCounter' = dcgmInitCounter + 1
  /\ UNCHANGED <<up, stray>>

IsLast_OffByOne == dcgmInitCounter \in {1, 2}

\* Shutdown stops the engine for the last caller only.
IsLast == dcgmInitCounter = 1

Shutdown_CountedWhenPositive ==
  /\ dcgmInitCounter' = IF dcgmInitCounter > 1 THEN dcgmInitCounter - 1 ELSE dcgmInitCounter
  /\ IF IsLast THEN shutdown ELSE UNCHANGED <<env, up, faults>>
  /\ UNCHANGED stopMode

\* With none left it returns an error and counts all the same.
Shutdown ==
  /\ dcgmInitCounter' = dcgmInitCounter - 1
  /\ IF IsLast THEN shutdown ELSE UNCHANGED <<env, up, faults>>
  /\ UNCHANGED stopMode

\* The function Init returned, called once.
Cleanup(u) ==
  /\ up /\ user[u] # "idle"
  /\ user' = [user EXCEPT ![u] = "idle"]
  /\ Shutdown
  /\ UNCHANGED stray

\* A caller that was given an error does not call the function it got with it.
GiveUp(u) ==
  /\ up /\ user[u] = "failed" /\ dcgmInitCounter < Bound
  /\ user' = [user EXCEPT ![u] = "idle"]
  /\ stray' = TRUE
  /\ UNCHANGED <<dcgmInitCounter, stopMode, env, up, faults>>

StrayShutdown ==
  /\ up /\ dcgmInitCounter > -Bound
  /\ Shutdown
  /\ stray' = TRUE
  /\ UNCHANGED user

Next ==
  \/ StrayShutdown
  \/ \E u \in User : Cleanup(u) \/ GiveUp(u) \/ \E m \in Mode : Init(u, m)

Spec == Start /\ [][Next]_vars

-----------------------------------------------------------------------------
Held == {u \in User : user[u] # "idle"}

\* The types of the variables: dcgmInit is undone no more often than it was called,
\* while the counter of the callers may go below zero.
TypeOK ==
  /\ dcgmInitCounter \in Int /\ agent \in Nat /\ children \in Nat
  /\ stopMode \in Modes
  /\ lib \in BOOLEAN /\ engine \in BOOLEAN
  /\ hostengineAsChildPid \in {"zero", "live", "killed"}
  /\ user \in [User -> {"idle", "ok", "failed"}]
  /\ up \in BOOLEAN
  /\ faults \subseteq StartFailures \cup StopFailures
  /\ stray \in BOOLEAN

\* As long as callers call their cleanups exactly once the counter is the number
\* of cleanups still to come, whatever failed on the way.
CounterMatches == ~stray => dcgmInitCounter = Cardinality(Held)

\* A complete engine, and nothing at all.
Running ==
  /\ engine /\ lib /\ agent = 1
  /\ IF stopMode = "StartHostengine"
       THEN children = 1 /\ hostengineAsChildPid = "live" ELSE children = 0
Down == ~engine /\ ~lib /\ agent = 0 /\ children = 0

\* With stray calls the counter no longer says who holds the engine, but as long
\* as nothing has failed it still decides: above zero everything a start makes is
\* there, at zero and below nothing is left, no library, agent, engine or process.
CounterDecides ==
  faults = {} => (dcgmInitCounter > 0 => Running) /\ (dcgmInitCounter <= 0 => Down)

-----------------------------------------------------------------------------
\* api.go:14 says of Init that it "starts DCGM": a caller it returned no error to
\* has an engine until its cleanup.
InitStarts == (up /\ ~stray) => \A u \in User : user[u] = "ok" => engine /\ lib

\* A caller holds the engine from an Init without an error to its cleanup, and can use
\* it when its handle is live in an open library; the library, an engine or
\* connection, an agent or a child is something left of it.
L == INSTANCE Lease WITH
  holders  <- {u \in User : user[u] = "ok"},
  usable   <- engine /\ lib,
  left     <- lib \/ engine \/ agent > 0 \/ children > 0,
  botched  <- faults \cap StopFailures # {},
  alive    <- up,
  reliable <- ~stray /\ faults \cap StartFailures = {}

\* Init and Shutdown implement Lease: until a start fails or a cleanup is one too many,
\* every call takes the engine for its caller or gives it back; none stops it under
\* another caller or ends the process, also when stops have failed before, and the
\* last one leaves nothing behind, no child either, unless a stop has failed.
Leases == L!Spec

=============================================================================
