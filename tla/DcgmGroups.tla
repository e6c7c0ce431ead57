------------------------------ MODULE DcgmGroups ------------------------------
(***************************************************************************)
(* The groups of GPUs and of fields that the calls of pkg/dcgm make in the *)
(* library.  Each call makes a group under a random name, works on it and  *)
(* destroys it at its end; what happens to it on the way out after an      *)
(* error differs from call to call.  WatchPidFields hands its group to the *)
(* application, which passes the handle to GetProcessInfo, and that        *)
(* destroys the group when it succeeds.                                    *)
(*                                                                         *)
(* The library is external: it holds a limited number of groups, refuses   *)
(* a call on a group that does not exist, and any call of it may fail.  A  *)
(* handle may be given out again once its group is destroyed.  Calls of    *)
(* the application run concurrently, in goroutines of its own.             *)
(*                                                                         *)
(* A definition X_Why is a faulty variant of X: it is no part of the       *)
(* specification and serves to show that a property can fail.              *)
(***************************************************************************)
EXTENDS Integers, FiniteSets

CONSTANTS
  Proc,         \* goroutines of the application
  Handle,       \* handles of groups; the library has no room for more
  FieldHandle,  \* handles of field groups, likewise
  NoHandle,     \* the zero value of a handle
  MaxFailures   \* bound on the failures counted

ASSUME GroupsAssumption ==
  /\ IsFiniteSet(Handle) /\ IsFiniteSet(FieldHandle)
  /\ NoHandle \notin Handle \cup FieldHandle
  /\ MaxFailures \in Nat

VARIABLES
  groups, fieldGroups,  \* what exists in the library
  call,                 \* of each goroutine: the kind of call it is in
  pc,                   \* and the next call of the library it makes
  groupId, fieldsId,    \* its handles
  watches,              \* handles the application may pass to GetProcessInfo
  spent,                \* handles it has passed, to a call that goes on or succeeded
  maker,                \* history: who made the group of a handle last
  failures,             \* history: calls that failed though their group exists
  fieldFailures,        \* history: field groups the library would not destroy
  misused               \* history: a handle was passed to GetProcessInfo again

library == <<groups, fieldGroups, maker>>
calls   == <<call, pc, groupId, fieldsId>>
handles == <<watches, spent>>
counts  == <<failures, fieldFailures>>
groupsVars    == <<library, calls, handles, counts, misused>>

GroupsInit ==
  /\ groups = {} /\ fieldGroups = {}
  /\ call = [p \in Proc |-> "none"] /\ pc = [p \in Proc |-> "idle"]
  /\ groupId = [p \in Proc |-> NoHandle] /\ fieldsId = [p \in Proc |-> NoHandle]
  /\ watches = {} /\ spent = {}
  /\ maker = [h \in Handle |-> "none"]
  /\ failures = 0 /\ fieldFailures = 0 /\ misused = FALSE

-----------------------------------------------------------------------------
\* The library

\* A call that fails though nothing is wrong with what it was given.
Fail == failures < MaxFailures /\ failures' = failures + 1

\* The outcomes of a call that names group h: dcgmGroupAddDevice and the watches.
Succeeds(h) == h \in groups /\ UNCHANGED failures
Errs(h)     == IF h \in groups THEN Fail ELSE UNCHANGED failures

dcgmGroupCreate(h) == h \notin groups /\ groups' = groups \cup {h}

\* A group that does not exist is an error.
dcgmGroupDestroy(h) ==
  \/ Succeeds(h) /\ groups' = groups \ {h}
  \/ Errs(h) /\ UNCHANGED groups

dcgmFieldGroupCreate(f) == f \notin fieldGroups /\ fieldGroups' = fieldGroups \cup {f}

dcgmFieldGroupDestroy(f) ==
  \/ fieldGroups' = fieldGroups \ {f} /\ UNCHANGED fieldFailures
  \/ /\ fieldFailures < MaxFailures /\ fieldFailures' = fieldFailures + 1
     /\ UNCHANGED fieldGroups

-----------------------------------------------------------------------------
\* The calls of the application

Begin(p, kind, label, h) ==
  /\ pc[p] = "idle"
  /\ call' = [call EXCEPT ![p] = kind]
  /\ pc' = [pc EXCEPT ![p] = label]
  /\ groupId' = [groupId EXCEPT ![p] = h]
  /\ UNCHANGED <<fieldsId, library, counts>>

Alone == UNCHANGED <<handles, misused>>

\* Set and check, or set and register: an error returns at once.
healthCheckByGpuId(p) == Begin(p, "check", "create", NoHandle) /\ Alone
registerPolicy(p)     == Begin(p, "check", "create", NoHandle) /\ Alone

\* Watch the fields and read them.
latestValuesForDevice(p) == Begin(p, "values", "fields", NoHandle) /\ Alone
getPciBandwidth(p)       == Begin(p, "values", "fields", NoHandle) /\ Alone

watchPidFields(p) == Begin(p, "watch", "create", NoHandle) /\ Alone

getProcessInfo(p, h) ==
  /\ Begin(p, "info", "info", h)
  /\ h \in watches \cup spent
  /\ watches' = watches \ {h} /\ spent' = spent \cup {h}
  /\ misused' = (misused \/ h \notin watches)

-----------------------------------------------------------------------------
\* Steps of a call

\* The call goes on at a label, "idle" when it returns, with group h.
Goto(p, label, h) ==
  /\ pc' = [pc EXCEPT ![p] = label]
  /\ groupId' = [groupId EXCEPT ![p] = h]
  /\ call' = IF label = "idle" THEN [call EXCEPT ![p] = "none"] ELSE call

Abandon_Destroys(p) ==
  Goto(p, IF call[p] = "values" THEN "destroy" ELSE "idle", NoHandle)

\* After an error before the values are read: WatchFields returns no handle, and
\* its caller destroys the field group only; the other calls just return.
Abandon(p) == Goto(p, IF call[p] = "values" THEN "dropFields" ELSE "idle", NoHandle)

Calling(p, label, kinds) == pc[p] = label /\ call[p] \in kinds

FieldGroupCreate(p) ==
  /\ Calling(p, "fields", {"values"})
  /\ \/ \E f \in FieldHandle :
          /\ dcgmFieldGroupCreate(f)
          /\ fieldsId' = [fieldsId EXCEPT ![p] = f]
          /\ Goto(p, "create", NoHandle)
     \/ Goto(p, "idle", NoHandle) /\ UNCHANGED <<fieldGroups, fieldsId>>
  /\ UNCHANGED <<groups, maker, handles, counts, misused>>

\* A new handle is nobody's old one: what was known of it is forgotten.
CreateGroup(p) ==
  /\ pc[p] = "create"
  /\ \/ \E h \in Handle :
          /\ dcgmGroupCreate(h)
          /\ maker' = [maker EXCEPT ![h] = p]
          /\ Goto(p, IF call[p] = "watch" THEN "supported" ELSE "add", h)
     \/ Abandon(p) /\ UNCHANGED <<groups, maker>>
  /\ UNCHANGED <<fieldGroups, fieldsId, handles, counts, misused>>

\* WatchPidFields is given no GPU and asks for them; there may be none.
getSupportedDevices(p) ==
  /\ Calling(p, "supported", {"watch"})
  /\ \/ \E label \in {"add", "set"} : Goto(p, label, groupId[p]) /\ UNCHANGED failures
     \/ Abandon(p) /\ Fail
  /\ UNCHANGED <<library, fieldsId, handles, fieldFailures, misused>>

OnGroup(p, next) ==
  /\ \/ Goto(p, next, groupId[p]) /\ Succeeds(groupId[p])
     \/ Abandon(p) /\ Errs(groupId[p])
  /\ UNCHANGED <<library, fieldsId, handles, fieldFailures, misused>>

\* For several GPUs it is called again.
AddToGroup(p) == pc[p] = "add" /\ OnGroup(p, "set")

\* setHealthWatches or setPolicy, then dcgmHealthCheck or dcgmPolicyRegister.
Set(p)   == Calling(p, "set", {"check"}) /\ OnGroup(p, "check")
Check(p) == Calling(p, "check", {"check"}) /\ OnGroup(p, "destroy")

WatchFields(p) == Calling(p, "set", {"values"}) /\ OnGroup(p, "latest")

\* It names the GPU, not the group; with an error or without, the groups go.
GetLatestValuesForFields(p) ==
  /\ Calling(p, "latest", {"values"})
  /\ Goto(p, "dropFields", groupId[p])
  /\ UNCHANGED <<library, fieldsId, handles, counts, misused>>

FieldGroupDestroy_Not(p) ==
  /\ Calling(p, "dropFields", {"values"})
  /\ fieldsId' = [fieldsId EXCEPT ![p] = NoHandle]
  /\ Goto(p, IF groupId[p] = NoHandle THEN "idle" ELSE "destroy", groupId[p])
  /\ UNCHANGED <<library, handles, counts, misused>>

\* Its error is ignored.
FieldGroupDestroy(p) ==
  /\ Calling(p, "dropFields", {"values"})
  /\ dcgmFieldGroupDestroy(fieldsId[p])
  /\ fieldsId' = [fieldsId EXCEPT ![p] = NoHandle]
  /\ Goto(p, IF groupId[p] = NoHandle THEN "idle" ELSE "destroy", groupId[p])
  /\ UNCHANGED <<groups, maker, handles, failures, misused>>

\* dcgmWatchPidFields; the group is the application's from here on.
WatchPid(p) ==
  /\ Calling(p, "set", {"watch"})
  /\ \/ /\ Succeeds(groupId[p]) /\ Goto(p, "idle", NoHandle)
        /\ watches' = watches \cup {groupId[p]} /\ spent' = spent \ {groupId[p]}
     \/ Errs(groupId[p]) /\ Abandon(p) /\ UNCHANGED handles
  /\ UNCHANGED <<library, fieldsId, fieldFailures, misused>>

PidInfoAs(p, kept) ==
  /\ Calling(p, "info", {"info"})
  /\ \/ Succeeds(groupId[p]) /\ Goto(p, "destroy", groupId[p]) /\ UNCHANGED handles
     \/ /\ UNCHANGED failures /\ Goto(p, "idle", NoHandle)
        /\ watches' = watches \cup kept /\ spent' = spent \ {groupId[p]}
  /\ UNCHANGED <<library, fieldsId, fieldFailures, misused>>

PidInfo_Lost(p) == PidInfoAs(p, {})

\* dcgmGetPidInfo and the name of the process; after an error of either the
\* application still has its handle and may try again.
PidInfo(p) == PidInfoAs(p, {groupId[p]})

DestroyGroup_Twice(p) ==
  /\ pc[p] = "destroy"
  /\ dcgmGroupDestroy(groupId[p])
  /\ \E label \in {"idle", "destroy"} :
       Goto(p, label, IF label = "idle" THEN NoHandle ELSE groupId[p])
  /\ UNCHANGED <<fieldGroups, maker, fieldsId, handles, fieldFailures, misused>>

\* Its error is ignored too.
DestroyGroup(p) ==
  /\ pc[p] = "destroy"
  /\ dcgmGroupDestroy(groupId[p])
  /\ Goto(p, "idle", NoHandle)
  /\ UNCHANGED <<fieldGroups, maker, fieldsId, handles, fieldFailures, misused>>

GroupsNext == \E p \in Proc :
  \/ healthCheckByGpuId(p) \/ registerPolicy(p)
  \/ latestValuesForDevice(p) \/ getPciBandwidth(p)
  \/ watchPidFields(p) \/ \E h \in Handle : getProcessInfo(p, h)
  \/ FieldGroupCreate(p) \/ CreateGroup(p) \/ getSupportedDevices(p)
  \/ AddToGroup(p) \/ Set(p) \/ Check(p)
  \/ WatchFields(p) \/ GetLatestValuesForFields(p)
  \/ FieldGroupDestroy(p) \/ WatchPid(p) \/ PidInfo(p) \/ DestroyGroup(p)

GroupsSpec == GroupsInit /\ [][GroupsNext]_groupsVars

-----------------------------------------------------------------------------
Kind  == {"none", "check", "values", "watch", "info"}
Label == {"idle", "fields", "create", "supported", "add", "set", "check", "latest",
          "dropFields", "info", "destroy"}

\* The types of the variables; a goroutine is in a call from its first step to
\* its return, with a group whenever its next step needs one.
GroupsTypeOK ==
  /\ groups \subseteq Handle /\ fieldGroups \subseteq FieldHandle
  /\ call \in [Proc -> Kind] /\ pc \in [Proc -> Label]
  /\ groupId \in [Proc -> Handle \cup {NoHandle}]
  /\ fieldsId \in [Proc -> FieldHandle \cup {NoHandle}]
  /\ watches \subseteq Handle /\ spent \subseteq Handle
  /\ maker \in [Handle -> Proc \cup {"none"}]
  /\ failures \in Nat /\ fieldFailures \in Nat
  /\ misused \in BOOLEAN
  /\ \A p \in Proc :
       /\ pc[p] = "idle" <=> call[p] = "none"
       /\ pc[p] \notin {"idle", "fields", "create", "dropFields"} => groupId[p] \in Handle
       /\ pc[p] \in {"dropFields", "latest"} => fieldsId[p] \in fieldGroups

inUse     == {groupId[p] : p \in Proc} \cup watches
forgotten == groups \ inUse

\* Groups that nobody holds a handle of fill the library up, and no call comes
\* back for them.  A failed call costs at most one, and only if its group exists:
\* calls that meet the limit, or a group that is gone, or cannot read the values
\* or the process, leave nothing.
OneGroupPerFailure == Cardinality(forgotten) <= failures

\* A field group is left behind only when the library would not destroy it,
\* whatever else went wrong in the call that made it.
FieldGroupsFreed ==
  Cardinality(fieldGroups \ {fieldsId[p] : p \in Proc}) <= fieldFailures

\* As long as the application passes no handle to GetProcessInfo again while a
\* call goes on with it or after one that succeeded, the group of a running call
\* exists, nobody else uses it, and it was made by that very goroutine unless it
\* came with a handle.
OwnGroup ==
  ~misused => \A p \in Proc : groupId[p] # NoHandle =>
    /\ groupId[p] \in groups \ watches
    /\ call[p] # "info" => maker[groupId[p]] = p
    /\ \A q \in Proc \ {p} : groupId[q] # groupId[p]

=============================================================================
