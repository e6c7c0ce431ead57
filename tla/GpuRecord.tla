------------------------------- MODULE GpuRecord -------------------------------
(***************************************************************************)
(* The record of one GPU, shared without a lock.  The sampler adds a       *)
(* reading of the PCIe throughput to tmprx and one to tmptx in every round;*)
(* main takes both once per turn, a copy and a reset each; the cycles main *)
(* spawns store the GPU's other readings field by field, and GetGPU copies *)
(* them into a reply field by field.  Records of different GPUs have       *)
(* nothing in common.                                                      *)
(*                                                                         *)
(* A counter is the set of the rounds whose readings it sums, a field the  *)
(* number of the cycle that stored it, counting those that store at all.   *)
(* A definition X_Why is a faulty variant of X: it is no part of the       *)
(* specification and serves to show that a property can fail.              *)
(***************************************************************************)
EXTENDS Integers, Sequences, FiniteSetsExt

CONSTANTS
  Cycle,      \* goroutines running Gpumetric
  Handler,    \* goroutines running GetGPU
  Fields,     \* how many fields of the record GetGPU returns
  MaxRounds,  \* bound on the sampler's rounds
  MaxTurns    \* bound on the turns of main

ASSUME RecordAssumption ==
  /\ Fields \in Nat \ {0}
  /\ MaxRounds \in Nat /\ MaxTurns \in Nat

VARIABLES
  tmp,        \* tmprx and tmptx
  GPURXTX,    \* GPURX and GPUTX of the record
  sampler,    \* what Get_GPUPci does next
  held,       \* the sum it has read and not yet stored
  round,      \* rounds begun
  main,       \* what main does next
  turn,       \* turns begun
  GPU,        \* the record's fields, in the order they are stored and returned
  storing,    \* cycles spawned that come to store readings
  cycle,      \* of each such cycle: its number and the next field it stores; 0 when idle
  handler,    \* of each handler: the next field it copies, 0 when idle
  reply,      \* the fields it has copied
  windows,    \* history: GPURX and GPUTX after each take
  struck,     \* history: takes that met a round in progress, and these rounds
  mixed,      \* history: cycles overlapped in their last stores
  overlapped  \* history: cycles have overlapped at all

pcie    == <<tmp, sampler, held, round>>
taken   == <<GPURXTX, windows>>
record  == <<GPU, storing, cycle, mixed, overlapped>>
replies == <<handler, reply>>
vars == <<pcie, taken, main, turn, struck, record, replies>>

Dir == {"rx", "tx"}
Field == 1 .. Fields
Idle == [nr |-> 0, next |-> 0]

Init ==
  /\ tmp = [d \in Dir |-> {}]
  /\ GPURXTX = [d \in Dir |-> {}]
  /\ sampler \in {"sleep", "off"}   \* off when its own nvml.Init failed
  /\ held = {} /\ round = 0
  /\ main = "spawn" /\ turn = 0
  /\ GPU = [f \in Field |-> 0]
  /\ storing = 0
  /\ cycle = [c \in Cycle |-> Idle]
  /\ handler = [h \in Handler |-> 0]
  /\ reply = [h \in Handler |-> <<>>]
  /\ windows = <<>>
  /\ struck = [takes |-> {}, rounds |-> {}]
  /\ mixed = FALSE /\ overlapped = FALSE

-----------------------------------------------------------------------------
\* Get_GPUPci.  A round adds to tmprx, then to tmptx; `+=` is a load and a store.

Sampling == sampler \notin {"sleep", "off"}
Taking   == main \in {"copyTX", "resetRX", "resetTX"}

\* History: a take in progress meets round r, in progress too.
Strike(meets, r) ==
  struck' = IF meets
              THEN [takes |-> struck.takes \cup {turn}, rounds |-> struck.rounds \cup {r}]
              ELSE struck

LoadOf(d, from, to) ==
  /\ sampler = from
  /\ held' = tmp[d]
  /\ sampler' = to

StoreOf(d, from, to) ==
  /\ sampler = from
  /\ tmp' = [tmp EXCEPT ![d] = held \cup {round}]
  /\ sampler' = to
  /\ UNCHANGED <<held, round, taken, main, turn, struck, record, replies>>

LoadRX ==
  /\ round < MaxRounds
  /\ LoadOf("rx", "sleep", "storeRX")
  /\ round' = round + 1
  /\ Strike(Taking, round + 1)
  /\ UNCHANGED <<tmp, taken, main, turn, record, replies>>

StoreRX == StoreOf("rx", "storeRX", "loadTX")

LoadTX ==
  /\ LoadOf("tx", "loadTX", "storeTX")
  /\ UNCHANGED <<tmp, round, taken, main, turn, struck, record, replies>>

StoreTX == StoreOf("tx", "storeTX", "sleep")

Sampler == LoadRX \/ StoreRX \/ LoadTX \/ StoreTX

-----------------------------------------------------------------------------
\* main: a turn spawns a cycle and calls Get_RXTX_Data.

Active(c) == cycle[c] # Idle
Stored(c) == cycle[c].next > 1

Turn ==
  /\ main = "spawn" /\ turn < MaxTurns
  /\ turn' = turn + 1
  /\ main' = "copyRX"
  /\ UNCHANGED <<pcie, taken, struck, GPU, mixed, replies>>

\* `go gpumetric.Gpumetric(...)` of a cycle that will store the GPU's readings.
Spawn ==
  /\ Turn
  /\ \E c \in Cycle : /\ ~Active(c)
                      /\ cycle' = [cycle EXCEPT ![c] = [nr |-> storing + 1, next |-> 1]]
  /\ storing' = storing + 1
  /\ overlapped' = (overlapped \/ \E c \in Cycle : Active(c))

\* The same of a cycle for which nvml.Init or the count of the GPUs fails: it leaves
\* the records as they are.
SpawnWithoutNvml == Turn /\ UNCHANGED <<storing, cycle, overlapped>>

CopyRXLeaving(counters) ==
  /\ main = "copyRX"
  /\ GPURXTX' = [GPURXTX EXCEPT !["rx"] = tmp["rx"]]
  /\ tmp' = counters
  /\ main' = "copyTX"
  /\ Strike(Sampling, round)
  /\ UNCHANGED <<sampler, held, round, windows, turn, record, replies>>

CopyRX_ResetsBoth == CopyRXLeaving([d \in Dir |-> {}])

CopyRX == CopyRXLeaving(tmp)

CopyTX ==
  /\ main = "copyTX"
  /\ GPURXTX' = [GPURXTX EXCEPT !["tx"] = tmp["tx"]]
  /\ windows' = Append(windows, GPURXTX')
  /\ main' = "resetRX"
  /\ UNCHANGED <<pcie, turn, struck, record, replies>>

ResetOf(from, to, zero) ==
  /\ main = from
  /\ tmp' = zero
  /\ main' = to
  /\ UNCHANGED <<sampler, held, round, taken, turn, struck, record, replies>>

ResetTX_Not  == ResetOf("resetTX", "spawn", tmp)

ResetRX == ResetOf("resetRX", "resetTX", [tmp EXCEPT !["rx"] = {}])
ResetTX == ResetOf("resetTX", "spawn", [tmp EXCEPT !["tx"] = {}])

Main == Spawn \/ SpawnWithoutNvml \/ CopyRX \/ CopyTX \/ ResetRX \/ ResetTX

-----------------------------------------------------------------------------
\* A cycle has taken the GPU's readings and stores them in the record.
StoreFrom(c, last) ==
  /\ Active(c)
  /\ GPU' = [GPU EXCEPT ![cycle[c].next] = cycle[c].nr]
  /\ cycle' = [cycle EXCEPT ![c] = IF @.next = last THEN Idle
                                       ELSE [nr |-> @.nr, next |-> @.next + 1]]
  /\ mixed' = IF \E o \in Cycle \ {c} : Stored(o) THEN TRUE
              ELSE IF Stored(c) THEN mixed ELSE FALSE
  /\ UNCHANGED <<pcie, taken, main, turn, struck, storing, overlapped, replies>>

Store_OneShort(c) == StoreFrom(c, IF cycle[c].nr > 1 THEN Fields - 1 ELSE Fields)

Store_OneTooMany(c) == StoreFrom(c, Fields + 1)

Store(c) == StoreFrom(c, Fields)

-----------------------------------------------------------------------------
\* GetGPU.  The count it would set to zero below zero never is.
GetGPU(h) ==
  /\ handler[h] = 0
  /\ handler' = [handler EXCEPT ![h] = 1]
  /\ reply' = [reply EXCEPT ![h] = <<>>]
  /\ UNCHANGED <<pcie, taken, main, turn, struck, record>>

CopyField(h) ==
  /\ handler[h] > 0
  /\ reply' = [reply EXCEPT ![h] = Append(@, GPU[handler[h]])]
  /\ handler' = [handler EXCEPT ![h] = IF @ = Fields THEN 0 ELSE @ + 1]
  /\ UNCHANGED <<pcie, taken, main, turn, struck, record>>

Next ==
  \/ Sampler \/ Main
  \/ \E c \in Cycle : Store(c)
  \/ \E h \in Handler : GetGPU(h) \/ CopyField(h)

Spec == Init /\ [][Next]_vars

-----------------------------------------------------------------------------
\* The types of the variables.
TypeOK ==
  /\ tmp \in [Dir -> SUBSET (1 .. MaxRounds)]
  /\ GPURXTX \in [Dir -> SUBSET (1 .. MaxRounds)]
  /\ sampler \in {"off", "sleep", "storeRX", "loadTX", "storeTX"}
  /\ held \subseteq 1 .. MaxRounds
  /\ round \in 0 .. MaxRounds
  /\ main \in {"spawn", "copyRX", "copyTX", "resetRX", "resetTX"}
  /\ turn \in 0 .. MaxTurns
  /\ GPU \in [Field -> 0 .. MaxTurns]
  /\ storing \in 0 .. turn
  /\ cycle \in [Cycle -> [nr : 0 .. MaxTurns, next : 0 .. Fields]]
  /\ handler \in [Handler -> 0 .. Fields]
  /\ reply \in [Handler -> Seq(0 .. MaxTurns)]
  /\ windows \in Seq([Dir -> SUBSET (1 .. MaxRounds)])
  /\ struck \in [takes : SUBSET (1 .. MaxTurns), rounds : SUBSET (1 .. MaxRounds)]
  /\ mixed \in BOOLEAN /\ overlapped \in BOOLEAN

\* The sampler's rounds that are over and met no take.
Undisturbed == (1 .. IF Sampling THEN round - 1 ELSE round) \ struck.rounds

\* The takes that reported round r.
Reported(d, r) == {k \in DOMAIN windows : r \in windows[k][d]}

\* A round that met no take is reported or still in the counters, though other
\* rounds and takes met before and after it, and its two readings are reported for
\* the first time by the same take.
NothingLost ==
  \A r \in Undisturbed :
    /\ \A d \in Dir : Reported(d, r) # {} \/ r \in tmp[d]
    /\ Reported("rx", r) # {} => Min(Reported("rx", r)) = Min(Reported("tx", r))

\* A reading is reported by two takes only when each take from the first to the
\* one before the second met a round: one undisturbed take clears the counters,
\* whatever was stored back into them earlier.
NothingRepeated ==
  \A k, l \in DOMAIN windows : \A d \in Dir :
    (k < l /\ windows[k][d] \cap windows[l][d] # {}) => k .. l - 1 \subseteq struck.takes

\* As long as the cycles that store have not overlapped, a field of a reply is at
\* worst from the cycle before that of a field copied earlier, however the handler
\* is interrupted; cycles that fail to read anything do not count, so in time the
\* two may be any number of turns apart.
ReplyAlmostWhole ==
  ~overlapped =>
    \A h \in Handler : \A j, k \in DOMAIN reply[h] :
      j < k => reply[h][k] >= reply[h][j] - 1

\* Cycles that overlap may leave a record of fields from both, but the next cycle
\* that stores, on its own, makes it whole again: all the fields are its own.
RecordWhole ==
  (~mixed /\ \A c \in Cycle : ~Stored(c)) => \A f \in Field : GPU[f] = GPU[1]

=============================================================================
