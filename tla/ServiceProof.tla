----------------------------- MODULE ServiceProof -----------------------------
(***************************************************************************)
(* Theorems about what a client of the gRPC service is given: the record   *)
(* of a GPU, for any number of cycles, handlers, fields, rounds and turns, *)
(* and the total storage of the node, for every set of clients and every   *)
(* set of values.                                                          *)
(***************************************************************************)
EXTENDS GpuRecord, NodeService, TLAPS

\* The counters and the clocks: a round and a take that have begun have a number,
\* and each take that has copied both counters has a window.
Rounds == SUBSET (1 .. MaxRounds)

Clocks ==
  /\ sampler \in {"off", "sleep", "storeRX", "loadTX", "storeTX"}
  /\ round \in 0 .. MaxRounds
  /\ main \in {"spawn", "copyRX", "copyTX", "resetRX", "resetTX"}
  /\ turn \in 0 .. MaxTurns
  /\ Sampling => round > 0
  /\ main # "spawn" => turn > 0

Counters ==
  /\ tmp \in [Dir -> Rounds]
  /\ GPURXTX \in [Dir -> Rounds]
  /\ held \in Rounds

Struck == struck.takes \in SUBSET (1 .. MaxTurns) /\ struck.rounds \in Rounds
          /\ struck = [takes |-> struck.takes, rounds |-> struck.rounds]

Windows ==
  /\ windows \in Seq([Dir -> Rounds])
  /\ Len(windows) = IF main \in {"copyRX", "copyTX"} THEN turn - 1 ELSE turn

\* The record: a cycle that runs is at a field, and has been counted.
Records ==
  /\ turn \in 0 .. MaxTurns
  /\ storing \in 0 .. turn
  /\ GPU \in [Field -> 0 .. MaxTurns]
  /\ cycle \in [Cycle -> [nr : 0 .. MaxTurns, next : 0 .. Fields]]
  /\ \A c \in Cycle : Active(c) => cycle[c].next \in Field /\ cycle[c].nr \in 1 .. storing

\* The replies: what a handler has copied lies before what it copies next.
Replies ==
  /\ handler \in [Handler -> 0 .. Fields]
  /\ reply \in [Handler -> Seq(0 .. MaxTurns)]
  /\ \A h \in Handler : handler[h] > 0 => Len(reply[h]) = handler[h] - 1

Flags == mixed \in BOOLEAN /\ overlapped \in BOOLEAN

Typed == Clocks /\ Counters /\ Struck /\ Windows /\ Records /\ Replies /\ Flags

LEMMA Bounds == Fields \in Nat \ {0} /\ MaxRounds \in Nat /\ MaxTurns \in Nat
  BY RecordAssumption DEF RecordAssumption

LEMMA TypedInit == Init => Typed
<1> SUFFICES ASSUME Init PROVE Typed
  OBVIOUS
<1> USE Bounds DEF Init
<1>1. Clocks
  BY DEF Clocks, Sampling
<1>5. {} \in Rounds
  BY DEF Rounds
<1>6. Counters
  BY <1>5 DEF Counters
<1>7. Struck
  BY <1>5 DEF Struck
<1>8. Windows
  <2>1. <<>> \in Seq([Dir -> Rounds]) /\ Len(<<>>) = 0
    OBVIOUS
  <2> QED
    BY <2>1 DEF Windows
<1>2. Records
  BY DEF Records, Active, Idle, Field
<1>3. Replies
  BY DEF Replies
<1>4. Flags
  BY DEF Flags
<1> QED
  BY <1>1, <1>2, <1>3, <1>4, <1>6, <1>7, <1>8 DEF Typed

LEMMA ClocksStep == Clocks /\ [Next]_vars => Clocks'
<1> SUFFICES ASSUME Clocks, [Next]_vars PROVE Clocks'
  OBVIOUS
<1> USE Bounds DEF Clocks, Sampling
<1>1. CASE Sampler
  BY <1>1 DEF Sampler, LoadRX, StoreRX, LoadTX, StoreTX, LoadOf, StoreOf
<1>2. CASE Spawn \/ SpawnWithoutNvml
  BY <1>2 DEF Spawn, SpawnWithoutNvml, Turn, pcie
<1>3. CASE CopyRX \/ CopyTX \/ ResetRX \/ ResetTX
  BY <1>3 DEF CopyRX, CopyRXLeaving, CopyTX, ResetRX, ResetTX, ResetOf, pcie
<1>4. CASE UNCHANGED <<sampler, round, main, turn>>
  BY <1>4
<1> QED
  BY <1>1, <1>2, <1>3, <1>4 DEF Next, Main, Store, StoreFrom, GetGPU, CopyField, pcie, vars

LEMMA CountersStep == Clocks /\ Counters /\ [Next]_vars => Counters'
<1> SUFFICES ASSUME Clocks, Counters, [Next]_vars PROVE Counters'
  OBVIOUS
<1> USE DEF Counters
<1>1. "rx" \in Dir /\ "tx" \in Dir
  BY DEF Dir
<1>2. {} \in Rounds
  BY DEF Rounds
<1>3. ASSUME NEW d \in Dir, NEW from, NEW to, from \notin {"sleep", "off"}, StoreOf(d, from, to)
      PROVE  Counters'
  <2>1. held \cup {round} \in Rounds
    BY <1>3, Bounds DEF Rounds, Clocks, Sampling, StoreOf
  <2> QED
    BY <1>3, <2>1 DEF StoreOf, taken
<1>4. CASE LoadRX \/ LoadTX
  BY <1>1, <1>4 DEF LoadRX, LoadTX, LoadOf, taken
<1>5. CASE StoreRX \/ StoreTX
  BY <1>1, <1>3, <1>5 DEF StoreRX, StoreTX
<1>6. CASE CopyRX \/ CopyTX
  BY <1>1, <1>6 DEF CopyRX, CopyRXLeaving, CopyTX, pcie
<1>7. CASE ResetRX \/ ResetTX
  BY <1>1, <1>2, <1>7 DEF ResetRX, ResetTX, ResetOf, taken
<1>8. CASE UNCHANGED <<tmp, GPURXTX, held>>
  BY <1>8
<1> QED
  BY <1>4, <1>5, <1>6, <1>7, <1>8
  DEF Next, Sampler, Main, Spawn, SpawnWithoutNvml, Turn, Store, StoreFrom, GetGPU,
      CopyField, pcie, taken, vars

LEMMA StruckStep == Clocks /\ Struck /\ [Next]_vars => Struck'
<1> SUFFICES ASSUME Clocks, Struck, [Next]_vars PROVE Struck'
  OBVIOUS
<1> USE Bounds DEF Clocks
<1>1. ASSUME NEW meets, NEW r \in 1 .. MaxRounds, meets => turn \in 1 .. MaxTurns, Strike(meets, r)
      PROVE  Struck'
  BY <1>1 DEF Strike, Struck, Rounds
<1>2. CASE LoadRX
  <2>1. round + 1 \in 1 .. MaxRounds /\ (Taking => turn \in 1 .. MaxTurns)
    BY <1>2 DEF LoadRX, Taking
  <2> QED
    BY <1>1, <1>2, <2>1 DEF LoadRX
<1>3. CASE CopyRX
  <2>1. turn \in 1 .. MaxTurns /\ (Sampling => round \in 1 .. MaxRounds)
    BY <1>3 DEF CopyRX, CopyRXLeaving
  <2> QED
    BY <1>1, <1>3, <2>1 DEF CopyRX, CopyRXLeaving, Strike, Struck
<1>4. CASE UNCHANGED struck
  BY <1>4 DEF Struck
<1> QED
  BY <1>2, <1>3, <1>4
  DEF Next, Sampler, StoreRX, LoadTX, StoreTX, StoreOf, Main, Spawn, SpawnWithoutNvml,
      Turn, CopyTX, ResetRX, ResetTX, ResetOf, Store, StoreFrom, GetGPU, CopyField, vars

LEMMA WindowsStep == Clocks /\ Counters /\ Windows /\ [Next]_vars => Windows'
<1> SUFFICES ASSUME Clocks, Counters, Windows, [Next]_vars PROVE Windows'
  OBVIOUS
<1>1. CASE CopyTX
  <2>1. GPURXTX' \in [Dir -> Rounds]
    BY <1>1 DEF CopyTX, Counters, Dir
  <2>2. windows' = Append(windows, GPURXTX')
    BY <1>1 DEF CopyTX
  <2>3. windows' \in Seq([Dir -> Rounds]) /\ Len(windows') = Len(windows) + 1
    BY <2>1, <2>2 DEF Windows
  <2> QED
    BY <1>1, <2>3 DEF Windows, CopyTX, Clocks
<1>2. CASE Spawn \/ SpawnWithoutNvml
  BY <1>2 DEF Spawn, SpawnWithoutNvml, Turn, Windows, Clocks, taken
<1>3. CASE CopyRX \/ ResetRX \/ ResetTX
  BY <1>3 DEF CopyRX, CopyRXLeaving, ResetRX, ResetTX, ResetOf, Windows, Clocks, taken
<1>4. CASE UNCHANGED <<windows, main, turn>>
  BY <1>4 DEF Windows
<1> QED
  BY <1>1, <1>2, <1>3, <1>4
  DEF Next, Sampler, LoadRX, StoreRX, LoadTX, StoreTX, StoreOf, Main, Store, StoreFrom, GetGPU,
      CopyField, taken, vars

LEMMA RecordsStep == Records /\ [Next]_vars => Records'
<1> SUFFICES ASSUME Records, [Next]_vars PROVE Records'
  OBVIOUS
<1> USE Bounds DEF Records, Active, Idle, Field
<1>1. CASE Spawn
  <2>1. PICK c \in Cycle : cycle' = [cycle EXCEPT ![c] = [nr |-> storing + 1, next |-> 1]]
    BY <1>1 DEF Spawn, Turn
  <2>2. [nr |-> storing + 1, next |-> 1] \in [nr : 0 .. MaxTurns, next : 0 .. Fields]
    BY <1>1 DEF Spawn, Turn
  <2> QED
    BY <1>1, <2>1, <2>2 DEF Spawn, Turn
<1>2. ASSUME NEW c \in Cycle, Store(c) PROVE Records'
  <2> DEFINE n == cycle[c].next
             t == cycle[c].nr
             moved == IF n = Fields THEN [nr |-> 0, next |-> 0] ELSE [nr |-> t, next |-> n + 1]
  <2>1. n \in Field /\ t \in 1 .. storing
    BY <1>2 DEF Store, StoreFrom
  <2>2. cycle[c] = [nr |-> t, next |-> n]
    OBVIOUS
  <2>3. cycle' = [cycle EXCEPT ![c] = moved]
    BY <1>2, <2>2 DEF Store, StoreFrom
  <2>4. moved \in [nr : 0 .. MaxTurns, next : 0 .. Fields]
    BY <2>1
  <2>5. GPU' = [GPU EXCEPT ![n] = t] /\ UNCHANGED <<turn, storing>>
    BY <1>2 DEF Store, StoreFrom
  <2> HIDE DEF n, t
  <2> QED
    BY <2>1, <2>3, <2>4, <2>5
<1>3. CASE SpawnWithoutNvml
  BY <1>3 DEF SpawnWithoutNvml, Turn
<1>4. CASE UNCHANGED <<turn, storing, GPU, cycle>>
  BY <1>4
<1> QED
  BY <1>1, <1>2, <1>3, <1>4
  DEF Next, Sampler, LoadRX, StoreRX, LoadTX, StoreTX, StoreOf, Main, CopyRX, CopyRXLeaving,
      CopyTX, ResetRX, ResetTX, ResetOf, GetGPU, CopyField, record, vars

LEMMA RepliesStep == Records /\ Replies /\ [Next]_vars => Replies'
<1> SUFFICES ASSUME Records, Replies, [Next]_vars PROVE Replies'
  OBVIOUS
<1> USE Bounds DEF Replies
<1>1. ASSUME NEW h \in Handler, GetGPU(h) PROVE Replies'
  BY <1>1 DEF GetGPU
<1>2. ASSUME NEW h \in Handler, CopyField(h) PROVE Replies'
  <2>1. GPU[handler[h]] \in 0 .. MaxTurns
    BY <1>2 DEF CopyField, Records, Field
  <2>2. /\ reply' = [reply EXCEPT ![h] = Append(reply[h], GPU[handler[h]])]
        /\ handler' = [handler EXCEPT ![h] = IF handler[h] = Fields THEN 0 ELSE handler[h] + 1]
        /\ handler[h] > 0
    BY <1>2 DEF CopyField
  <2>3. Len(Append(reply[h], GPU[handler[h]])) = Len(reply[h]) + 1
    BY <2>1
  <2> QED
    BY <2>1, <2>2, <2>3
<1>3. CASE UNCHANGED <<handler, reply>>
  BY <1>3
<1> QED
  BY <1>1, <1>2, <1>3
  DEF Next, Sampler, LoadRX, StoreRX, LoadTX, StoreTX, StoreOf, Main, Spawn,
      SpawnWithoutNvml, Turn, CopyRX, CopyRXLeaving, CopyTX, ResetRX, ResetTX, ResetOf,
      Store, StoreFrom, replies, vars

LEMMA FlagsStep == Flags /\ [Next]_vars => Flags'
  BY DEF Flags, Next, Sampler, LoadRX, StoreRX, LoadTX, StoreTX, StoreOf, Main, Spawn,
         SpawnWithoutNvml, Turn, CopyRX, CopyRXLeaving, CopyTX, ResetRX, ResetTX, ResetOf,
         Store, StoreFrom, GetGPU, CopyField, record, vars

LEMMA IsTyped == Spec => []Typed
<1>1. Typed /\ [Next]_vars => Typed'
  BY ClocksStep, CountersStep, StruckStep, WindowsStep, RecordsStep, RepliesStep, FlagsStep DEF Typed
<1> QED
  BY <1>1, TypedInit, PTL DEF Spec

\* The types of the record, its counters and its replies, for any bounds.
THEOREM TypeCorrect == Spec => []TypeOK
<1>1. Typed => TypeOK
  BY DEF Typed, TypeOK, Clocks, Counters, Struck, Windows, Records, Replies, Flags, Rounds
<1> QED
  BY <1>1, IsTyped, PTL

-----------------------------------------------------------------------------
\* The fields.  In a record that is not mixed only one cycle has begun to store,
\* and what it has stored is its own.

Whole ==
  ~mixed =>
    /\ \A c, o \in Cycle : Stored(c) /\ Stored(o) => c = o
    /\ \A c \in Cycle : Stored(c) =>
         \A f \in Field : f < cycle[c].next => GPU[f] = cycle[c].nr
    /\ (\A c \in Cycle : ~Stored(c)) => \A f \in Field : GPU[f] = GPU[1]

\* What a cycle's step does to the record.
LEMMA StoreSays ==
  ASSUME Records, NEW c \in Cycle, Store(c)
  PROVE  /\ cycle[c].next \in Field /\ cycle[c].nr \in 1 .. storing
         /\ GPU' = [GPU EXCEPT ![cycle[c].next] = cycle[c].nr]
         /\ \A o \in Cycle \ {c} : cycle'[o] = cycle[o]
         /\ cycle[c].next = Fields => cycle'[c].next = 0 /\ ~Active(c)'
         /\ cycle[c].next # Fields =>
              cycle'[c].next = cycle[c].next + 1 /\ cycle'[c].nr = cycle[c].nr
<1> USE DEF Records, Store, StoreFrom
<1>1. cycle[c].next \in Field /\ cycle[c].nr \in 1 .. storing
  OBVIOUS
<1>2. cycle' = [cycle EXCEPT ![c] = IF cycle[c].next = Fields THEN Idle
                                    ELSE [nr |-> cycle[c].nr, next |-> cycle[c].next + 1]]
  OBVIOUS
<1>3. cycle'[c] = IF cycle[c].next = Fields THEN Idle
                  ELSE [nr |-> cycle[c].nr, next |-> cycle[c].next + 1]
  BY <1>2
<1> QED
  BY <1>1, <1>2, <1>3 DEF Idle, Active

LEMMA WholeStep == Records /\ Whole /\ [Next]_vars => Whole'
<1> SUFFICES ASSUME Records, Whole, [Next]_vars PROVE Whole'
  OBVIOUS
<1>1. CASE Spawn
  <2>1. PICK c \in Cycle : ~Active(c) /\ cycle' = [cycle EXCEPT ![c] = [nr |-> storing + 1, next |-> 1]]
    BY <1>1 DEF Spawn, Turn
  <2>2. cycle'[c].next = 1 /\ \A o \in Cycle \ {c} : cycle'[o] = cycle[o]
    BY <2>1 DEF Records
  <2>3. ~Stored(c) /\ ~Stored(c)'
    BY <2>1, <2>2 DEF Active, Idle, Stored
  <2>4. GPU' = GPU /\ mixed' = mixed
    BY <1>1 DEF Spawn, Turn
  <2> QED
    BY <2>2, <2>3, <2>4 DEF Whole, Stored
<1>2. ASSUME NEW c \in Cycle, Store(c), ~mixed' PROVE Whole'
  <2>1. \A o \in Cycle \ {c} : ~Stored(o) /\ ~Stored(o)'
    BY <1>2, StoreSays DEF Store, StoreFrom, Stored
  <2>2. Stored(c) => ~mixed
    BY <1>2, <2>1 DEF Store, StoreFrom
  <2>3. \A f \in Field : f < cycle[c].next => GPU[f] = cycle[c].nr
    <3>1. CASE Stored(c)
      BY <2>2, <3>1 DEF Whole
    <3>2. CASE ~Stored(c)
      BY <1>2, <3>2, StoreSays, Bounds DEF Stored, Field
    <3> QED
      BY <3>1, <3>2
  <2>4. \A f \in Field : f <= cycle[c].next => GPU'[f] = cycle[c].nr
    <3>1. cycle[c].next \in Field /\ GPU' = [GPU EXCEPT ![cycle[c].next] = cycle[c].nr]
      BY <1>2, StoreSays
    <3>2. \A f \in Field : GPU'[f] = IF f = cycle[c].next THEN cycle[c].nr ELSE GPU[f]
      BY <3>1 DEF Records
    <3>3. \A f \in Field : f <= cycle[c].next => f < cycle[c].next \/ f = cycle[c].next
      BY <3>1, Bounds DEF Field
    <3> QED
      BY <2>3, <3>2, <3>3
  <2>5. CASE cycle[c].next = Fields
    <3>1. \A f \in Field : GPU'[f] = cycle[c].nr
      BY <2>4, <2>5, Bounds DEF Field
    <3>2. 1 \in Field
      BY Bounds DEF Field
    <3>3. \A o \in Cycle : ~Stored(o)'
      BY <1>2, <2>1, <2>5, StoreSays DEF Stored
    <3> QED
      BY <3>1, <3>2, <3>3 DEF Whole
  <2>6. CASE cycle[c].next # Fields
    <3>1. cycle'[c].next = cycle[c].next + 1 /\ cycle'[c].nr = cycle[c].nr
      BY <1>2, <2>6, StoreSays
    <3>2. cycle[c].next \in Field
      BY <1>2, StoreSays
    <3>3. Stored(c)'
      BY <3>1, <3>2, Bounds DEF Stored, Field
    <3>4. \A f \in Field : f < cycle'[c].next => GPU'[f] = cycle'[c].nr
      BY <2>4, <3>1, <3>2, Bounds DEF Field
    <3> QED
      BY <2>1, <3>3, <3>4 DEF Whole
  <2> QED
    BY <2>5, <2>6
<1>3. ASSUME NEW c \in Cycle, Store(c) PROVE Whole'
  BY <1>2, <1>3 DEF Whole
<1>4. CASE SpawnWithoutNvml
  BY <1>4 DEF SpawnWithoutNvml, Turn, Whole, Stored
<1>5. CASE UNCHANGED <<GPU, cycle, mixed>>
  BY <1>5 DEF Whole, Stored
<1> QED
  BY <1>1, <1>3, <1>4, <1>5
  DEF Next, Sampler, LoadRX, StoreRX, LoadTX, StoreTX, StoreOf, Main, CopyRX, CopyRXLeaving,
      CopyTX, ResetRX, ResetTX, ResetOf, GetGPU, CopyField, record, vars

\* A record that no cycle is storing into is whole again after the first cycle that
\* stored on its own, for any number of cycles and fields (gpumetric.go:144-179).
THEOREM RecordsWhole == Spec => []RecordWhole
<1>1. Init => Whole
  <2> SUFFICES ASSUME Init PROVE Whole
    OBVIOUS
  <2>1. 1 \in Field
    BY Bounds DEF Field
  <2>2. \A c \in Cycle : ~Stored(c)
    BY DEF Init, Stored, Idle
  <2>3. \A f \in Field : GPU[f] = 0
    BY DEF Init
  <2> QED
    BY <2>1, <2>2, <2>3 DEF Whole
<1>2. Typed /\ Whole /\ [Next]_vars => Whole'
  BY WholeStep DEF Typed
<1>3. Whole => RecordWhole
  BY DEF Whole, RecordWhole
<1> QED
  BY <1>1, <1>2, <1>3, IsTyped, PTL DEF Spec

\* The replies.  Until cycles that store overlap, every field is of the last of them or
\* of the one before.
OnTurn ==
  ~overlapped =>
    /\ \A c, o \in Cycle : Active(c) /\ Active(o) => c = o
    /\ \A c \in Cycle : Active(c) =>
         /\ cycle[c].nr = storing
         /\ \A f \in Field : GPU[f] = IF f < cycle[c].next THEN storing ELSE storing - 1
    /\ (\A c \in Cycle : ~Active(c)) => \A f \in Field : GPU[f] = storing
    /\ \A h \in Handler : \A k \in DOMAIN reply[h] : reply[h][k] <= storing
    /\ \A h \in Handler : \A j, k \in DOMAIN reply[h] :
         j < k => reply[h][k] >= reply[h][j] - 1

LEMMA OnTurnStep == Records /\ Replies /\ OnTurn /\ [Next]_vars => OnTurn'
<1> SUFFICES ASSUME Records, Replies, OnTurn, ~overlapped', [Next]_vars PROVE OnTurn'
  BY DEF OnTurn
<1>0. \A h \in Handler : \A k \in DOMAIN reply[h] : reply[h][k] \in Int
  BY Bounds DEF Replies
<1>1. CASE Spawn
  <2>1. PICK c \in Cycle : ~Active(c) /\ cycle' = [cycle EXCEPT ![c] = [nr |-> storing + 1, next |-> 1]]
    BY <1>1 DEF Spawn, Turn
  <2>2. cycle'[c] = [nr |-> storing + 1, next |-> 1] /\ \A o \in Cycle \ {c} : cycle'[o] = cycle[o]
    BY <2>1 DEF Records
  <2>3. ~overlapped /\ \A o \in Cycle : ~Active(o)
    BY <1>1 DEF Spawn, Turn
  <2>4. \A o \in Cycle \ {c} : ~Active(o)'
    BY <2>2, <2>3 DEF Active
  <2>5. GPU' = GPU /\ storing' = storing + 1 /\ reply' = reply
    BY <1>1 DEF Spawn, Turn, replies
  <2>6. \A f \in Field : GPU'[f] = storing' - 1 /\ ~(f < cycle'[c].next)
    BY <2>2, <2>3, <2>5, Bounds DEF OnTurn, Field, Records
  <2>7. Active(c)' /\ cycle'[c].nr = storing'
    BY <2>2, <2>5 DEF Active, Idle
  <2>8. \A h \in Handler : \A k \in DOMAIN reply'[h] : reply'[h][k] <= storing'
    BY <1>0, <2>3, <2>5, Bounds DEF OnTurn, Records
  <2> QED
    BY <2>3, <2>4, <2>5, <2>6, <2>7, <2>8 DEF OnTurn
<1>2. ASSUME NEW c \in Cycle, Store(c) PROVE OnTurn'
  <2>1. ~overlapped /\ storing' = storing /\ reply' = reply /\ Active(c)
    BY <1>2 DEF Store, StoreFrom, replies
  <2>2. \A o \in Cycle \ {c} : ~Active(o) /\ ~Active(o)'
    <3>1. \A o \in Cycle \ {c} : ~Active(o)
      BY <2>1 DEF OnTurn
    <3> QED
      BY <1>2, <3>1, StoreSays DEF Active
  <2>3. cycle[c].nr = storing /\ \A f \in Field : GPU[f] = IF f < cycle[c].next THEN storing ELSE storing - 1
    BY <2>1 DEF OnTurn
  <2>4. \A f \in Field : GPU'[f] = IF f < cycle[c].next + 1 THEN storing ELSE storing - 1
    <3>1. GPU' = [GPU EXCEPT ![cycle[c].next] = cycle[c].nr] /\ cycle[c].next \in Field
      BY <1>2, StoreSays
    <3>2. \A f \in Field : GPU'[f] = IF f = cycle[c].next THEN storing ELSE GPU[f]
      BY <2>3, <3>1 DEF Records
    <3>3. SUFFICES ASSUME NEW f \in Field
                   PROVE  GPU'[f] = IF f < cycle[c].next + 1 THEN storing ELSE storing - 1
      OBVIOUS
    <3>4. f \in Int /\ cycle[c].next \in Int
      BY <3>1, Bounds DEF Field
    <3>5. CASE f = cycle[c].next
      <4>1. f < cycle[c].next + 1
        BY <3>4, <3>5
      <4> QED BY <3>2, <3>5, <4>1
    <3>6. CASE f # cycle[c].next
      <4>1. f < cycle[c].next + 1 <=> f < cycle[c].next
        BY <3>4, <3>6
      <4> QED BY <2>3, <3>2, <3>6, <4>1
    <3> QED BY <3>5, <3>6
  <2>5. CASE cycle[c].next = Fields
    <3>1. \A f \in Field : GPU'[f] = storing'
      BY <2>1, <2>4, <2>5, Bounds DEF Field
    <3>2. \A o \in Cycle : ~Active(o)'
      BY <1>2, <2>2, <2>5, StoreSays
    <3> QED
      BY <2>1, <3>1, <3>2 DEF OnTurn
  <2>6. CASE cycle[c].next # Fields
    <3>1. cycle'[c].next = cycle[c].next + 1 /\ cycle'[c].nr = storing'
      BY <1>2, <2>1, <2>3, <2>6, StoreSays
    <3>2. Active(c)'
      BY <1>2, <3>1, StoreSays, Bounds DEF Active, Idle, Field
    <3>3. \A o \in Cycle : Active(o)' => o = c
      BY <2>2
    <3>4. \A f \in Field : GPU'[f] = IF f < cycle'[c].next THEN storing' ELSE storing' - 1
      BY <2>1, <2>4, <3>1
    <3> QED
      BY <2>1, <3>1, <3>2, <3>3, <3>4 DEF OnTurn
  <2> QED
    BY <2>5, <2>6
<1>3. ASSUME NEW h \in Handler, GetGPU(h) PROVE OnTurn'
  <2>1. reply' = [reply EXCEPT ![h] = <<>>] /\ UNCHANGED <<storing, GPU, cycle, overlapped>>
    BY <1>3 DEF GetGPU, record
  <2>2. DOMAIN reply'[h] = {} /\ \A g \in Handler \ {h} : reply'[g] = reply[g]
    BY <2>1 DEF Replies
  <2>3. /\ \A g \in Handler : \A k \in DOMAIN reply'[g] : reply'[g][k] <= storing
        /\ \A g \in Handler : \A j, k \in DOMAIN reply'[g] : j < k => reply'[g][k] >= reply'[g][j] - 1
    BY <2>1, <2>2 DEF OnTurn
  <2> QED
    BY <2>1, <2>3 DEF OnTurn, Active
<1>4. ASSUME NEW h \in Handler, CopyField(h) PROVE OnTurn'
  <2>1. reply' = [reply EXCEPT ![h] = Append(reply[h], GPU[handler[h]])]
        /\ UNCHANGED <<storing, GPU, cycle, overlapped>> /\ handler[h] \in Field
    BY <1>4, Bounds DEF CopyField, record, Replies, Field
  <2>2. storing \in Nat /\ GPU[handler[h]] \in Nat
    BY <2>1, Bounds DEF Records
  <2>3. GPU[handler[h]] <= storing /\ GPU[handler[h]] >= storing - 1
    <3>1. CASE \E c \in Cycle : Active(c)
      BY <2>1, <2>2, <3>1 DEF OnTurn
    <3>2. CASE \A c \in Cycle : ~Active(c)
      BY <2>1, <2>2, <3>2 DEF OnTurn
    <3> QED
      BY <3>1, <3>2
  <2>4. \A g \in Handler \ {h} : reply'[g] = reply[g]
    BY <2>1 DEF Replies
  <2> DEFINE old == reply[h]
             got == GPU[handler[h]]
             new == Append(old, got)
  <2>5. reply'[h] = new /\ old \in Seq(Int)
    BY <2>1, Bounds DEF Replies
  <2>6. \A k \in DOMAIN old : old[k] <= storing /\ old[k] \in Int
    BY <1>0, <2>1 DEF OnTurn
  <2>7. \A j, k \in DOMAIN old : j < k => old[k] >= old[j] - 1
    BY <2>1 DEF OnTurn
  <2>8. /\ DOMAIN new = 1 .. Len(old) + 1 /\ new[Len(old) + 1] = got
        /\ \A k \in 1 .. Len(old) : new[k] = old[k]
        /\ DOMAIN old = 1 .. Len(old) /\ Len(old) \in Nat
    BY <2>5
  <2> HIDE DEF old, new
  <2>9. \A k \in DOMAIN new : new[k] <= storing
    BY <2>2, <2>3, <2>6, <2>8
  <2>10. \A j, k \in DOMAIN new : j < k => new[k] >= new[j] - 1
    <3> SUFFICES ASSUME NEW j \in DOMAIN new, NEW k \in DOMAIN new, j < k
                 PROVE  new[k] >= new[j] - 1
      OBVIOUS
    <3>1. j \in 1 .. Len(old)
      BY <2>8
    <3>2. CASE k \in 1 .. Len(old)
      BY <2>7, <2>8, <3>1, <3>2
    <3>3. CASE k = Len(old) + 1
      BY <2>2, <2>3, <2>6, <2>8, <3>1, <3>3
    <3> QED
      BY <2>8, <3>2, <3>3
  <2> QED
    BY <2>1, <2>4, <2>5, <2>9, <2>10 DEF OnTurn, Active
<1>5. CASE SpawnWithoutNvml
  BY <1>5 DEF SpawnWithoutNvml, Turn, replies, OnTurn, Active
<1>6. CASE UNCHANGED <<storing, GPU, cycle, overlapped, reply>>
  BY <1>6 DEF OnTurn, Active
<1> QED
  BY <1>1, <1>2, <1>3, <1>4, <1>5, <1>6
  DEF Next, Sampler, LoadRX, StoreRX, LoadTX, StoreTX, StoreOf, Main, CopyRX, CopyRXLeaving,
      CopyTX, ResetRX, ResetTX, ResetOf, record, replies, vars

\* As long as the cycles that store have not overlapped, a field of a reply is at worst
\* of the storing cycle before that of a field copied earlier, for any number of
\* handlers and fields, and whichever cycles read nothing (cmd/main.go:416-444).
THEOREM RepliesAlmostWhole == Spec => []ReplyAlmostWhole
<1>1. Init => OnTurn
  <2> SUFFICES ASSUME Init PROVE OnTurn
    OBVIOUS
  <2>1. \A h \in Handler : DOMAIN reply[h] = {}
    BY DEF Init
  <2>2. \A c \in Cycle : ~Active(c)
    BY DEF Init, Active
  <2>3. \A f \in Field : GPU[f] = storing
    BY DEF Init
  <2> QED
    BY <2>1, <2>2, <2>3 DEF OnTurn
<1>2. Typed /\ OnTurn /\ [Next]_vars => OnTurn'
  BY OnTurnStep DEF Typed
<1>3. OnTurn => ReplyAlmostWhole
  BY DEF OnTurn, ReplyAlmostWhole
<1> QED
  BY <1>1, <1>2, <1>3, IsTyped, PTL DEF Spec

-----------------------------------------------------------------------------
\* The counters.  Kept is what a take may yet report of a counter, Old the rounds
\* whose reading may be in it: a step keeps what was kept, or adds a round that was
\* in none.

Kept(d) ==
  tmp[d] \cup (IF (d = "rx" /\ sampler = "storeRX") \/ (d = "tx" /\ sampler = "storeTX")
                 THEN held ELSE {})
         \cup (IF d = "rx" /\ main = "copyTX" THEN GPURXTX["rx"] ELSE {})

Old(d) == 1 .. IF sampler = "storeRX" \/ (d = "tx" /\ Sampling) THEN round - 1 ELSE round

Reports == UNCHANGED windows \/ \E w \in [Dir -> Rounds] :
             /\ windows' = Append(windows, w)
             /\ \A d \in Dir : w[d] \subseteq Kept(d)

LEMMA OldStep ==
  ASSUME Clocks, [Next]_vars, NEW d \in Dir
  PROVE  Old(d) \subseteq Old(d)'
<1> USE Bounds DEF Old, Sampling, Clocks
<1>1. CASE Sampler
  BY <1>1 DEF Sampler, LoadRX, StoreRX, LoadTX, StoreTX, LoadOf, StoreOf
<1>2. CASE UNCHANGED <<sampler, round>>
  BY <1>2
<1> QED
  BY <1>1, <1>2
  DEF Next, Main, Spawn, SpawnWithoutNvml, Turn, CopyRX, CopyRXLeaving, CopyTX, ResetRX,
      ResetTX, ResetOf, Store, StoreFrom, GetGPU, CopyField, pcie, vars

LEMMA KeptStep ==
  ASSUME Clocks, Counters, [Next]_vars, NEW d \in Dir
  PROVE  Kept(d)' \subseteq Kept(d) \cup (Old(d)' \ Old(d))
<1>0. d \in {"rx", "tx"} /\ tmp \in [Dir -> Rounds]
  BY DEF Dir, Counters
<1>1. CASE LoadRX
  <2>1. UNCHANGED <<tmp, main, GPURXTX>> /\ held' = tmp["rx"] /\ sampler = "sleep" /\ sampler' = "storeRX"
    BY <1>1 DEF LoadRX, LoadOf, taken
  <2> QED
    BY <1>0, <2>1 DEF Kept
<1>2. CASE LoadTX
  <2>1. UNCHANGED <<tmp, main, GPURXTX>> /\ held' = tmp["tx"] /\ sampler = "loadTX" /\ sampler' = "storeTX"
    BY <1>2 DEF LoadTX, LoadOf, taken
  <2> QED
    BY <1>0, <2>1 DEF Kept
<1>3. CASE StoreRX
  <2>1. /\ UNCHANGED <<main, GPURXTX, held, round>> /\ sampler = "storeRX" /\ sampler' = "loadTX"
        /\ tmp' = [tmp EXCEPT !["rx"] = held \cup {round}]
    BY <1>3 DEF StoreRX, StoreOf, taken
  <2>2. round \in Nat \ {0}
    BY <2>1, Bounds DEF Clocks, Sampling
  <2>3. round \in Old("rx")' \ Old("rx")
    BY <2>1, <2>2 DEF Old
  <2>4. tmp'["rx"] = held \cup {round} /\ tmp'["tx"] = tmp["tx"]
    BY <1>0, <2>1 DEF Dir
  <2>5. CASE d = "rx"
    BY <2>1, <2>3, <2>4, <2>5 DEF Kept
  <2>6. CASE d = "tx"
    BY <2>1, <2>4, <2>6 DEF Kept
  <2> QED
    BY <1>0, <2>5, <2>6
<1>4. CASE StoreTX
  <2>1. /\ UNCHANGED <<main, GPURXTX, held, round>> /\ sampler = "storeTX" /\ sampler' = "sleep"
        /\ tmp' = [tmp EXCEPT !["tx"] = held \cup {round}]
    BY <1>4 DEF StoreTX, StoreOf, taken
  <2>2. round \in Nat \ {0}
    BY <2>1, Bounds DEF Clocks, Sampling
  <2>3. round \in Old("tx")' \ Old("tx")
    BY <2>1, <2>2 DEF Old, Sampling
  <2>4. tmp'["tx"] = held \cup {round} /\ tmp'["rx"] = tmp["rx"]
    BY <1>0, <2>1 DEF Dir
  <2>5. CASE d = "rx"
    BY <2>1, <2>4, <2>5 DEF Kept
  <2>6. CASE d = "tx"
    BY <2>1, <2>3, <2>4, <2>6 DEF Kept
  <2> QED
    BY <1>0, <2>5, <2>6
<1>5. CASE CopyRX
  <2>1. UNCHANGED <<tmp, sampler, held>> /\ GPURXTX'["rx"] = tmp["rx"]
    BY <1>5 DEF CopyRX, CopyRXLeaving, Counters, Dir
  <2> QED
    BY <1>0, <2>1 DEF Kept
<1>6. CASE CopyTX
  <2>1. UNCHANGED <<tmp, sampler, held>> /\ main' = "resetRX"
    BY <1>6 DEF CopyTX, pcie
  <2> QED
    BY <1>0, <2>1 DEF Kept
<1>7. CASE ResetRX \/ ResetTX
  <2>1. UNCHANGED <<sampler, held>> /\ main' \in {"resetTX", "spawn"}
    BY <1>7 DEF ResetRX, ResetTX, ResetOf
  <2>2. tmp'[d] \subseteq tmp[d]
    BY <1>0, <1>7 DEF ResetRX, ResetTX, ResetOf, Dir
  <2> QED
    BY <2>1, <2>2 DEF Kept
<1>8. CASE Spawn \/ SpawnWithoutNvml
  <2>1. UNCHANGED <<tmp, sampler, held>> /\ main' = "copyRX"
    BY <1>8 DEF Spawn, SpawnWithoutNvml, Turn, pcie
  <2> QED
    BY <2>1 DEF Kept
<1>9. CASE UNCHANGED <<pcie, taken, main>>
  BY <1>9 DEF Kept, pcie, taken
<1> QED
  BY <1>1, <1>2, <1>3, <1>4, <1>5, <1>6, <1>7, <1>8, <1>9
  DEF Next, Sampler, Main, Store, StoreFrom, GetGPU, CopyField, vars

LEMMA ReportsStep == Counters /\ [Next]_vars => Reports
<1> SUFFICES ASSUME Counters, [Next]_vars PROVE Reports
  OBVIOUS
<1>1. CASE CopyTX
  <2>1. /\ GPURXTX' = [GPURXTX EXCEPT !["tx"] = tmp["tx"]] /\ main = "copyTX"
        /\ windows' = Append(windows, GPURXTX')
    BY <1>1 DEF CopyTX
  <2>2. /\ GPURXTX' \in [Dir -> Rounds] /\ GPURXTX'["tx"] = tmp["tx"]
        /\ GPURXTX'["rx"] = GPURXTX["rx"]
    BY <2>1 DEF Counters, Dir
  <2>3. \A d \in Dir : GPURXTX'[d] \subseteq Kept(d)
    BY <2>1, <2>2 DEF Kept, Dir
  <2> QED
    BY <2>1, <2>2, <2>3 DEF Reports
<1>2. CASE UNCHANGED windows
  BY <1>2 DEF Reports
<1> QED
  BY <1>1, <1>2
  DEF Next, Sampler, LoadRX, StoreRX, LoadTX, StoreTX, StoreOf, Main, Spawn,
      SpawnWithoutNvml, Turn, CopyRX, CopyRXLeaving, ResetRX, ResetTX, ResetOf, Store,
      StoreFrom, GetGPU, CopyField, taken, vars

\* What a report adds to the windows.
LEMMA WindowsSay ==
  ASSUME Windows, Reports
  PROVE  /\ DOMAIN windows = 1 .. Len(windows) /\ Len(windows) \in Nat
         /\ DOMAIN windows' = 1 .. Len(windows')
         /\ Len(windows') \in {Len(windows), Len(windows) + 1}
         /\ \A k \in 1 .. Len(windows) : windows'[k] = windows[k]
         /\ Len(windows') = Len(windows) + 1 =>
              \A d \in Dir : windows'[Len(windows) + 1][d] \subseteq Kept(d)
<1>1. CASE UNCHANGED windows
  BY <1>1 DEF Windows
<1>2. ASSUME NEW w \in [Dir -> Rounds], windows' = Append(windows, w),
             \A d \in Dir : w[d] \subseteq Kept(d)
      PROVE  /\ DOMAIN windows' = 1 .. Len(windows) + 1 /\ Len(windows') = Len(windows) + 1
             /\ \A k \in 1 .. Len(windows) : windows'[k] = windows[k]
             /\ windows'[Len(windows) + 1] = w
  BY <1>2 DEF Windows
<1> QED
  BY <1>1, <1>2 DEF Windows, Reports

\* Readings are of rounds that have read them.
Fresh ==
  \A d \in Dir : /\ Kept(d) \subseteq Old(d)
                 /\ \A k \in DOMAIN windows : windows[k][d] \subseteq Old(d)

LEMMA FreshStep == Clocks /\ Counters /\ Windows /\ Fresh /\ [Next]_vars => Fresh'
<1> SUFFICES ASSUME Clocks, Counters, Windows, Fresh, [Next]_vars, NEW d \in Dir
             PROVE  /\ Kept(d)' \subseteq Old(d)'
                    /\ \A k \in DOMAIN windows' : windows'[k][d] \subseteq Old(d)'
  BY DEF Fresh
<1>1. Kept(d) \subseteq Old(d) /\ \A k \in DOMAIN windows : windows[k][d] \subseteq Old(d)
  BY DEF Fresh
<1>2. Kept(d)' \subseteq Old(d)'
  BY <1>1, OldStep, KeptStep
<1>3. ASSUME NEW k \in DOMAIN windows' PROVE windows'[k][d] \subseteq Old(d)'
  <2>1. Reports
    BY ReportsStep
  <2>2. CASE k \in DOMAIN windows
    BY <1>1, <2>1, <2>2, OldStep, WindowsSay
  <2>3. CASE k = Len(windows) + 1 /\ Len(windows') = Len(windows) + 1
    <3>1. windows'[Len(windows) + 1][d] \subseteq Kept(d)
      BY <2>1, <2>3, WindowsSay
    <3>2. windows'[k][d] \subseteq Kept(d)
      BY <2>3, <3>1
    <3> QED
      BY <1>1, <3>2, OldStep
  <2>4. k \in 1 .. Len(windows') /\ Len(windows) \in Nat /\ DOMAIN windows = 1 .. Len(windows)
        /\ (Len(windows') = Len(windows) \/ Len(windows') = Len(windows) + 1)
    BY <2>1, WindowsSay
  <2> QED
    BY <2>2, <2>3, <2>4
<1> QED
  BY <1>2, <1>3

\* A take and a round in progress together are struck; a take that is not has
\* the counters for itself.
Met ==
  /\ Sampling /\ Taking => round \in struck.rounds /\ turn \in struck.takes
  /\ main = "resetTX" /\ turn \notin struck.takes => tmp["rx"] = {}
  /\ sampler \in {"loadTX", "storeTX"} /\ round \notin struck.rounds => round \in tmp["rx"]

LEMMA MetStep == Clocks /\ Counters /\ Struck /\ Met /\ [Next]_vars => Met'
<1> SUFFICES ASSUME Clocks, Counters, Struck, Met, [Next]_vars PROVE Met'
  OBVIOUS
<1> USE DEF Met, Sampling, Taking
<1>0. tmp \in [Dir -> Rounds] /\ "rx" \in Dir /\ "tx" \in Dir
  BY DEF Counters, Dir
<1>1. CASE LoadRX
  <2>1. round' = round + 1 /\ tmp' = tmp /\ main' = main /\ turn' = turn /\ sampler' = "storeRX"
    BY <1>1 DEF LoadRX, LoadOf
  <2>2. Taking => /\ struck'.takes = struck.takes \cup {turn}
                  /\ struck'.rounds = struck.rounds \cup {round + 1}
    BY <1>1 DEF LoadRX, Strike
  <2>3. ~Taking => struck' = struck
    BY <1>1 DEF LoadRX, Strike
  <2> QED
    BY <2>1, <2>2, <2>3
<1>2. CASE StoreRX
  <2>1. tmp'["rx"] = held \cup {round}
    BY <1>0, <1>2 DEF StoreRX, StoreOf
  <2> QED
    BY <1>2, <2>1 DEF StoreRX, StoreOf, taken
<1>3. CASE LoadTX
  BY <1>3 DEF LoadTX, LoadOf, taken
<1>4. CASE StoreTX
  <2>1. tmp'["rx"] = tmp["rx"]
    BY <1>0, <1>4 DEF StoreTX, StoreOf
  <2> QED
    BY <1>4, <2>1 DEF StoreTX, StoreOf, taken
<1>5. CASE Spawn \/ SpawnWithoutNvml
  BY <1>5 DEF Spawn, SpawnWithoutNvml, Turn, pcie, taken
<1>6. CASE CopyRX
  <2>1. UNCHANGED <<tmp, sampler, round, turn>> /\ main' = "copyTX"
    BY <1>6 DEF CopyRX, CopyRXLeaving
  <2>2. Sampling => /\ struck'.takes = struck.takes \cup {turn}
                    /\ struck'.rounds = struck.rounds \cup {round}
    BY <1>6 DEF CopyRX, CopyRXLeaving, Strike
  <2>3. ~Sampling => struck' = struck
    BY <1>6 DEF CopyRX, CopyRXLeaving, Strike
  <2> QED
    BY <2>1, <2>2, <2>3
<1>7. CASE CopyTX
  BY <1>7 DEF CopyTX, pcie
<1>8. CASE ResetRX
  <2>1. tmp'["rx"] = {}
    BY <1>0, <1>8 DEF ResetRX, ResetOf
  <2> QED
    BY <1>8, <2>1 DEF ResetRX, ResetOf, taken
<1>9. CASE ResetTX
  <2>1. tmp'["rx"] = tmp["rx"]
    BY <1>0, <1>9 DEF ResetTX, ResetOf
  <2> QED
    BY <1>9, <2>1 DEF ResetTX, ResetOf, taken
<1>10. CASE UNCHANGED <<pcie, main, turn, struck>>
  BY <1>10 DEF pcie
<1> QED
  BY <1>1, <1>2, <1>3, <1>4, <1>5, <1>6, <1>7, <1>8, <1>9, <1>10
  DEF Next, Sampler, Main, Store, StoreFrom, GetGPU, CopyField, vars

\* What a finished take that was not struck had reported, or an earlier one, is
\* not kept, and no later take reports it.
Finished == 1 .. IF main = "spawn" THEN turn ELSE turn - 1

Cleared ==
  \A m \in Finished \ struck.takes : \A k \in 1 .. m : \A d \in Dir :
    /\ windows[k][d] \cap Kept(d) = {}
    /\ \A l \in m + 1 .. Len(windows) : windows[k][d] \cap windows[l][d] = {}

LEMMA StruckGrows ==
  ASSUME Struck, [Next]_vars
  PROVE  struck.takes \subseteq struck'.takes /\ struck.rounds \subseteq struck'.rounds
<1>1. ASSUME NEW meets, NEW r, Strike(meets, r)
      PROVE  struck.takes \subseteq struck'.takes /\ struck.rounds \subseteq struck'.rounds
  BY <1>1 DEF Strike
<1>2. CASE LoadRX \/ CopyRX
  BY <1>1, <1>2 DEF LoadRX, CopyRX, CopyRXLeaving
<1>3. CASE UNCHANGED struck
  BY <1>3
<1> QED
  BY <1>2, <1>3
  DEF Next, Sampler, StoreRX, LoadTX, StoreTX, StoreOf, Main, Spawn, SpawnWithoutNvml,
      Turn, CopyTX, ResetRX, ResetTX, ResetOf, Store, StoreFrom, GetGPU, CopyField, vars

LEMMA ClearedStep ==
  Clocks /\ Counters /\ Struck /\ Windows /\ Fresh /\ Met /\ Cleared /\ [Next]_vars => Cleared'
<1> SUFFICES ASSUME Clocks, Counters, Struck, Windows, Fresh, Met, Cleared, [Next]_vars,
                    NEW m \in Finished' \ struck'.takes, NEW k \in 1 .. m, NEW d \in Dir
             PROVE  /\ windows'[k][d] \cap Kept(d)' = {}
                    /\ \A l \in m + 1 .. Len(windows') : windows'[k][d] \cap windows'[l][d] = {}
  BY DEF Cleared
<1>0. Reports
  BY ReportsStep
<1>1. CASE m \in Finished
  <2>1. m \notin struck.takes
    BY StruckGrows
  <2>2. k \in 1 .. Len(windows) /\ m \in 1 .. Len(windows)
    BY <1>1, Bounds DEF Finished, Windows, Clocks
  <2>3. windows'[k] = windows[k] /\ windows[k][d] \subseteq Old(d)
    BY <1>0, <2>2, WindowsSay DEF Fresh
  <2>4. windows[k][d] \cap Kept(d) = {}
    BY <1>1, <2>1 DEF Cleared
  <2>5. windows'[k][d] \cap Kept(d)' = {}
    BY <2>3, <2>4, KeptStep
  <2>6. ASSUME NEW l \in m + 1 .. Len(windows') PROVE windows'[k][d] \cap windows'[l][d] = {}
    <3>1. CASE l \in m + 1 .. Len(windows)
      <4>1. windows'[l] = windows[l]
        <5>1. l \in 1 .. Len(windows)
          BY <2>2, <3>1
        <5> QED
          BY <1>0, <5>1, WindowsSay
      <4>2. windows[k][d] \cap windows[l][d] = {}
        BY <1>1, <2>1, <3>1 DEF Cleared
      <4> QED
        BY <2>3, <4>1, <4>2
    <3>2. CASE l = Len(windows) + 1 /\ Len(windows') = Len(windows) + 1
      <4>1. windows'[Len(windows) + 1][d] \subseteq Kept(d)
        BY <1>0, <3>2, WindowsSay
      <4> QED
        BY <2>3, <2>4, <3>2, <4>1
    <3>3. Len(windows') = Len(windows) \/ Len(windows') = Len(windows) + 1
      BY <1>0, WindowsSay
    <3>4. Len(windows) \in Nat
      BY <1>0, WindowsSay
    <3> QED
      BY <2>2, <3>1, <3>2, <3>3, <3>4
  <2> QED
    BY <2>5, <2>6
<1>2. CASE m \notin Finished
  <2>1. CASE ResetTX
    <3>1. m = turn /\ main = "resetTX" /\ struck' = struck /\ windows' = windows /\ main' = "spawn"
          /\ sampler' = sampler
      BY <1>2, <2>1, Bounds DEF ResetTX, ResetOf, Finished, Clocks, taken
    <3>2. ~Sampling /\ tmp["rx"] = {}
      BY <3>1 DEF Met, Taking
    <3>3. tmp'["rx"] = {} /\ tmp'["tx"] = {}
      BY <2>1, <3>2 DEF ResetTX, ResetOf, Counters, Dir
    <3>4. Kept(d)' = {}
      BY <3>1, <3>2, <3>3 DEF Kept, Sampling, Dir
    <3>5. Len(windows') = m
      BY <3>1 DEF Windows
    <3>6. m \in Nat
      BY <3>1, Bounds DEF Clocks
    <3> QED
      BY <3>4, <3>5, <3>6
  <2>2. CASE ~ResetTX
    <3>1. Finished' = Finished
      <4>1. CASE Spawn \/ SpawnWithoutNvml
        BY <4>1, Bounds DEF Spawn, SpawnWithoutNvml, Turn, Finished, Clocks
      <4>2. CASE CopyRX \/ CopyTX \/ ResetRX
        BY <4>2 DEF CopyRX, CopyRXLeaving, CopyTX, ResetRX, ResetOf, Finished
      <4>3. CASE UNCHANGED <<main, turn>>
        BY <4>3 DEF Finished
      <4> QED
        BY <2>2, <4>1, <4>2, <4>3
        DEF Next, Sampler, LoadRX, StoreRX, LoadTX, StoreTX, StoreOf, Main, Store, StoreFrom,
            GetGPU, CopyField, vars
    <3> QED
      BY <1>2, <3>1
  <2> QED
    BY <2>1, <2>2
<1> QED
  BY <1>1, <1>2

Sums == Fresh /\ Met /\ Cleared

LEMMA SumsInit == Init => Sums
<1> SUFFICES ASSUME Init PROVE Sums
  OBVIOUS
<1>1. \A d \in Dir : Kept(d) = {}
  BY DEF Init, Kept
<1>2. DOMAIN windows = {}
  BY DEF Init
<1>3. Finished = {}
  BY DEF Init, Finished
<1>4. Met
  BY DEF Init, Met, Sampling, Taking
<1>5. Fresh
  BY <1>1, <1>2 DEF Fresh
<1>6. Cleared
  BY <1>3 DEF Cleared
<1> QED
  BY <1>4, <1>5, <1>6 DEF Sums

LEMMA IsSummed == Spec => []Sums
<1>1. Typed /\ Sums /\ [Next]_vars => Sums'
  BY FreshStep, MetStep, ClearedStep DEF Typed, Sums
<1> QED
  BY <1>1, SumsInit, IsTyped, PTL DEF Spec

\* A take that meets no round clears the counters for good: no reading is reported
\* on both sides of it, for any number of rounds and turns (cmd/main.go:207-216).
THEOREM NeverRepeated == Spec => []NothingRepeated
<1>1. Typed /\ Sums => NothingRepeated
  <2> SUFFICES ASSUME Typed, Sums,
                      NEW k \in DOMAIN windows, NEW l \in DOMAIN windows, NEW d \in Dir,
                      k < l, windows[k][d] \cap windows[l][d] # {},
                      NEW m \in k .. l - 1, m \notin struck.takes
               PROVE  FALSE
    BY DEF NothingRepeated
  <2>1. DOMAIN windows = 1 .. Len(windows) /\ Len(windows) \in Nat
    BY DEF Typed, Windows
  <2>2. m \in Finished
    BY <2>1, Bounds DEF Typed, Windows, Clocks, Finished
  <2>3. k \in 1 .. m /\ l \in m + 1 .. Len(windows)
    BY <2>1
  <2> QED
    BY <2>2, <2>3 DEF Sums, Cleared
<1> QED
  BY <1>1, IsTyped, IsSummed, PTL

\* A round that is over and met no take has been reported, for the first time by one
\* take in both counters, or is in both counters wherever they are stored, and then no
\* take is clearing them.
Unreported(r) == \A k \in DOMAIN windows : \A d \in Dir : r \notin windows[k][d]

FirstIn(k, r) ==
  /\ r \in windows[k]["rx"] /\ r \in windows[k]["tx"]
  /\ \A j \in 1 .. k - 1 : \A d \in Dir : r \notin windows[j][d]

Held(r) ==
  /\ main \notin {"resetRX", "resetTX"}
  /\ r \in tmp["rx"] /\ r \in tmp["tx"]
  /\ sampler \in {"storeRX", "storeTX"} => r \in held
  /\ main = "copyTX" => r \in GPURXTX["rx"]

Accounted(r) == (\E k \in DOMAIN windows : FirstIn(k, r)) \/ (Unreported(r) /\ Held(r))

Lossless ==
  /\ \A r \in Undisturbed : Accounted(r)
  /\ Sampling /\ round \notin struck.rounds => Unreported(round)

LEMMA FirstInStep ==
  ASSUME Windows, Reports, NEW r, \E k \in DOMAIN windows : FirstIn(k, r)
  PROVE  (\E k \in DOMAIN windows : FirstIn(k, r))'
<1>1. PICK k \in DOMAIN windows : FirstIn(k, r)
  OBVIOUS
<1>2. /\ k \in 1 .. Len(windows) /\ k \in DOMAIN windows' /\ Len(windows) \in Nat
      /\ \A j \in 1 .. Len(windows) : windows'[j] = windows[j]
  <2>1. /\ DOMAIN windows = 1 .. Len(windows) /\ Len(windows) \in Nat
        /\ DOMAIN windows' = 1 .. Len(windows')
        /\ Len(windows') = Len(windows) \/ Len(windows') = Len(windows) + 1
        /\ \A j \in 1 .. Len(windows) : windows'[j] = windows[j]
    BY WindowsSay
  <2>2. ASSUME NEW m, NEW n \in Nat, k \in 1 .. n, m = n \/ m = n + 1 PROVE k \in 1 .. m
    BY <2>2
  <2>3. k \in 1 .. Len(windows')
    BY <2>1, <2>2
  <2> QED
    BY <2>1, <2>3
<1>3. FirstIn(k, r)'
  BY <1>1, <1>2 DEF FirstIn
<1> QED
  BY <1>2, <1>3

LEMMA UnreportedStep ==
  ASSUME NEW r, Unreported(r), UNCHANGED windows
  PROVE  Unreported(r)'
  BY DEF Unreported

\* Only the end of a round adds to the undisturbed rounds.
LEMMA UndisturbedStep ==
  ASSUME Clocks, Struck, [Next]_vars, ~StoreTX
  PROVE  Undisturbed' \subseteq Undisturbed
<1> USE Bounds DEF Undisturbed, Sampling, Clocks
<1>1. CASE LoadRX \/ StoreRX \/ LoadTX
  BY <1>1, StruckGrows DEF LoadRX, StoreRX, LoadTX, LoadOf, StoreOf
<1>2. CASE UNCHANGED <<sampler, round>>
  BY <1>2, StruckGrows
<1> QED
  BY <1>1, <1>2
  DEF Next, Sampler, Main, Spawn, SpawnWithoutNvml, Turn, CopyRX, CopyRXLeaving, CopyTX,
      ResetRX, ResetTX, ResetOf, Store, StoreFrom, GetGPU, CopyField, pcie, vars

LEMMA HeldStep ==
  ASSUME Clocks, Counters, [Next]_vars, ~CopyTX, NEW r, Held(r)
  PROVE  Held(r)'
<1>0. tmp \in [Dir -> Rounds] /\ GPURXTX \in [Dir -> Rounds] /\ "rx" \in Dir /\ "tx" \in Dir
  BY DEF Counters, Dir
<1> USE DEF Held
<1>1. CASE LoadRX \/ LoadTX
  BY <1>1 DEF LoadRX, LoadTX, LoadOf, taken
<1>2. CASE StoreRX
  <2>1. tmp'["rx"] = held \cup {round} /\ tmp'["tx"] = tmp["tx"]
    BY <1>0, <1>2 DEF StoreRX, StoreOf
  <2> QED
    BY <1>2, <2>1 DEF StoreRX, StoreOf, taken
<1>3. CASE StoreTX
  <2>1. tmp'["tx"] = held \cup {round} /\ tmp'["rx"] = tmp["rx"]
    BY <1>0, <1>3 DEF StoreTX, StoreOf
  <2> QED
    BY <1>3, <2>1 DEF StoreTX, StoreOf, taken
<1>4. CASE Spawn \/ SpawnWithoutNvml
  BY <1>4 DEF Spawn, SpawnWithoutNvml, Turn, pcie
<1>5. CASE CopyRX
  <2>1. GPURXTX'["rx"] = tmp["rx"]
    BY <1>0, <1>5 DEF CopyRX, CopyRXLeaving
  <2> QED
    BY <1>5, <2>1 DEF CopyRX, CopyRXLeaving
<1>6. CASE ResetRX \/ ResetTX
  BY <1>6 DEF ResetRX, ResetTX, ResetOf
<1>7. CASE UNCHANGED <<pcie, taken, main>>
  BY <1>7 DEF pcie, taken
<1> QED
  BY <1>1, <1>2, <1>3, <1>4, <1>5, <1>6, <1>7
  DEF Next, Sampler, Main, Store, StoreFrom, GetGPU, CopyField, vars

\* The take reports what both counters hold.
LEMMA CopyTXReports ==
  ASSUME Counters, Windows, CopyTX, NEW r, Unreported(r), Held(r)
  PROVE  (\E k \in DOMAIN windows : FirstIn(k, r))'
<1>1. /\ main = "copyTX" /\ windows' = Append(windows, GPURXTX')
      /\ GPURXTX' = [GPURXTX EXCEPT !["tx"] = tmp["tx"]]
  BY DEF CopyTX
<1>2. /\ GPURXTX' \in [Dir -> Rounds] /\ GPURXTX'["rx"] = GPURXTX["rx"]
      /\ GPURXTX'["tx"] = tmp["tx"]
  BY <1>1 DEF Counters, Dir
<1>0. PICK k : k = Len(windows) + 1
  OBVIOUS
<1>3. /\ k \in DOMAIN windows' /\ windows'[k] = GPURXTX' /\ Len(windows) \in Nat
      /\ \A j \in 1 .. k - 1 : j \in DOMAIN windows /\ windows'[j] = windows[j]
  BY <1>0, <1>1, <1>2 DEF Windows
<1>4. r \in windows'[k]["rx"] /\ r \in windows'[k]["tx"]
  BY <1>1, <1>2, <1>3 DEF Held
<1>5. \A j \in 1 .. k - 1 : \A d \in Dir : r \notin windows'[j][d]
  BY <1>3 DEF Unreported
<1>6. FirstIn(k, r)'
  BY <1>4, <1>5 DEF FirstIn
<1> QED
  BY <1>3, <1>6

LEMMA WindowsStay ==
  ASSUME [Next]_vars, ~CopyTX
  PROVE  UNCHANGED windows
  BY DEF Next, Sampler, LoadRX, StoreRX, LoadTX, StoreTX, StoreOf, Main, Spawn,
         SpawnWithoutNvml, Turn, CopyRX, CopyRXLeaving, ResetRX, ResetTX, ResetOf, Store,
         StoreFrom, GetGPU, CopyField, taken, vars

LEMMA AccountedStep ==
  ASSUME Clocks, Counters, Windows, [Next]_vars, NEW r, Accounted(r)
  PROVE  Accounted(r)'
<1>1. CASE \E k \in DOMAIN windows : FirstIn(k, r)
  <2>1. (\E k \in DOMAIN windows : FirstIn(k, r))'
    BY <1>1, ReportsStep, FirstInStep
  <2> QED
    BY <2>1 DEF Accounted
<1>2. CASE Unreported(r) /\ Held(r)
  <2>1. CASE CopyTX
    <3>1. (\E k \in DOMAIN windows : FirstIn(k, r))'
      BY <1>2, <2>1, CopyTXReports
    <3> QED
      BY <3>1 DEF Accounted
  <2>2. CASE ~CopyTX
    <3>1. Held(r)' /\ Unreported(r)'
      BY <1>2, <2>2, HeldStep, UnreportedStep, WindowsStay
    <3> QED
      BY <3>1 DEF Accounted
  <2> QED
    BY <2>1, <2>2
<1> QED
  BY <1>1, <1>2 DEF Accounted

LEMMA LosslessStep ==
  Clocks /\ Counters /\ Struck /\ Windows /\ Fresh /\ Met /\ Lossless /\ [Next]_vars => Lossless'
<1> SUFFICES ASSUME Clocks, Counters, Struck, Windows, Fresh, Met, Lossless, [Next]_vars
             PROVE  Lossless'
  OBVIOUS
<1>1. \A r \in Undisturbed' : Accounted(r)'
  <2>1. ASSUME NEW r \in Undisturbed, r \in Undisturbed' PROVE Accounted(r)'
    BY <2>1, AccountedStep DEF Lossless
  <2>2. CASE StoreTX
    <3>1. /\ sampler = "storeTX" /\ sampler' = "sleep" /\ UNCHANGED <<main, round, windows, struck>>
          /\ tmp' = [tmp EXCEPT !["tx"] = held \cup {round}]
      BY <2>2 DEF StoreTX, StoreOf, taken
    <3>2. ASSUME NEW r \in Undisturbed', r \notin Undisturbed PROVE Accounted(r)'
      <4>1. r = round /\ round \notin struck.rounds /\ Sampling
        BY <3>1, <3>2, Bounds DEF Undisturbed, Sampling, Clocks
      <4>2. ~Taking /\ round \in tmp["rx"] /\ Unreported(round)
        BY <3>1, <4>1 DEF Met, Lossless
      <4>3. tmp'["rx"] = tmp["rx"] /\ tmp'["tx"] = held \cup {round}
        BY <3>1 DEF Counters, Dir
      <4>4. Held(r)'
        BY <3>1, <4>1, <4>2, <4>3 DEF Held, Taking
      <4>5. Unreported(r)'
        BY <3>1, <4>1, <4>2 DEF Unreported
      <4> QED
        BY <4>4, <4>5 DEF Accounted
    <3> QED
      BY <2>1, <3>2
  <2>3. CASE ~StoreTX
    BY <2>1, <2>3, UndisturbedStep
  <2> QED
    BY <2>2, <2>3
<1>2. ASSUME Sampling', round' \notin struck'.rounds PROVE Unreported(round)'
  <2>1. CASE LoadRX
    <3>1. round' = round + 1 /\ sampler = "sleep" /\ windows' = windows
      BY <2>1 DEF LoadRX, LoadOf, taken
    <3>2. \A k \in DOMAIN windows : \A d \in Dir : windows[k][d] \subseteq Old(d)
      BY DEF Fresh
    <3>3. \A d \in Dir : round + 1 \notin Old(d)
      BY <3>1, Bounds DEF Old, Sampling, Clocks
    <3> QED
      BY <3>1, <3>2, <3>3 DEF Unreported
  <2>2. CASE ~LoadRX
    <3>1. Sampling /\ round' = round
      BY <1>2, <2>2 DEF Sampling, Next, Sampler, StoreRX, LoadTX, StoreTX, LoadOf, StoreOf,
                        Main, Spawn, SpawnWithoutNvml, Turn, CopyRX, CopyRXLeaving, CopyTX,
                        ResetRX, ResetTX, ResetOf, Store, StoreFrom, GetGPU, CopyField,
                        pcie, vars
    <3>2. round \notin struck.rounds
      BY <1>2, <3>1, StruckGrows
    <3>3. ~Taking /\ Unreported(round)
      BY <3>1, <3>2 DEF Met, Lossless
    <3>4. ~CopyTX
      BY <3>3 DEF CopyTX, Taking
    <3>5. UNCHANGED windows
      BY <3>4, WindowsStay
    <3> QED
      BY <3>1, <3>3, <3>5 DEF Unreported
  <2> QED
    BY <2>1, <2>2
<1> QED
  BY <1>1, <1>2 DEF Lossless

LEMMA LeastIs ==
  ASSUME NEW S \in SUBSET Int, NEW k \in S, \A j \in S : k <= j
  PROVE  Min(S) = k
<1>1. \E x \in S : \A y \in S : x <= y
  OBVIOUS
<1>2. Min(S) \in S /\ \A y \in S : Min(S) <= y
  BY <1>1 DEF Min
<1>3. Min(S) <= k /\ k <= Min(S) /\ Min(S) \in Int
  BY <1>2
<1> QED
  BY <1>3

\* A round that met no take is reported or still counted, and both of its readings
\* belong to one take, for any number of rounds and turns (cmd/main.go:207-216,
\* gpumetric.go:345-349).
THEOREM NeverLost == Spec => []NothingLost
<1>1. Init => Lossless
  <2> SUFFICES ASSUME Init PROVE Lossless
    OBVIOUS
  <2>1. Undisturbed = {} /\ ~Sampling
    BY DEF Init, Undisturbed, Sampling
  <2> QED
    BY <2>1 DEF Lossless
<1>2. Typed /\ Sums /\ Lossless /\ [Next]_vars => Lossless'
  BY LosslessStep DEF Typed, Sums
<1>3. Windows /\ Lossless => NothingLost
  <2> SUFFICES ASSUME Windows, Lossless, NEW r \in Undisturbed
               PROVE  /\ \A d \in Dir : Reported(d, r) # {} \/ r \in tmp[d]
                      /\ Reported("rx", r) # {} => Min(Reported("rx", r)) = Min(Reported("tx", r))
    BY DEF NothingLost
  <2>1. DOMAIN windows = 1 .. Len(windows) /\ Len(windows) \in Nat
    BY DEF Windows
  <2>2. ASSUME NEW k \in DOMAIN windows, FirstIn(k, r), NEW d \in Dir
        PROVE  k \in Reported(d, r) /\ Min(Reported(d, r)) = k
    <3>1. k \in Reported(d, r)
      BY <2>2 DEF Reported, FirstIn, Dir
    <3>2. \A j \in Reported(d, r) : k <= j
      BY <2>1, <2>2 DEF Reported, FirstIn
    <3>3. Reported(d, r) \in SUBSET Int
      BY <2>1 DEF Reported
    <3> QED
      BY <3>1, <3>2, <3>3, LeastIs
  <2>3. CASE \E k \in DOMAIN windows : FirstIn(k, r)
    BY <2>2, <2>3 DEF Dir
  <2>4. CASE Unreported(r) /\ Held(r)
    <3>1. \A d \in Dir : Reported(d, r) = {} /\ r \in tmp[d]
      BY <2>4 DEF Reported, Unreported, Held, Dir
    <3> QED
      BY <3>1 DEF Dir
  <2> QED
    BY <2>3, <2>4 DEF Lossless, Accounted
<1>4. Typed => Windows
  BY DEF Typed
<1> QED
  BY <1>1, <1>2, <1>3, <1>4, IsTyped, IsSummed, PTL DEF Spec

-----------------------------------------------------------------------------
\* Lemma: the handlers send and remember values of the field only.
LEMMA TypeKeeps == ServiceTypeOK /\ [ServiceNext]_serviceVars => ServiceTypeOK'
<1> SUFFICES ASSUME ServiceTypeOK, [ServiceNext]_serviceVars  PROVE ServiceTypeOK'
  OBVIOUS
<1>0. 0 \in Total
  BY ServiceAssumption
<1>1. CASE Write
  BY <1>1 DEF Write, ServiceTypeOK
<1>2. CASE Restart
  BY <1>0, <1>2 DEF Restart, ServiceTypeOK
<1>3. ASSUME NEW c \in Client, GetNode(c) \/ GetInitData(c)
      PROVE  ServiceTypeOK'
  BY <1>3 DEF GetNode, GetInitData, Goto, globals, ServiceTypeOK
<1>4. ASSUME NEW c \in Client, Compare(c) \/ Fill(c) \/ Remember(c)
      PROVE  ServiceTypeOK'
  BY <1>0, <1>4 DEF Compare, Fill, Remember, Goto, globals, ServiceTypeOK
<1>5. ASSUME NEW c \in Client, Receive(c) \/ Lose(c)
      PROVE  ServiceTypeOK'
  BY <1>0, <1>5 DEF Receive, Lose, Goto, globals, ServiceTypeOK
<1>6. ASSUME NEW c \in Client, Build(c) \/ InitRemember(c) \/ InitReceive(c)
      PROVE  ServiceTypeOK'
  BY <1>0, <1>6 DEF Build, InitRemember, InitReceive, Goto, globals, ServiceTypeOK
<1>7. CASE UNCHANGED serviceVars
  BY <1>7 DEF serviceVars, globals, ServiceTypeOK
<1> QED BY <1>1, <1>2, <1>3, <1>4, <1>5, <1>6, <1>7 DEF ServiceNext, Serve

\* main.go:396-399, 467-493: the globals, the messages and what clients hold are totals
\* of the node, or 0.
THEOREM ServiceTyped == ServiceSpec => []ServiceTypeOK
<1>1. ServiceInit => ServiceTypeOK
  BY ServiceAssumption DEF ServiceInit, ServiceTypeOK
<1> QED BY <1>1, TypeKeeps, PTL DEF ServiceSpec

-----------------------------------------------------------------------------
\* The inductive invariant.  A message under way carries the field, or 0 when the
\* field had been sent; once its sender has remembered the field it is what the
\* service believes it sent.
Message(c) ==
  /\ pc[c] = "remember" => \/ msg[c] = GrpcNodeTotalStorage
                           \/ msg[c] = 0 /\ prevNodeStorage = GrpcNodeTotalStorage
  /\ pc[c] = "initremember" => msg[c] = GrpcNodeTotalStorage
  /\ pc[c] = "reply" => /\ prevNodeStorage = GrpcNodeTotalStorage
                        /\ msg[c] \in {0, GrpcNodeTotalStorage}
  /\ pc[c] = "initreply" => /\ prevNodeStorage = GrpcNodeTotalStorage
                            /\ msg[c] = GrpcNodeTotalStorage

\* The client holds what the service believes it sent, or is about to receive it.
Gets(c) == \/ known[c] = prevNodeStorage
           \/ pc[c] \in {"reply", "initreply"} /\ msg[c] = prevNodeStorage

Reached == ~disturbed =>
          /\ \A c \in Client : Message(c)
          /\ prevNodeStorage # 0 => \E c \in Client : Gets(c)

\* Lemma: a step of a handler that remembers nothing keeps what clients get.
LEMMA AnswerKeeps ==
  ASSUME ServiceTypeOK, Reached, NEW c \in Client, Compare(c) \/ Fill(c) \/ Build(c)
  PROVE  Reached'
<1> SUFFICES ASSUME ~disturbed  PROVE Reached'
  BY DEF Reached, Compare, Fill, Build
<1>1. \A d \in Client : Message(d)'
  <2> SUFFICES ASSUME NEW d \in Client  PROVE Message(d)'
    OBVIOUS
  <2>1. Message(d)
    BY DEF Reached
  <2> QED BY <2>1 DEF Message, Compare, Fill, Build, Changed, Goto, globals, ServiceTypeOK
<1>2. ASSUME NEW d \in Client, Gets(d)  PROVE Gets(d)'
  BY <1>2 DEF Gets, Compare, Fill, Build, Goto, globals, ServiceTypeOK
<1>3. prevNodeStorage' = prevNodeStorage
  BY DEF Compare, Fill, Build, globals
<1> QED BY <1>1, <1>2, <1>3 DEF Reached

\* Lemma: a handler that remembers another value than before is about to send it.
LEMMA RememberKeeps ==
  ASSUME ServiceTypeOK, Reached, NEW c \in Client, Remember(c) \/ InitRemember(c)
  PROVE  Reached'
<1> SUFFICES ASSUME ~disturbed  PROVE Reached'
  BY DEF Reached, Remember, InitRemember
<1>1. Message(c) /\ pc[c] \in {"remember", "initremember"}
  BY DEF Reached, Remember, InitRemember
<1>2. \A d \in Client : Message(d)'
  <2> SUFFICES ASSUME NEW d \in Client  PROVE Message(d)'
    OBVIOUS
  <2>1. Message(d)
    BY DEF Reached
  <2> QED BY <1>1, <2>1 DEF Message, Remember, InitRemember, Goto, ServiceTypeOK
<1>3. CASE msg[c] = GrpcNodeTotalStorage
  <2>1. Gets(c)'
    BY <1>3 DEF Gets, Remember, InitRemember, Goto, ServiceTypeOK
  <2> QED BY <1>2, <2>1 DEF Reached
<1>4. CASE msg[c] # GrpcNodeTotalStorage
  <2>1. prevNodeStorage' = prevNodeStorage
    BY <1>1, <1>4 DEF Message, Remember, InitRemember
  <2>2. ASSUME NEW d \in Client, Gets(d)  PROVE Gets(d)'
    BY <1>1, <2>1, <2>2 DEF Gets, Remember, InitRemember, Goto, ServiceTypeOK
  <2> QED BY <1>2, <2>1, <2>2 DEF Reached
<1> QED BY <1>3, <1>4

\* Lemma: a reply that arrives leaves its client with what was remembered, or as it was.
LEMMA ReceiveKeeps ==
  ASSUME ServiceTypeOK, Reached, NEW c \in Client, Receive(c) \/ InitReceive(c)
  PROVE  Reached'
<1> SUFFICES ASSUME ~disturbed  PROVE Reached'
  BY DEF Reached, Receive, InitReceive
<1>1. \A d \in Client : Message(d)'
  <2> SUFFICES ASSUME NEW d \in Client  PROVE Message(d)'
    OBVIOUS
  <2>1. Message(d)
    BY DEF Reached
  <2> QED BY <2>1 DEF Message, Receive, InitReceive, Goto, globals, ServiceTypeOK
<1>2. prevNodeStorage' = prevNodeStorage
  BY DEF Receive, InitReceive, globals
<1>3. ASSUME NEW d \in Client, Gets(d), prevNodeStorage # 0  PROVE Gets(d)'
  <2>1. Message(c)
    BY DEF Reached
  <2>2. CASE d = c
    BY <1>2, <1>3, <2>1, <2>2 DEF Gets, Message, Receive, InitReceive, Goto, globals, ServiceTypeOK
  <2>3. CASE d # c
    BY <1>2, <1>3, <2>3 DEF Gets, Receive, InitReceive, Goto, ServiceTypeOK
  <2> QED BY <2>2, <2>3
<1> QED BY <1>1, <1>2, <1>3 DEF Reached

\* Lemma: no step breaks the relation between what was sent, what is remembered and
\* what the clients hold.
LEMMA ReachedKeeps == ServiceTypeOK /\ Reached /\ [ServiceNext]_serviceVars => Reached'
<1> SUFFICES ASSUME ServiceTypeOK, Reached, [ServiceNext]_serviceVars  PROVE Reached'
  OBVIOUS
<1>1. CASE Write
  <2> SUFFICES ASSUME ~disturbed'  PROVE Reached'
    BY DEF Reached
  <2>1. ~disturbed /\ \A c \in Client : pc'[c] = "idle"
    BY <1>1 DEF Write
  <2>2. \A c \in Client : Message(c)'
    BY <2>1 DEF Message
  <2>3. \A c \in Client : Gets(c) => Gets(c)'
    BY <1>1 DEF Write, Gets
  <2> QED BY <1>1, <2>1, <2>2, <2>3 DEF Reached, Write
<1>2. CASE Restart
  BY <1>2 DEF Restart, Reached, Message
<1>3. ASSUME NEW c \in Client, GetNode(c) \/ GetInitData(c)
      PROVE  Reached'
  BY <1>3 DEF GetNode, GetInitData, Goto, globals, Reached, Message, Gets, ServiceTypeOK
<1>4. ASSUME NEW c \in Client, Lose(c)
      PROVE  Reached'
  BY <1>4 DEF Lose, Reached
<1>5. CASE UNCHANGED serviceVars
  BY <1>5 DEF serviceVars, globals, Reached, Message, Gets
<1> QED BY <1>1, <1>2, <1>3, <1>4, <1>5, AnswerKeeps, RememberKeeps, ReceiveKeeps
        DEF ServiceNext, Serve

\* cmd/main.go:396-399, 467-493: as long as replies arrive and main does not write
\* into a call, whichever clients call in whatever interleaving, between calls some
\* client holds the value the service believes it sent.
THEOREM ChangesReachSomebody == ServiceSpec => []SomebodyKnows
<1>1. ServiceInit => Reached
  BY DEF ServiceInit, Reached, Message
<1>2. Reached => SomebodyKnows
  BY DEF Reached, Gets, SomebodyKnows, AtRest
<1> QED BY <1>1, <1>2, ReachedKeeps, ServiceTyped, PTL DEF ServiceSpec
=============================================================================
