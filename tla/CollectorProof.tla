---------------------------- MODULE CollectorProof ----------------------------
(***************************************************************************)
(* Theorems about the collection cycles, for every number of cycles at     *)
(* once, of GPUs, containers and lists.                                    *)
(***************************************************************************)
EXTENDS Collector, FiniteSetTheorems, WellFoundedInduction, TLAPS

\* The cycle is at a GPU: inside the body of Gpumetric's loop.
AtGPU == Labels \ {"idle", "init", "loop", "zero", "load", "add"}

\* It points to the entry of its GPU.
InEntry == {"read", "list", "map", "track", "count", "rows", "podnum", "gpurow"}

\* What holds of a cycle at label with locals l and the backing arrays as: its loops
\* are within their bounds, an append stores into room it has, and the entry it points
\* to is in its array.
CycleOK(label, l, as) ==
  /\ label \in AtGPU \cup {"loop", "load", "add"} => 1 <= l.gpu
  /\ label \in AtGPU => l.gpu <= l.count
  /\ label = "add" => l.gpu <= NumGPU
  /\ label = "grow" => l.arr \in DOMAIN as /\ l.header.len <= Len(as[l.arr])
  /\ label \in {"store", "clear"} => l.arr \in DOMAIN as /\ l.header.len + 1 <= Len(as[l.arr])
  /\ label \in InEntry => l.arr \in DOMAIN as /\ l.gpu <= Len(as[l.arr])
  /\ label = "read" => l.tries < MaxTries
  /\ label \in {"map", "track", "count", "rows"} => 1 <= l.j

\* The inductive invariant.
CyclesOK == \A c \in Cycle : CycleOK(pc[c], loc[c], arrays)
IInv == TypeOK /\ CyclesOK

Cids == Seq(Container \cup {"none"})

\* Arrays keep their sizes, and new ones are made behind them.
SizesKept ==
  /\ arrays' \in Seq(Seq(Cids))
  /\ \A a \in DOMAIN arrays : a \in DOMAIN arrays' /\ Len(arrays'[a]) = Len(arrays[a])

-----------------------------------------------------------------------------
\* Lemma: the sizes and bounds of the model are natural numbers.
LEMMA Numbers ==
  ASSUME ConstantsAssumption
  PROVE  /\ NumGPU \in Nat /\ NumGPU >= 1 /\ MaxTries \in Nat /\ MaxTries >= 1
         /\ MaxSpawns \in Nat
  BY DEF ConstantsAssumption

\* Lemma: the slice is a part of its array, and every array has a size.
LEMMA SliceType ==
  ASSUME TypeOK
  PROVE  /\ arrays \in Seq(Seq(Cids)) /\ Len(arrays) \in Nat /\ DOMAIN arrays = 1 .. Len(arrays)
         /\ \A a \in DOMAIN arrays : arrays[a] \in Seq(Cids) /\ Len(arrays[a]) \in Nat
         /\ podmap \in Header /\ podmap.arr \in Nat /\ podmap.len \in Nat
         /\ podmap.arr \in DOMAIN arrays /\ podmap.len <= Len(arrays[podmap.arr])
  BY DEF TypeOK, Header, Cids

\* Lemma: the arrays stay as they are.
LEMMA SameArrays == ASSUME TypeOK, arrays' = arrays PROVE SizesKept
  BY SliceType DEF SizesKept

\* The arrays with v in cell k of array a.
Put(a, k, v) == [arrays EXCEPT ![a][k] = v]

\* Lemma: writing a cell keeps the arrays' sizes.
LEMMA PutCell ==
  ASSUME TypeOK, NEW a \in DOMAIN arrays, NEW k \in 1 .. Len(arrays[a]), NEW v \in Cids,
         arrays' = Put(a, k, v)
  PROVE  /\ SizesKept /\ Len(arrays') = Len(arrays) /\ DOMAIN arrays' = DOMAIN arrays
         /\ \A b \in DOMAIN arrays \ {a} : arrays'[b] = arrays[b]
         /\ \A i \in 1 .. Len(arrays[a]) : arrays'[a][i] = IF i = k THEN v ELSE arrays[a][i]
<1> DEFINE old == arrays[a]
           new == [old EXCEPT ![k] = v]
<1>1. /\ arrays \in Seq(Seq(Cids)) /\ Len(arrays) \in Nat /\ DOMAIN arrays = 1 .. Len(arrays)
      /\ old \in Seq(Cids) /\ Len(old) \in Nat
  BY SliceType
<1>2. arrays' = [arrays EXCEPT ![a] = new]
  BY DEF Put
<1>3. /\ new \in Seq(Cids) /\ Len(new) = Len(old)
      /\ \A i \in 1 .. Len(old) : new[i] = IF i = k THEN v ELSE old[i]
  <2> HIDE DEF old
  <2>1. k \in 1 .. Len(old)
    BY DEF old
  <2> QED BY <1>1, <2>1
<1> HIDE DEF new, old
<1>4. /\ arrays' \in Seq(Seq(Cids)) /\ Len(arrays') = Len(arrays) /\ DOMAIN arrays' = DOMAIN arrays
      /\ arrays'[a] = new /\ \A b \in DOMAIN arrays \ {a} : arrays'[b] = arrays[b]
  BY <1>1, <1>2, <1>3
<1>5. ASSUME NEW b \in DOMAIN arrays PROVE Len(arrays'[b]) = Len(arrays[b])
  BY <1>3, <1>4 DEF old
<1> QED BY <1>3, <1>4, <1>5 DEF SizesKept, old

\* Lemma: a move of one cycle keeps the control invariant of all when the arrays keep
\* their sizes.
LEMMA Move ==
  ASSUME TypeOK, CyclesOK, NEW c \in Cycle, NEW label \in Labels, NEW l \in Locals,
         Goto(c, label, l), SizesKept, CycleOK(label, l, arrays')
  PROVE  /\ pc' \in [Cycle -> Labels] /\ loc' \in [Cycle -> Locals]
         /\ CyclesOK'
<1>1. pc' \in [Cycle -> Labels] /\ loc' \in [Cycle -> Locals]
  BY DEF TypeOK, Goto
<1>2. ASSUME NEW d \in Cycle
      PROVE  CycleOK(pc'[d], loc'[d], arrays')
  <2>1. CASE d = c
    BY <2>1 DEF TypeOK, Goto
  <2>2. CASE d # c
    <3>1. pc'[d] = pc[d] /\ loc'[d] = loc[d]
      BY <2>2 DEF TypeOK, Goto
    <3>2. CycleOK(pc[d], loc[d], arrays)
      BY DEF CyclesOK
    <3>3. \A a \in DOMAIN arrays : a \in DOMAIN arrays' /\ Len(arrays'[a]) = Len(arrays[a])
      BY DEF SizesKept
    <3> QED BY <3>1, <3>2, <3>3 DEF CycleOK
  <2> QED BY <2>1, <2>2
<1> QED BY <1>1, <1>2 DEF CyclesOK

\* Lemma: setting the GPU of a cycle's locals keeps them in type and the others as they were;
\* and so for each of the others below.
LEMMA SetGpu ==
  ASSUME NEW l \in Locals, NEW v \in 0 .. NumGPU + 1
  PROVE  /\ [l EXCEPT !.gpu = v] \in Locals /\ [l EXCEPT !.gpu = v].gpu = v
         /\ [l EXCEPT !.gpu = v].count = l.count /\ [l EXCEPT !.gpu = v].header = l.header
         /\ [l EXCEPT !.gpu = v].arr = l.arr /\ [l EXCEPT !.gpu = v].tries = l.tries
         /\ [l EXCEPT !.gpu = v].procs = l.procs /\ [l EXCEPT !.gpu = v].pods = l.pods
         /\ [l EXCEPT !.gpu = v].j = l.j /\ [l EXCEPT !.gpu = v].value = l.value
  BY DEF Locals

\* Lemma: setting the number of GPUs.
LEMMA SetCount ==
  ASSUME NEW l \in Locals, NEW v \in {0, NumGPU}
  PROVE  /\ [l EXCEPT !.count = v] \in Locals /\ [l EXCEPT !.count = v].count = v
         /\ [l EXCEPT !.count = v].gpu = l.gpu /\ [l EXCEPT !.count = v].header = l.header
         /\ [l EXCEPT !.count = v].arr = l.arr /\ [l EXCEPT !.count = v].tries = l.tries
         /\ [l EXCEPT !.count = v].procs = l.procs /\ [l EXCEPT !.count = v].pods = l.pods
         /\ [l EXCEPT !.count = v].j = l.j /\ [l EXCEPT !.count = v].value = l.value
  BY DEF Locals

\* Lemma: setting a header of podmap.
LEMMA SetHeader ==
  ASSUME NEW l \in Locals, NEW v \in Header
  PROVE  /\ [l EXCEPT !.header = v] \in Locals /\ [l EXCEPT !.header = v].header = v
         /\ [l EXCEPT !.header = v].gpu = l.gpu /\ [l EXCEPT !.header = v].count = l.count
         /\ [l EXCEPT !.header = v].arr = l.arr /\ [l EXCEPT !.header = v].tries = l.tries
         /\ [l EXCEPT !.header = v].procs = l.procs /\ [l EXCEPT !.header = v].pods = l.pods
         /\ [l EXCEPT !.header = v].j = l.j /\ [l EXCEPT !.header = v].value = l.value
  BY DEF Locals

\* Lemma: setting an array.
LEMMA SetArr ==
  ASSUME NEW l \in Locals, NEW v \in Nat
  PROVE  /\ [l EXCEPT !.arr = v] \in Locals /\ [l EXCEPT !.arr = v].arr = v
         /\ [l EXCEPT !.arr = v].gpu = l.gpu /\ [l EXCEPT !.arr = v].count = l.count
         /\ [l EXCEPT !.arr = v].header = l.header /\ [l EXCEPT !.arr = v].tries = l.tries
         /\ [l EXCEPT !.arr = v].procs = l.procs /\ [l EXCEPT !.arr = v].pods = l.pods
         /\ [l EXCEPT !.arr = v].j = l.j /\ [l EXCEPT !.arr = v].value = l.value
  BY DEF Locals

\* Lemma: setting the number of attempts.
LEMMA SetTries ==
  ASSUME NEW l \in Locals, NEW v \in 0 .. MaxTries
  PROVE  /\ [l EXCEPT !.tries = v] \in Locals /\ [l EXCEPT !.tries = v].tries = v
         /\ [l EXCEPT !.tries = v].gpu = l.gpu /\ [l EXCEPT !.tries = v].count = l.count
         /\ [l EXCEPT !.tries = v].header = l.header /\ [l EXCEPT !.tries = v].arr = l.arr
         /\ [l EXCEPT !.tries = v].procs = l.procs /\ [l EXCEPT !.tries = v].pods = l.pods
         /\ [l EXCEPT !.tries = v].j = l.j /\ [l EXCEPT !.tries = v].value = l.value
  BY DEF Locals

\* Lemma: setting the list of processes.
LEMMA SetProcs ==
  ASSUME NEW l \in Locals, NEW v \in Seq(Process)
  PROVE  /\ [l EXCEPT !.procs = v] \in Locals /\ [l EXCEPT !.procs = v].procs = v
         /\ [l EXCEPT !.procs = v].gpu = l.gpu /\ [l EXCEPT !.procs = v].count = l.count
         /\ [l EXCEPT !.procs = v].header = l.header /\ [l EXCEPT !.procs = v].arr = l.arr
         /\ [l EXCEPT !.procs = v].tries = l.tries /\ [l EXCEPT !.procs = v].pods = l.pods
         /\ [l EXCEPT !.procs = v].j = l.j /\ [l EXCEPT !.procs = v].value = l.value
  BY DEF Locals

\* Lemma: setting the list of pods.
LEMMA SetPods ==
  ASSUME NEW l \in Locals, NEW v \in Seq(Pod)
  PROVE  /\ [l EXCEPT !.pods = v] \in Locals /\ [l EXCEPT !.pods = v].pods = v
         /\ [l EXCEPT !.pods = v].gpu = l.gpu /\ [l EXCEPT !.pods = v].count = l.count
         /\ [l EXCEPT !.pods = v].header = l.header /\ [l EXCEPT !.pods = v].arr = l.arr
         /\ [l EXCEPT !.pods = v].tries = l.tries /\ [l EXCEPT !.pods = v].procs = l.procs
         /\ [l EXCEPT !.pods = v].j = l.j /\ [l EXCEPT !.pods = v].value = l.value
  BY DEF Locals

\* Lemma: setting a loop's index.
LEMMA SetJ ==
  ASSUME NEW l \in Locals, NEW v \in Nat
  PROVE  /\ [l EXCEPT !.j = v] \in Locals /\ [l EXCEPT !.j = v].j = v
         /\ [l EXCEPT !.j = v].gpu = l.gpu /\ [l EXCEPT !.j = v].count = l.count
         /\ [l EXCEPT !.j = v].header = l.header /\ [l EXCEPT !.j = v].arr = l.arr
         /\ [l EXCEPT !.j = v].tries = l.tries /\ [l EXCEPT !.j = v].procs = l.procs
         /\ [l EXCEPT !.j = v].pods = l.pods /\ [l EXCEPT !.j = v].value = l.value
  BY DEF Locals

\* Lemma: setting a number that was read.
LEMMA SetValue ==
  ASSUME NEW l \in Locals, NEW v \in Nat
  PROVE  /\ [l EXCEPT !.value = v] \in Locals /\ [l EXCEPT !.value = v].value = v
         /\ [l EXCEPT !.value = v].gpu = l.gpu /\ [l EXCEPT !.value = v].count = l.count
         /\ [l EXCEPT !.value = v].header = l.header /\ [l EXCEPT !.value = v].arr = l.arr
         /\ [l EXCEPT !.value = v].tries = l.tries /\ [l EXCEPT !.value = v].procs = l.procs
         /\ [l EXCEPT !.value = v].pods = l.pods /\ [l EXCEPT !.value = v].j = l.j
  BY DEF Locals


\* Lemma: a cycle's locals are typed and never count more GPUs than there are.
LEMMA LocalsType ==
  ASSUME ConstantsAssumption, TypeOK, NEW c \in Cycle
  PROVE  /\ NoLoc \in Locals /\ loc[c] \in Locals
         /\ loc[c].gpu \in 0 .. NumGPU + 1 /\ loc[c].gpu \in Nat
         /\ loc[c].count \in {0, NumGPU} /\ loc[c].count \in Nat /\ loc[c].count <= NumGPU
         /\ loc[c].header \in Header /\ loc[c].header.arr \in Nat /\ loc[c].header.len \in Nat
         /\ loc[c].arr \in Nat /\ loc[c].tries \in 0 .. MaxTries /\ loc[c].tries \in Nat
         /\ loc[c].procs \in Seq(Process) /\ loc[c].pods \in Seq(Pod)
         /\ loc[c].j \in Nat /\ loc[c].value \in Nat
<1>1. NoLoc \in Locals
  BY Numbers DEF NoLoc, Locals, Nil, Header
<1>2. loc[c] \in Locals
  BY DEF TypeOK
<1>3. loc[c].gpu \in 0 .. NumGPU + 1 /\ loc[c].count \in {0, NumGPU} /\ loc[c].header \in Header
  BY <1>2 DEF Locals
<1>4. loc[c].tries \in 0 .. MaxTries /\ loc[c].j \in Nat /\ loc[c].arr \in Nat /\ loc[c].value \in Nat
  BY <1>2 DEF Locals
<1>5. loc[c].procs \in Seq(Process) /\ loc[c].pods \in Seq(Pod)
  BY <1>2 DEF Locals
<1>6. loc[c].header.arr \in Nat /\ loc[c].header.len \in Nat
  BY <1>3 DEF Header
<1>7. loc[c].gpu \in Nat /\ loc[c].count \in Nat /\ loc[c].count <= NumGPU /\ loc[c].tries \in Nat
  BY <1>3, <1>4, Numbers
<1> QED BY <1>1, <1>2, <1>3, <1>4, <1>5, <1>6, <1>7, Zenon

\* Lemma: a cycle in an entry stays in it.
LEMMA Onward ==
  ASSUME NEW from \in InEntry, NEW label \in InEntry, NEW l, NEW m, NEW as, CycleOK(from, l, as),
         m.gpu = l.gpu, m.count = l.count, m.arr = l.arr,
         label = "read" => m.tries < MaxTries,
         label \in {"map", "track", "count", "rows"} => 1 <= m.j
  PROVE  CycleOK(label, m, as)
<1>1. from \in AtGPU /\ label \in AtGPU
  BY DEF AtGPU, Labels, InEntry
<1>2. label \notin {"add", "grow", "store", "clear"}
  BY DEF InEntry
<1> QED BY <1>1, <1>2 DEF CycleOK

\* Lemma: two sequences one after the other.
LEMMA Concatenated ==
  ASSUME NEW S, NEW q \in Seq(S), NEW r \in Seq(S)
  PROVE  /\ q \o r \in Seq(S) /\ Len(q \o r) = Len(q) + Len(r)
         /\ \A k \in 1 .. Len(q) + Len(r) : (q \o r)[k] = IF k <= Len(q) THEN q[k] ELSE r[k - Len(q)]
  OBVIOUS

\* The end of the process leaves every cycle idle.
LEMMA DieKeeps ==
  ASSUME ConstantsAssumption, TypeOK, NEW why \in Exits, Die(why)
  PROVE  IInv'
<1>1. NoLoc \in Locals
  BY Numbers DEF NoLoc, Locals, Nil, Header
<1>2. << <<>> >> \in Seq(Seq(Seq(Container \cup {"none"})))
  OBVIOUS
<1>3. /\ podmap' \in Header /\ podmap'.arr \in DOMAIN arrays' /\ podmap'.len <= Len(arrays'[podmap'.arr])
      /\ arrays' \in Seq(Seq(Seq(Container \cup {"none"})))
  BY <1>2 DEF Die, Nil, Header
<1>4. <<>> \in Seq(PodMetric)
  OBVIOUS
<1>5. /\ GPUPod' \in [GPU -> Seq(PodMetric)] /\ GPUAssingment' \in [GPU -> Nat]
      /\ GrpcGPUmpscount' \in [GPU -> Nat] /\ gpuRow' \in [GPU -> Nat]
  BY <1>4 DEF Die
<1>6. pc' \in [Cycle -> Labels] /\ loc' \in [Cycle -> Locals]
  BY <1>1 DEF Die, Labels
<1>7. /\ proc' \in Exits \cup {"up"} /\ gpus' \in {0, NumGPU} /\ spawned' \in 0 .. MaxSpawns
      /\ analyzers' \in Nat /\ TotalPodnum' \in Nat /\ nodeRow' \in BOOLEAN
      /\ overtaken' \in BOOLEAN /\ collided' \in BOOLEAN
  BY Numbers DEF Die, TypeOK, history
<1>8. TypeOK'
  BY <1>3, <1>5, <1>6, <1>7 DEF TypeOK
<1>9. CyclesOK'
  BY DEF CyclesOK, CycleOK, Die, AtGPU, InEntry, Labels
<1> QED BY <1>8, <1>9 DEF IInv

\* A step of one cycle that keeps the shared variables.
LEMMA Quiet ==
  ASSUME IInv, NEW c \in Cycle, NEW label \in Labels, NEW l \in Locals,
         Goto(c, label, l), Local(c), CycleOK(label, l, arrays)
  PROVE  IInv'
<1>1. arrays' = arrays /\ SizesKept
  BY SameArrays DEF Local, tracked, IInv
<1>2. /\ pc' \in [Cycle -> Labels] /\ loc' \in [Cycle -> Locals]
      /\ CyclesOK'
  BY <1>1, Move DEF IInv
<1>3. TypeOK'
  BY <1>2 DEF IInv, TypeOK, Local, cluster, tracked, records, db, history
<1> QED BY <1>2, <1>3 DEF IInv

\* A step of one cycle that keeps the slice and its arrays.
LEMMA Near ==
  ASSUME IInv, NEW c \in Cycle, NEW label \in Labels, NEW l \in Locals,
         Goto(c, label, l), CycleOK(label, l, arrays), UNCHANGED <<cluster, tracked, overtaken>>,
         GPUPod' \in [GPU -> Seq(PodMetric)], GPUAssingment' \in [GPU -> Nat],
         GrpcGPUmpscount' \in [GPU -> Nat], TotalPodnum' \in Nat, analyzers' \in Nat,
         nodeRow' \in BOOLEAN, gpuRow' \in [GPU -> Nat], collided' \in BOOLEAN
  PROVE  IInv'
<1>1. arrays' = arrays /\ SizesKept
  BY SameArrays DEF tracked, IInv
<1>2. /\ pc' \in [Cycle -> Labels] /\ loc' \in [Cycle -> Locals]
      /\ CyclesOK'
  BY <1>1, Move DEF IInv
<1>3. TypeOK'
  BY <1>2 DEF IInv, TypeOK, cluster, tracked
<1> QED BY <1>2, <1>3 DEF IInv

-----------------------------------------------------------------------------
\* Gpumetric, up to the call of Gpumpsmetric.
LEMMA CountSteps ==
  ASSUME ConstantsAssumption, IInv, NEW c \in Cycle, InitFails(c) \/ InitCounts(c) \/ CheckPodmap(c)
  PROVE  IInv'
<1>0. TypeOK /\ NoLoc \in Locals /\ loc[c] \in Locals
  BY LocalsType DEF IInv
<1>1. CASE InitFails(c)
  <2>1. CycleOK("idle", NoLoc, arrays) /\ "idle" \in Labels
    BY DEF CycleOK, AtGPU, InEntry, Labels
  <2>2. Goto(c, "idle", NoLoc) /\ UNCHANGED <<cluster, tracked, records, analyzers, gpuRow, history>>
    BY <1>1 DEF InitFails
  <2>3. nodeRow' \in BOOLEAN
    BY <1>0, <1>1 DEF InitFails, WriteNodeRow, TypeOK
  <2> QED BY <1>0, <2>1, <2>2, <2>3, Near DEF TypeOK, records, history
<1>2. CASE InitCounts(c)
  <2> PICK n \in {0, NumGPU} : Goto(c, "loop", [NoLoc EXCEPT !.gpu = 1, !.count = n])
    BY <1>2 DEF InitCounts
  <2> DEFINE l == [NoLoc EXCEPT !.gpu = 1, !.count = n]
  <2>1. l \in Locals /\ l.gpu = 1
    <3>1. [NoLoc EXCEPT !.gpu = 1] \in Locals /\ [NoLoc EXCEPT !.gpu = 1].gpu = 1
      <4>1. 1 \in 0 .. NumGPU + 1
        BY Numbers
      <4> QED BY <1>0, <4>1, SetGpu
    <3> QED BY <3>1, SetCount, Zenon
  <2>2. Goto(c, "loop", l) /\ Local(c)
    BY <1>2 DEF InitCounts
  <2> HIDE DEF l
  <2>3. "loop" \in Labels /\ CycleOK("loop", l, arrays)
    BY <2>1 DEF CycleOK, AtGPU, InEntry, Labels
  <2> QED BY <2>1, <2>2, <2>3, Quiet
<1>3. CASE CheckPodmap(c)
  <2>1. 1 <= loc[c].gpu /\ loc[c].gpu <= loc[c].count
    BY <1>3 DEF CheckPodmap, CheckPodmapAgainst, IInv, CyclesOK, CycleOK
  <2>2. ASSUME NEW label \in {"append", "enter"}, Goto(c, label, loc[c])
        PROVE  IInv'
    <3>1. CycleOK(label, loc[c], arrays) /\ label \in Labels
      BY <2>1 DEF CycleOK, AtGPU, InEntry, Labels
    <3> QED BY <1>0, <1>3, <2>2, <3>1, Quiet DEF CheckPodmap, CheckPodmapAgainst
  <2> QED BY <1>3, <2>2 DEF CheckPodmap, CheckPodmapAgainst
<1> QED BY <1>1, <1>2, <1>3

\* The header that append loads is the slice's.
LEMMA LoadStep ==
  ASSUME ConstantsAssumption, IInv, NEW c \in Cycle, LoadPodmap(c)
  PROVE  IInv'
<1> DEFINE l1 == [loc[c] EXCEPT !.header = podmap]
           l  == [l1 EXCEPT !.arr = podmap.arr]
           label == IF podmap.len < Len(arrays[podmap.arr]) THEN "store" ELSE "grow"
<1>0. TypeOK /\ loc[c] \in Locals
  BY LocalsType DEF IInv
<1>1. l \in Locals /\ l.gpu = loc[c].gpu /\ l.count = loc[c].count /\ l.header = podmap
      /\ l.arr = podmap.arr
  <2>1. l1 \in Locals /\ l1.gpu = loc[c].gpu /\ l1.count = loc[c].count /\ l1.header = podmap
    BY <1>0, SliceType, SetHeader
  <2>2. podmap.arr \in Nat
    BY <1>0, SliceType
  <2> HIDE DEF l1
  <2>3. /\ l \in Locals /\ l.arr = podmap.arr /\ l.gpu = l1.gpu /\ l.count = l1.count
        /\ l.header = l1.header
    BY <2>1, <2>2, SetArr
  <2> QED BY <2>1, <2>3
<1>2. Goto(c, label, l) /\ Local(c)
  BY DEF LoadPodmap
<1>3. label \in {"grow", "store"} /\ label \in Labels
  BY DEF Labels
<1>4. CycleOK("append", loc[c], arrays)
  BY DEF LoadPodmap, IInv, CyclesOK
<1> HIDE DEF l
<1>5. CASE label = "store"
  <2>1. podmap.len + 1 <= Len(arrays[podmap.arr]) /\ podmap.arr \in DOMAIN arrays
    BY <1>0, <1>5, SliceType
  <2> HIDE DEF label
  <2>2. CycleOK("store", l, arrays)
    BY <1>1, <1>4, <2>1 DEF CycleOK, AtGPU, InEntry, Labels
  <2> QED BY <1>1, <1>2, <1>3, <1>5, <2>2, Quiet
<1>6. CASE label = "grow"
  <2>1. podmap.len <= Len(arrays[podmap.arr]) /\ podmap.arr \in DOMAIN arrays
    BY <1>0, SliceType
  <2> HIDE DEF label
  <2>2. CycleOK("grow", l, arrays)
    BY <1>1, <1>4, <2>1 DEF CycleOK, AtGPU, InEntry, Labels
  <2> QED BY <1>1, <1>2, <1>3, <1>6, <2>2, Quiet
<1> QED BY <1>3, <1>5, <1>6

\* Lemma: the new array of growslice holds the old one and has room behind it.
LEMMA GrowSays ==
  ASSUME ConstantsAssumption, IInv, NEW c \in Cycle, GrowPodmap(c)
  PROVE  /\ pc[c] = "grow" /\ Goto(c, "store", [loc[c] EXCEPT !.arr = Len(arrays) + 1])
         /\ SizesKept /\ Len(arrays') = Len(arrays) + 1
         /\ \A a \in DOMAIN arrays : arrays'[a] = arrays[a]
         /\ LET full == arrays[loc[c].arr]
                new  == arrays'[Len(arrays) + 1]
            IN  /\ loc[c].arr \in DOMAIN arrays /\ loc[c].header.len <= Len(full)
                /\ Len(new) >= Len(full) + 1
                /\ \A k \in 1 .. Len(new) : new[k] = IF k <= Len(full) THEN full[k] ELSE <<>>
         /\ UNCHANGED <<cluster, podmap, records, analyzers, db, history>>
<1> DEFINE full == arrays[loc[c].arr]
           room == IF full = <<>> THEN 1 ELSE Len(full)
           tail == [k \in 1 .. room |-> <<>>]
           new  == full \o tail
<1>1. pc[c] = "grow" /\ loc[c].arr \in DOMAIN arrays /\ loc[c].header.len <= Len(full)
  BY DEF GrowPodmap, IInv, CyclesOK, CycleOK
<1>2. /\ arrays \in Seq(Seq(Cids)) /\ Len(arrays) \in Nat /\ DOMAIN arrays = 1 .. Len(arrays)
      /\ full \in Seq(Cids) /\ Len(full) \in Nat
  BY <1>1, SliceType DEF IInv
<1>3. room \in Nat /\ room >= 1
  <2> HIDE DEF full
  <2>1. full # <<>> => Len(full) >= 1
    BY <1>2
  <2> QED BY <1>2, <2>1
<1>4. arrays' = Append(arrays, new)
  BY DEF GrowPodmap
<1>5. tail \in Seq(Cids) /\ Len(tail) = room /\ \A k \in 1 .. room : tail[k] = <<>>
  <2> HIDE DEF room
  <2>1. <<>> \in Cids
    BY DEF Cids
  <2> QED BY <1>3, <2>1
<1> HIDE DEF tail, full, room
<1>6. /\ new \in Seq(Cids) /\ Len(new) = Len(full) + room
      /\ \A k \in 1 .. Len(full) + room : new[k] = IF k <= Len(full) THEN full[k] ELSE tail[k - Len(full)]
  BY <1>2, <1>5, Concatenated
<1>7. \A k \in 1 .. Len(new) : new[k] = IF k <= Len(full) THEN full[k] ELSE <<>>
  <2> SUFFICES ASSUME NEW k \in 1 .. Len(new), ~(k <= Len(full))
               PROVE  new[k] = <<>>
    BY <1>6
  <2>1. k - Len(full) \in 1 .. room
    BY <1>2, <1>3, <1>6
  <2> QED BY <1>5, <1>6, <2>1
<1> HIDE DEF new
<1>8. /\ arrays' \in Seq(Seq(Cids)) /\ Len(arrays') = Len(arrays) + 1
      /\ arrays'[Len(arrays) + 1] = new /\ \A a \in DOMAIN arrays : arrays'[a] = arrays[a]
  BY <1>2, <1>4, <1>6
<1>9. DOMAIN arrays' = 1 .. Len(arrays) + 1
  BY <1>8
<1>10. \A a \in DOMAIN arrays : a \in DOMAIN arrays'
  BY <1>2, <1>9
<1>11. SizesKept
  BY <1>8, <1>10 DEF SizesKept
<1>12. Goto(c, "store", [loc[c] EXCEPT !.arr = Len(arrays) + 1])
  BY <1>8 DEF GrowPodmap
<1>13. UNCHANGED <<cluster, podmap, records, analyzers, db, history>>
  BY DEF GrowPodmap
<1>14. Len(new) >= Len(full) + 1
  BY <1>2, <1>3, <1>6
<1> QED BY <1>1, <1>7, <1>8, <1>11, <1>12, <1>13, <1>14 DEF full

\* The array of growslice is the cycle's own until it stores the header.
LEMMA GrowStep ==
  ASSUME ConstantsAssumption, IInv, NEW c \in Cycle, GrowPodmap(c)
  PROVE  IInv'
<1> DEFINE n == Len(arrays) + 1
           l == [loc[c] EXCEPT !.arr = n]
<1>0. TypeOK /\ loc[c] \in Locals /\ CycleOK("grow", loc[c], arrays)
  BY LocalsType DEF GrowPodmap, IInv, CyclesOK
<1>1. n \in Nat
  BY <1>0, SliceType
<1>2. l \in Locals /\ l.gpu = loc[c].gpu /\ l.count = loc[c].count /\ l.header = loc[c].header /\ l.arr = n
  BY <1>0, <1>1, SetArr
<1>3. Goto(c, "store", l) /\ SizesKept /\ UNCHANGED <<cluster, podmap, records, analyzers, db, history>>
  BY GrowSays, Zenon
<1> HIDE DEF l
<1>4. n \in DOMAIN arrays' /\ loc[c].header.len + 1 <= Len(arrays'[n])
  <2>1. Len(arrays') = n /\ arrays' \in Seq(Seq(Cids))
    BY GrowSays DEF SizesKept
  <2>2. loc[c].header.len <= Len(arrays[loc[c].arr]) /\ Len(arrays'[n]) >= Len(arrays[loc[c].arr]) + 1
        /\ loc[c].arr \in DOMAIN arrays
    BY GrowSays
  <2>3. loc[c].header.len \in Nat /\ Len(arrays[loc[c].arr]) \in Nat
    BY <1>0, <2>2, LocalsType, SliceType
  <2>4. n \in DOMAIN arrays' /\ n >= 1
    BY <1>1, <2>1, SliceType, <1>0
  <2>5. Len(arrays'[n]) \in Nat
    BY <2>1, <2>4
  <2> QED BY <2>2, <2>3, <2>4, <2>5
<1> HIDE DEF n
<1>5. CycleOK("store", l, arrays') /\ "store" \in Labels
  BY <1>0, <1>2, <1>4 DEF CycleOK, AtGPU, InEntry, Labels
<1>6. /\ pc' \in [Cycle -> Labels] /\ loc' \in [Cycle -> Locals]
      /\ CyclesOK'
  BY <1>0, <1>2, <1>3, <1>5, Move DEF IInv
<1>7. podmap'.arr \in DOMAIN arrays' /\ podmap'.len <= Len(arrays'[podmap'.arr])
  BY <1>0, <1>3, SliceType DEF SizesKept
<1>8. TypeOK'
  BY <1>0, <1>3, <1>6, <1>7 DEF TypeOK, SizesKept, Cids, cluster, records, db, history
<1> QED BY <1>6, <1>8 DEF IInv

\* The header stored lies within the array it was made for.
LEMMA StoreStep ==
  ASSUME ConstantsAssumption, IInv, NEW c \in Cycle, StorePodmap(c)
  PROVE  IInv'
<1>0. TypeOK /\ loc[c] \in Locals /\ CycleOK("store", loc[c], arrays)
  BY LocalsType DEF StorePodmap, IInv, CyclesOK
<1>1. /\ Goto(c, "clear", loc[c]) /\ arrays' = arrays /\ SizesKept
      /\ podmap' = [arr |-> loc[c].arr, len |-> loc[c].header.len + 1]
      /\ overtaken' = (overtaken \/ podmap # loc[c].header)
      /\ UNCHANGED <<cluster, records, analyzers, db, collided>>
  BY <1>0, SameArrays DEF StorePodmap
<1>2. CycleOK("clear", loc[c], arrays') /\ "clear" \in Labels
  BY <1>0, <1>1 DEF CycleOK, AtGPU, InEntry, Labels
<1>3. /\ pc' \in [Cycle -> Labels] /\ loc' \in [Cycle -> Locals]
      /\ CyclesOK'
  BY <1>0, <1>1, <1>2, Move DEF IInv
<1>4. podmap' \in Header /\ podmap'.arr \in DOMAIN arrays' /\ podmap'.len <= Len(arrays'[podmap'.arr])
  <2>1. loc[c].arr \in Nat /\ loc[c].header.len + 1 \in Nat
    BY <1>0, LocalsType
  <2>2. loc[c].arr \in DOMAIN arrays /\ loc[c].header.len + 1 <= Len(arrays[loc[c].arr])
    BY <1>0 DEF CycleOK
  <2> QED BY <1>1, <2>1, <2>2 DEF Header
<1>5. overtaken' \in BOOLEAN
  BY <1>0, <1>1, Zenon DEF TypeOK
<1>6. TypeOK'
  BY <1>0, <1>1, <1>3, <1>4, <1>5 DEF TypeOK, cluster, records, db
<1> QED BY <1>3, <1>6 DEF IInv

\* Lemma: the cell cleared is in its array.
LEMMA ClearSays ==
  ASSUME ConstantsAssumption, IInv, NEW c \in Cycle, ClearEntry(c)
  PROVE  LET a == loc[c].arr
             k == loc[c].header.len + 1
         IN  /\ pc[c] = "clear" /\ Goto(c, "enter", loc[c])
             /\ a \in DOMAIN arrays /\ k \in 1 .. Len(arrays[a])
             /\ SizesKept /\ DOMAIN arrays' = DOMAIN arrays
             /\ \A b \in DOMAIN arrays \ {a} : arrays'[b] = arrays[b]
             /\ \A i \in 1 .. Len(arrays[a]) : arrays'[a][i] = IF i = k THEN <<>> ELSE arrays[a][i]
             /\ UNCHANGED <<cluster, podmap, records, analyzers, db, history>>
<1> DEFINE a == loc[c].arr
           k == loc[c].header.len + 1
<1>1. pc[c] = "clear" /\ a \in DOMAIN arrays /\ k <= Len(arrays[a]) /\ TypeOK
  BY DEF ClearEntry, IInv, CyclesOK, CycleOK
<1>2. k \in 1 .. Len(arrays[a])
  BY <1>1, LocalsType, SliceType
<1>3. <<>> \in Cids
  BY DEF Cids
<1>4. arrays' = Put(a, k, <<>>)
  BY DEF ClearEntry, Put
<1>5. /\ SizesKept /\ DOMAIN arrays' = DOMAIN arrays
      /\ \A b \in DOMAIN arrays \ {a} : arrays'[b] = arrays[b]
      /\ \A i \in 1 .. Len(arrays[a]) : arrays'[a][i] = IF i = k THEN <<>> ELSE arrays[a][i]
  <2> HIDE DEF a, k
  <2> QED BY <1>1, <1>2, <1>3, <1>4, PutCell
<1>6. Goto(c, "enter", loc[c]) /\ UNCHANGED <<cluster, podmap, records, analyzers, db, history>>
  BY DEF ClearEntry
<1> QED BY <1>1, <1>2, <1>5, <1>6

\* Clearing it keeps the types.
LEMMA ClearStep ==
  ASSUME ConstantsAssumption, IInv, NEW c \in Cycle, ClearEntry(c)
  PROVE  IInv'
<1>0. TypeOK /\ loc[c] \in Locals /\ CycleOK("clear", loc[c], arrays)
  BY LocalsType DEF ClearEntry, IInv, CyclesOK
<1>1. /\ Goto(c, "enter", loc[c]) /\ SizesKept
      /\ UNCHANGED <<cluster, podmap, records, analyzers, db, history>>
  BY ClearSays
<1>2. CycleOK("enter", loc[c], arrays') /\ "enter" \in Labels
  BY <1>0 DEF CycleOK, AtGPU, InEntry, Labels
<1>3. /\ pc' \in [Cycle -> Labels] /\ loc' \in [Cycle -> Locals]
      /\ CyclesOK'
  BY <1>0, <1>1, <1>2, Move DEF IInv
<1>4. podmap'.arr \in DOMAIN arrays' /\ podmap'.len <= Len(arrays'[podmap'.arr])
  BY <1>0, <1>1, SliceType DEF SizesKept
<1>5. TypeOK'
  BY <1>0, <1>1, <1>3, <1>4 DEF TypeOK, SizesKept, Cids, cluster, records, db, history
<1> QED BY <1>3, <1>5 DEF IInv

\* podmap[i], the GPU list and NVML may end the process; otherwise the list is reset.
LEMMA EnterStep ==
  ASSUME ConstantsAssumption, IInv, NEW c \in Cycle, EnterGPU(c)
  PROVE  IInv'
<1>0. loc[c] \in Locals /\ TypeOK /\ CycleOK("enter", loc[c], arrays)
  BY LocalsType DEF EnterGPU, EnterGPUWith, IInv, CyclesOK
<1>1. CASE Die("fatal") \/ Die("podmap") \/ Die("boot")
  BY <1>0, <1>1, DieKeeps DEF Exits
<1>2. CASE ~(Die("fatal") \/ Die("podmap") \/ Die("boot"))
  <2>1. /\ Goto(c, "point", loc[c])
        /\ GPUPod' = [GPUPod EXCEPT ![loc[c].gpu] = <<>>]
        /\ UNCHANGED <<cluster, tracked, GPUAssingment, GrpcGPUmpscount, TotalPodnum, analyzers, db, history>>
    BY <1>2 DEF EnterGPU, EnterGPUWith
  <2>2. "point" \in Labels /\ CycleOK("point", loc[c], arrays)
    BY <1>0 DEF Labels, CycleOK, AtGPU, InEntry
  <2>3. <<>> \in Seq(PodMetric)
    OBVIOUS
  <2>4. GPUPod' \in [GPU -> Seq(PodMetric)]
    BY <1>0, <2>1, <2>3 DEF TypeOK
  <2> QED BY <1>0, <2>1, <2>2, <2>4, Near DEF TypeOK, db, history
<1> QED BY <1>1, <1>2

\* Lemma: the argument points to the entry podmap has now.
LEMMA PointSays ==
  ASSUME ConstantsAssumption, IInv, NEW c \in Cycle, PointToEntry(c), ~Die("podmap")
  PROVE  /\ pc[c] = "point" /\ Local(c) /\ loc[c].gpu <= podmap.len
         /\ \E l \in Locals :
              /\ Goto(c, "read", l) /\ l.gpu = loc[c].gpu /\ l.count = loc[c].count
              /\ l.arr = podmap.arr /\ l.tries = 0 /\ l.procs = loc[c].procs /\ l.pods = loc[c].pods
<1> DEFINE l1 == [loc[c] EXCEPT !.header = Nil]
           l2 == [l1 EXCEPT !.arr = podmap.arr]
           l  == [l2 EXCEPT !.tries = 0]
<1>0. TypeOK /\ loc[c] \in Locals /\ podmap.arr \in Nat /\ Nil \in Header
  BY LocalsType, SliceType DEF IInv, Nil, Header
<1>1. /\ pc[c] = "point" /\ Local(c) /\ loc[c].gpu <= podmap.len
      /\ Goto(c, "read", l)
  BY DEF PointToEntry
<1>2. l1 \in Locals /\ l1.gpu = loc[c].gpu /\ l1.count = loc[c].count
      /\ l1.procs = loc[c].procs /\ l1.pods = loc[c].pods
  BY <1>0, SetHeader
<1> HIDE DEF l1
<1>3. l2 \in Locals /\ l2.gpu = l1.gpu /\ l2.count = l1.count /\ l2.arr = podmap.arr
      /\ l2.procs = l1.procs /\ l2.pods = l1.pods
  BY <1>0, <1>2, SetArr
<1> HIDE DEF l2
<1>4. 0 \in 0 .. MaxTries
  BY Numbers
<1>5. l \in Locals /\ l.gpu = l2.gpu /\ l.count = l2.count /\ l.arr = l2.arr /\ l.tries = 0
      /\ l.procs = l2.procs /\ l.pods = l2.pods
  BY <1>3, <1>4, SetTries, Zenon
<1> QED BY <1>1, <1>2, <1>3, <1>5

\* The entry a cycle points to is in the array.
LEMMA PointStep ==
  ASSUME ConstantsAssumption, IInv, NEW c \in Cycle, PointToEntry(c)
  PROVE  IInv'
<1>0. TypeOK /\ loc[c] \in Locals /\ CycleOK("point", loc[c], arrays)
  BY LocalsType DEF PointToEntry, IInv, CyclesOK
<1>1. CASE Die("podmap")
  BY <1>0, <1>1, DieKeeps DEF Exits
<1>2. CASE ~Die("podmap")
  <2>1. /\ Local(c) /\ loc[c].gpu <= podmap.len
    BY <1>2, PointSays
  <2>2. PICK l \in Locals : /\ Goto(c, "read", l) /\ l.gpu = loc[c].gpu /\ l.count = loc[c].count
                            /\ l.arr = podmap.arr /\ l.tries = 0
    BY <1>2, PointSays
  <2>3. podmap.arr \in DOMAIN arrays /\ loc[c].gpu <= Len(arrays[podmap.arr])
    BY <1>0, <2>1, SliceType, LocalsType
  <2>4. 0 < MaxTries
    BY Numbers
  <2>5. "read" \in Labels /\ CycleOK("read", l, arrays)
    BY <1>0, <2>2, <2>3, <2>4 DEF CycleOK, AtGPU, InEntry, Labels
  <2> QED BY <2>1, <2>2, <2>5, Quiet
<1> QED BY <1>1, <1>2

-----------------------------------------------------------------------------
\* Gpumpsmetric: the two lists.
LEMMA ReadStep ==
  ASSUME ConstantsAssumption, IInv, NEW c \in Cycle, ReadProcesses(c)
  PROVE  IInv'
<1>0. TypeOK /\ loc[c] \in Locals /\ CycleOK("read", loc[c], arrays)
  BY LocalsType DEF ReadProcesses, ReadProcessesAt, IInv, CyclesOK
<1>1. PICK s \in Snapshots :
        IF Depth4 \in Range(s[1])
          THEN Die("index")
          ELSE /\ Goto(c, "list", [loc[c] EXCEPT !.tries = loc[c].tries + 1, !.procs = s[1]])
               /\ Local(c)
  BY DEF ReadProcesses, ReadProcessesAt
<1>2. CASE Die("index")
  BY <1>0, <1>2, DieKeeps DEF Exits
<1>3. CASE ~Die("index")
  <2> DEFINE l1 == [loc[c] EXCEPT !.tries = loc[c].tries + 1]
             l  == [l1 EXCEPT !.procs = s[1]]
  <2>1. Goto(c, "list", l) /\ Local(c)
    BY <1>1, <1>3
  <2>2. loc[c].tries + 1 \in 0 .. MaxTries /\ s[1] \in Seq(Process)
    BY <1>0, LocalsType, Numbers DEF CycleOK, ConstantsAssumption
  <2>3. l1 \in Locals /\ l1.gpu = loc[c].gpu /\ l1.count = loc[c].count /\ l1.arr = loc[c].arr
    BY <1>0, <2>2, SetTries
  <2> HIDE DEF l1
  <2>4. l \in Locals /\ l.gpu = l1.gpu /\ l.count = l1.count /\ l.arr = l1.arr
    BY <2>2, <2>3, SetProcs
  <2> HIDE DEF l
  <2>5. "read" \in InEntry /\ "list" \in InEntry /\ "list" \in Labels
    BY DEF InEntry, Labels
  <2>6. CycleOK("list", l, arrays)
    BY <1>0, <2>3, <2>4, <2>5, Onward
  <2> QED BY <2>1, <2>4, <2>5, <2>6, Quiet
<1> QED BY <1>2, <1>3

\* The search ends with the lists, with none, or goes on while attempts are left.
LEMMA ListStep ==
  ASSUME ConstantsAssumption, IInv, NEW c \in Cycle, ListPods(c)
  PROVE  IInv'
<1>0. TypeOK /\ loc[c] \in Locals /\ CycleOK("list", loc[c], arrays)
  BY LocalsType DEF ListPods, IInv, CyclesOK
<1>1. CASE Die("fatal") \/ Die("index")
  BY <1>0, <1>1, DieKeeps DEF Exits
<1>2. CASE ~(Die("fatal") \/ Die("index"))
  <2>0. "list" \in InEntry /\ "map" \in InEntry /\ "read" \in InEntry /\ "map" \in Labels /\ "read" \in Labels
    BY DEF InEntry, Labels
  <2>1. PICK s \in Snapshots :
          IF Accepted(s[2], mpscount(s[1]))
            THEN /\ Goto(c, "map", [loc[c] EXCEPT !.pods = s[2], !.j = 1])
                 /\ Local(c)
            ELSE /\ IF (Len(s[2]) = 0 /\ mpscount(s[1]) = 0) \/ loc[c].tries = MaxTries
                      THEN Goto(c, "map", [loc[c] EXCEPT !.pods = <<>>, !.j = 1])
                      ELSE Goto(c, "read", loc[c])
                 /\ Local(c)
    BY <1>2, Zenon DEF ListPods
  <2>2. s[2] \in Seq(Pod) /\ <<>> \in Seq(Pod)
    BY DEF ConstantsAssumption
  <2>3. ASSUME NEW pods \in Seq(Pod),
               Goto(c, "map", [loc[c] EXCEPT !.pods = pods, !.j = 1]), Local(c)
        PROVE  IInv'
    <3> DEFINE l1 == [loc[c] EXCEPT !.pods = pods]
               l  == [l1 EXCEPT !.j = 1]
    <3>1. l1 \in Locals /\ l1.gpu = loc[c].gpu /\ l1.count = loc[c].count /\ l1.arr = loc[c].arr
      BY <1>0, SetPods
    <3>2. Goto(c, "map", l)
      BY <2>3
    <3> HIDE DEF l1
    <3>3. 1 \in Nat
      OBVIOUS
    <3>4. l \in Locals /\ l.gpu = l1.gpu /\ l.count = l1.count /\ l.arr = l1.arr /\ l.j = 1
      BY <3>1, <3>3, SetJ
    <3> HIDE DEF l
    <3>5. CycleOK("map", l, arrays)
      BY <1>0, <2>0, <3>1, <3>4, Onward
    <3> QED BY <2>0, <2>3, <3>2, <3>4, <3>5, Quiet
  <2>4. ASSUME loc[c].tries # MaxTries, Goto(c, "read", loc[c]), Local(c)
        PROVE  IInv'
    <3>1. loc[c].tries < MaxTries
      BY <1>0, <2>4, LocalsType, Numbers
    <3>2. CycleOK("read", loc[c], arrays)
      BY <1>0, <2>0, <3>1, Onward
    <3> QED BY <1>0, <2>0, <2>4, <3>2, Quiet
  <2> QED BY <2>1, <2>2, <2>3, <2>4, Zenon
<1> QED BY <1>1, <1>2

-----------------------------------------------------------------------------
\* Gpumpsmetric: mapping.

\* Lemma: where the container first stands in the process list, it stands.
LEMMA FirstIsMatch ==
  ASSUME TypeOK, NEW c \in Cycle, Matches(c) # {}
  PROVE  FirstMatch(c) \in Matches(c)
<1>1. loc[c].procs \in Seq(Process)
  BY DEF TypeOK, Locals
<1>2. Matches(c) \subseteq Nat
  BY <1>1 DEF Matches
<1>3. \E m \in Matches(c) : \A k \in Matches(c) : m <= k
  <2> DEFINE R == OpToRel(<, Nat)
  <2>1. \A x, y \in Nat : <<y, x>> \in R <=> y < x
    BY DEF OpToRel
  <2>2. IsWellFoundedOn(R, Nat)
    BY NatLessThanWellFounded
  <2> HIDE DEF R
  <2>3. PICK m \in Matches(c) : \A k \in Matches(c) : ~(<<k, m>> \in R)
    BY <1>2, <2>2, WFMin
  <2>4. ASSUME NEW k \in Matches(c)
        PROVE  m <= k
    <3>1. ~(<<k, m>> \in R) /\ k \in Nat /\ m \in Nat
      BY <1>2, <2>3
    <3>2. ~(k < m)
      BY <2>1, <3>1, Zenon
    <3> QED BY <3>1, <3>2
  <2> QED BY <2>4, Zenon
<1> QED BY <1>3 DEF FirstMatch

\* The place of a container among the processes in kubepods is the place of a process.
LEMMA PositionType ==
  ASSUME ConstantsAssumption, TypeOK, NEW c \in Cycle, Matches(c) # {},
         loc[c].pods[loc[c].j] \in Container
  PROVE  Position(c) \in 1 .. Len(loc[c].procs)
<1> DEFINE n == FirstMatch(c)
           T == {m \in 1 .. n : InKubepods(loc[c].procs[m])}
<1>1. loc[c].procs \in Seq(Process)
  BY DEF TypeOK, Locals
<1>2. Matches(c) \in SUBSET (1 .. Len(loc[c].procs)) /\ Len(loc[c].procs) \in Nat
  BY <1>1 DEF Matches
<1>3. n \in Matches(c) /\ n \in 1 .. Len(loc[c].procs)
  BY <1>2, FirstIsMatch
<1>4. n \in T
  <2>1. loc[c].procs[n] \in Container
    BY <1>3 DEF Matches
  <2>2. InKubepods(loc[c].procs[n])
    BY <2>1 DEF InKubepods, ConstantsAssumption
  <2> QED BY <1>3, <2>2
<1> HIDE DEF n
<1>5. IsFiniteSet(1 .. n) /\ Cardinality(1 .. n) = n
  BY <1>2, <1>3, FS_Interval
<1>6. T \in SUBSET (1 .. n)
  OBVIOUS
<1>7. Cardinality(T) \in Nat /\ Cardinality(T) <= n
  BY <1>5, <1>6, FS_Subset, FS_CardinalityType
<1>8. IsFiniteSet(T) /\ Cardinality(T) # 0
  BY <1>4, <1>5, <1>6, FS_Subset, FS_EmptySet
<1>9. Position(c) = Cardinality(T)
  BY DEF Position, n
<1> QED BY <1>2, <1>3, <1>7, <1>8, <1>9

\* Lemma: a step that moves the cycle's index, to the same GPU's next place.
LEMMA NewPlace ==
  ASSUME ConstantsAssumption, IInv, NEW c \in Cycle, pc[c] \in {"map", "track", "count", "rows"},
         NEW label \in {"map", "track", "rows"}, NEW n \in Nat, n >= 1
  PROVE  /\ [loc[c] EXCEPT !.j = n] \in Locals /\ label \in Labels
         /\ CycleOK(label, [loc[c] EXCEPT !.j = n], arrays)
<1> DEFINE l == [loc[c] EXCEPT !.j = n]
<1>1. loc[c] \in Locals /\ CycleOK(pc[c], loc[c], arrays)
  BY LocalsType DEF IInv, CyclesOK
<1>2. l \in Locals /\ l.gpu = loc[c].gpu /\ l.count = loc[c].count /\ l.arr = loc[c].arr /\ l.j = n
  BY <1>1, SetJ
<1> HIDE DEF l
<1>3. pc[c] \in InEntry /\ label \in InEntry /\ label # "read" /\ label \in Labels
  BY DEF InEntry, Labels
<1>4. CycleOK(label, l, arrays)
  BY <1>1, <1>2, <1>3, Onward
<1> QED BY <1>2, <1>3, <1>4 DEF l

\* Lemma: where a cycle in an entry is.
LEMMA InsideType ==
  ASSUME ConstantsAssumption, IInv, NEW c \in Cycle, pc[c] \in InEntry
  PROVE  /\ TypeOK /\ loc[c] \in Locals /\ loc[c].gpu \in GPU
         /\ loc[c].arr \in DOMAIN arrays /\ loc[c].gpu \in 1 .. Len(arrays[loc[c].arr])
         /\ GPUPod[loc[c].gpu] \in Seq(PodMetric) /\ Listed(c) \in Seq(PodMetric)
         /\ Len(Listed(c)) \in Nat /\ Len(loc[c].pods) \in Nat
         /\ loc[c].j \in Nat /\ loc[c].pods \in Seq(Pod) /\ loc[c].procs \in Seq(Process)
<1>1. TypeOK /\ CycleOK(pc[c], loc[c], arrays) /\ pc[c] \in AtGPU
  BY DEF IInv, CyclesOK, AtGPU, InEntry, Labels
<1>2. /\ loc[c] \in Locals /\ loc[c].gpu \in Nat /\ loc[c].count <= NumGPU /\ loc[c].count \in Nat
      /\ loc[c].j \in Nat /\ loc[c].pods \in Seq(Pod) /\ loc[c].procs \in Seq(Process)
  BY <1>1, LocalsType
<1>3. loc[c].gpu >= 1 /\ loc[c].gpu <= loc[c].count
      /\ loc[c].arr \in DOMAIN arrays /\ loc[c].gpu <= Len(arrays[loc[c].arr])
  BY <1>1 DEF CycleOK
<1>4. loc[c].gpu \in GPU /\ loc[c].gpu \in 1 .. Len(arrays[loc[c].arr])
  BY <1>1, <1>2, <1>3, Numbers, SliceType DEF GPU
<1>5. GPUPod[loc[c].gpu] \in Seq(PodMetric)
  BY <1>1, <1>4 DEF TypeOK
<1> QED BY <1>1, <1>2, <1>3, <1>4, <1>5 DEF Listed

\* An entry written to GPUPod is a PodMetric of a process that was listed.
LEMMA MapStep ==
  ASSUME ConstantsAssumption, IInv, NEW c \in Cycle, MapPod(c)
  PROVE  IInv'
<1> DEFINE g     == loc[c].gpu
           j     == loc[c].j
           entry == [cid |-> loc[c].pods[j], owner |-> loc[c].procs[Position(c)]]
           grown == Append(GPUPod[g], Blank)
<1>0. /\ TypeOK /\ loc[c] \in Locals /\ pc[c] = "map" /\ CycleOK("map", loc[c], arrays)
      /\ j <= Len(loc[c].pods) /\ Matches(c) # {}
  BY LocalsType DEF MapPod, IInv, CyclesOK
<1>1. CASE Die("index")
  BY <1>0, <1>1, DieKeeps DEF Exits
<1>2. CASE ~Die("index")
  <2>1. /\ j <= Len(grown)
        /\ GPUPod' = [GPUPod EXCEPT ![g] = [grown EXCEPT ![j] = entry]]
        /\ UNCHANGED <<GPUAssingment, GrpcGPUmpscount, TotalPodnum>>
        /\ Goto(c, "map", [loc[c] EXCEPT !.j = loc[c].j + 1])
        /\ UNCHANGED <<cluster, tracked, analyzers, db, history>>
    <3>1. IF j > Len(grown)
            THEN Die("index")
            ELSE /\ SetGPUPod(c, [grown EXCEPT ![j] = entry])
                 /\ Goto(c, "map", [loc[c] EXCEPT !.j = @ + 1])
                 /\ UNCHANGED <<cluster, tracked, analyzers, db, history>>
      BY DEF MapPod
    <3>2. GPUPod[g] \in Seq(PodMetric) /\ j \in Nat
      BY <1>0, InsideType DEF InEntry
    <3> QED BY <1>2, <3>1, <3>2 DEF SetGPUPod
  <2>2. g \in GPU /\ j \in Nat /\ j >= 1
    <3>1. g \in GPU /\ j \in Nat
      BY <1>0, InsideType DEF InEntry
    <3> QED BY <1>0, <3>1 DEF CycleOK
  <2>3. entry \in PodMetric
    <3>1. loc[c].procs \in Seq(Process) /\ loc[c].pods \in Seq(Pod)
      BY <1>0, LocalsType
    <3>2. PICK m \in DOMAIN loc[c].procs : loc[c].procs[m] = loc[c].pods[j]
      BY <1>0 DEF Matches
    <3>3. loc[c].pods[j] \in Process /\ loc[c].pods[j] \in Pod
      <4>1. j \in 1 .. Len(loc[c].pods)
        BY <1>0, <2>2, <3>1
      <4> QED BY <3>1, <3>2, <4>1
    <3>4. loc[c].pods[j] \in Container
      BY <3>3 DEF Process, Pod, Host, Shallow, Depth4, NotRunning
    <3>5. Position(c) \in 1 .. Len(loc[c].procs)
      BY <1>0, <3>4, PositionType
    <3>6. loc[c].procs[Position(c)] \in Process
      BY <3>1, <3>5
    <3> QED BY <3>4, <3>6 DEF PodMetric
  <2>4. GPUPod' \in [GPU -> Seq(PodMetric)]
    <3>1. Blank \in PodMetric /\ GPUPod \in [GPU -> Seq(PodMetric)]
      BY <1>0 DEF Blank, PodMetric, TypeOK
    <3>2. grown \in Seq(PodMetric)
      BY <2>2, <3>1
    <3> HIDE DEF grown, entry
    <3>3. [grown EXCEPT ![j] = entry] \in Seq(PodMetric)
      BY <2>1, <2>2, <2>3, <3>2
    <3> QED BY <2>1, <3>1, <3>3
  <2> DEFINE l == [loc[c] EXCEPT !.j = loc[c].j + 1]
  <2>5. l \in Locals /\ "map" \in Labels /\ CycleOK("map", l, arrays)
    <3>1. j + 1 \in Nat /\ j + 1 >= 1
      BY <2>2
    <3> HIDE DEF l
    <3> QED BY <1>0, <3>1, NewPlace DEF l
  <2>6. Goto(c, "map", l)
    BY <2>1
  <2> HIDE DEF l, entry, grown, g, j
  <2> QED BY <1>0, <2>1, <2>4, <2>5, <2>6, Near DEF TypeOK, db, history
<1> QED BY <1>1, <1>2

\* SkipPod and MapDone change the place in the loop only.
LEMMA WalkSteps ==
  ASSUME ConstantsAssumption, IInv, NEW c \in Cycle, SkipPod(c) \/ MapDone(c)
  PROVE  IInv'
<1>0. pc[c] = "map" /\ loc[c].j \in Nat /\ loc[c].j + 1 \in Nat /\ loc[c].j + 1 >= 1 /\ Local(c)
  BY LocalsType DEF SkipPod, MapDone, IInv
<1>1. CASE SkipPod(c)
  <2>1. Goto(c, "map", [loc[c] EXCEPT !.j = loc[c].j + 1])
    BY <1>1 DEF SkipPod
  <2> QED BY <1>0, <2>1, NewPlace, Quiet
<1>2. CASE MapDone(c)
  <2>1. Goto(c, "track", [loc[c] EXCEPT !.j = 1])
    BY <1>2 DEF MapDone
  <2>2. 1 \in Nat /\ 1 >= 1
    OBVIOUS
  <2>3. /\ [loc[c] EXCEPT !.j = 1] \in Locals /\ "track" \in Labels
        /\ CycleOK("track", [loc[c] EXCEPT !.j = 1], arrays)
    BY <1>0, <2>2, NewPlace, Zenon
  <2> QED BY <1>0, <2>1, <2>3, Quiet
<1> QED BY <1>1, <1>2

-----------------------------------------------------------------------------
\* Gpumpsmetric: tracking and the rows.

\* A walk of the tracking or row loop that only moves j or saves the counter.
LEMMA TrackSteps ==
  ASSUME ConstantsAssumption, IInv, NEW c \in Cycle,
         TrackLookup(c) \/ TrackDone(c) \/ WritePodRow(c)
  PROVE  IInv'
<1>0. /\ pc[c] \in {"track", "rows"} /\ CycleOK(pc[c], loc[c], arrays)
      /\ TypeOK /\ loc[c].j \in Nat /\ loc[c].j + 1 \in Nat /\ loc[c].j + 1 >= 1
  BY LocalsType DEF TrackLookup, TrackDone, TrackDoneAfter, WritePodRow, IInv, CyclesOK
<1>1. ASSUME NEW label \in {"track", "rows"}, NEW n \in Nat, n >= 1,
             Goto(c, label, [loc[c] EXCEPT !.j = n]), Local(c)
      PROVE  IInv'
  BY <1>0, <1>1, NewPlace, Quiet
<1>2. CASE TrackLookup(c)
  <2>0. Local(c) /\ pc[c] = "track"
    BY <1>2 DEF TrackLookup
  <2>1. CASE Goto(c, "track", [loc[c] EXCEPT !.j = loc[c].j + 1])
    BY <1>0, <1>1, <2>0, <2>1
  <2>2. CASE Goto(c, "count", [loc[c] EXCEPT !.value = GPUAssingment[loc[c].gpu]])
    <3> DEFINE n == GPUAssingment[loc[c].gpu]
               l == [loc[c] EXCEPT !.value = n]
    <3>1. n \in Nat
      BY <1>0, <2>0, InsideType DEF TypeOK, InEntry
    <3>2. Goto(c, "count", l) /\ loc[c] \in Locals
      BY <1>0, <2>2, LocalsType
    <3> HIDE DEF n
    <3>3. l \in Locals /\ l.gpu = loc[c].gpu /\ l.count = loc[c].count /\ l.arr = loc[c].arr /\ l.j = loc[c].j
      BY <3>1, <3>2, SetValue
    <3> HIDE DEF l
    <3>4. "track" \in InEntry /\ "count" \in InEntry /\ "count" \in Labels /\ 1 <= loc[c].j
      BY <1>0 DEF InEntry, Labels, CycleOK
    <3>5. CycleOK("count", l, arrays)
      BY <1>0, <2>0, <3>3, <3>4, Onward
    <3> QED BY <2>0, <3>2, <3>3, <3>4, <3>5, Quiet
  <2> QED BY <1>2, <2>1, <2>2 DEF TrackLookup
<1>3. CASE TrackDone(c)
  <2>1. Goto(c, "rows", [loc[c] EXCEPT !.j = 1]) /\ Local(c)
    BY <1>3 DEF TrackDone, TrackDoneAfter
  <2>2. 1 \in Nat /\ 1 >= 1
    OBVIOUS
  <2> QED BY <1>1, <2>1, <2>2, Zenon
<1>4. CASE WritePodRow(c)
  <2>1. CASE Die("index")
    BY <1>0, <2>1, DieKeeps DEF Exits
  <2>2. CASE Goto(c, "rows", [loc[c] EXCEPT !.j = loc[c].j + 1]) /\ Local(c)
    BY <1>0, <1>1, <2>2
  <2> QED BY <1>4, <2>1, <2>2 DEF WritePodRow
<1> QED BY <1>2, <1>3, <1>4

\* Lemma: a new container goes to the cell the cycle points to.
LEMMA TrackNewSays ==
  ASSUME ConstantsAssumption, IInv, NEW c \in Cycle, TrackNew(c), ~Die("index")
  PROVE  LET a   == loc[c].arr
             g   == loc[c].gpu
             cid == Listed(c)[loc[c].j].cid
         IN  /\ pc[c] = "count" /\ loc[c].j \in 1 .. Len(Listed(c)) /\ cid \in Container \cup {"none"}
             /\ a \in DOMAIN arrays /\ g \in 1 .. Len(arrays[a])
             /\ SizesKept /\ DOMAIN arrays' = DOMAIN arrays
             /\ \A b \in DOMAIN arrays \ {a} : arrays'[b] = arrays[b]
             /\ \A i \in 1 .. Len(arrays[a]) :
                  arrays'[a][i] = IF i = g THEN arrays[a][g] \o << cid >> ELSE arrays[a][i]
             /\ GPUAssingment' = [GPUAssingment EXCEPT ![g] = loc[c].value + 1]
             /\ Goto(c, "track", [loc[c] EXCEPT !.j = loc[c].j + 1])
             /\ UNCHANGED <<cluster, podmap, GPUPod, GrpcGPUmpscount, TotalPodnum, analyzers, db, history>>
<1> DEFINE a   == loc[c].arr
           g   == loc[c].gpu
           cid == Listed(c)[loc[c].j].cid
           v   == arrays[a][g] \o << cid >>
<1>1. /\ pc[c] = "count" /\ ~(loc[c].j > Len(Listed(c)))
      /\ GPUAssingment' = [GPUAssingment EXCEPT ![g] = loc[c].value + 1]
      /\ arrays' = Put(a, g, v)
      /\ Goto(c, "track", [loc[c] EXCEPT !.j = loc[c].j + 1])
      /\ UNCHANGED <<cluster, podmap, GPUPod, GrpcGPUmpscount, TotalPodnum, analyzers, db, history>>
  BY DEF TrackNew, TrackNewWith, Put
<1>2. /\ a \in DOMAIN arrays /\ g \in 1 .. Len(arrays[a]) /\ TypeOK
      /\ Listed(c) \in Seq(PodMetric) /\ loc[c].j \in Nat /\ Len(Listed(c)) \in Nat
  BY <1>1, InsideType DEF InEntry
<1>3. loc[c].j >= 1
  BY <1>1 DEF IInv, CyclesOK, CycleOK
<1>4. loc[c].j \in 1 .. Len(Listed(c))
  BY <1>1, <1>2, <1>3
<1>5. cid \in Container \cup {"none"}
  <2>1. Listed(c)[loc[c].j] \in PodMetric
    BY <1>2, <1>4
  <2> QED BY <2>1 DEF PodMetric
<1>6. v \in Cids
  <2>1. arrays[a] \in Seq(Cids)
    BY <1>2, SliceType
  <2>2. arrays[a][g] \in Seq(Container \cup {"none"})
    BY <1>2, <2>1 DEF Cids
  <2> HIDE DEF cid
  <2> QED BY <1>5, <2>2 DEF Cids
<1>7. /\ SizesKept /\ DOMAIN arrays' = DOMAIN arrays
      /\ \A b \in DOMAIN arrays \ {a} : arrays'[b] = arrays[b]
      /\ \A i \in 1 .. Len(arrays[a]) : arrays'[a][i] = IF i = g THEN v ELSE arrays[a][i]
  <2> HIDE DEF a, g, v
  <2> QED BY <1>1, <1>2, <1>6, PutCell
<1> QED BY <1>1, <1>2, <1>4, <1>5, <1>7

\* A new container changes a cell but no array's size.
LEMMA TrackNewStep ==
  ASSUME ConstantsAssumption, IInv, NEW c \in Cycle, TrackNew(c)
  PROVE  IInv'
<1>0. TypeOK
  BY DEF IInv
<1>1. CASE Die("index")
  BY <1>0, <1>1, DieKeeps DEF Exits
<1>2. CASE ~Die("index")
  <2> DEFINE l == [loc[c] EXCEPT !.j = loc[c].j + 1]
  <2>1. /\ pc[c] = "count" /\ SizesKept /\ Goto(c, "track", l)
        /\ GPUAssingment' = [GPUAssingment EXCEPT ![loc[c].gpu] = loc[c].value + 1]
        /\ UNCHANGED <<cluster, podmap, GPUPod, GrpcGPUmpscount, TotalPodnum, analyzers, db, history>>
    BY <1>2, TrackNewSays
  <2>2. loc[c].j + 1 \in Nat /\ loc[c].j + 1 >= 1 /\ loc[c].value + 1 \in Nat
    BY <1>0, LocalsType
  <2>3. l \in Locals /\ "track" \in Labels /\ CycleOK("track", l, arrays)
    BY <2>1, <2>2, NewPlace
  <2> HIDE DEF l
  <2>4. CycleOK("track", l, arrays')
    <3>1. \A a \in DOMAIN arrays : a \in DOMAIN arrays' /\ Len(arrays'[a]) = Len(arrays[a])
      BY <2>1 DEF SizesKept
    <3> QED BY <2>3, <3>1 DEF CycleOK
  <2>5. /\ pc' \in [Cycle -> Labels] /\ loc' \in [Cycle -> Locals]
        /\ CyclesOK'
    BY <1>0, <2>1, <2>3, <2>4, Move DEF IInv
  <2>6. podmap'.arr \in DOMAIN arrays' /\ podmap'.len <= Len(arrays'[podmap'.arr])
    BY <1>0, <2>1, SliceType DEF SizesKept
  <2>7. GPUAssingment' \in [GPU -> Nat]
    BY <1>0, <2>1, <2>2 DEF TypeOK
  <2>8. TypeOK'
    BY <1>0, <2>1, <2>5, <2>6, <2>7 DEF TypeOK, SizesKept, Cids, cluster, db, history
  <2> QED BY <2>5, <2>8 DEF IInv
<1> QED BY <1>1, <1>2

-----------------------------------------------------------------------------
\* The end of a GPU and of a cycle.
LEMMA RowSteps ==
  ASSUME ConstantsAssumption, IInv, NEW c \in Cycle,
         PublishCount(c) \/ ReadPodnum(c) \/ WriteGpuRow(c)
  PROVE  IInv'
<1>0. /\ pc[c] \in InEntry /\ pc[c] \in {"rows", "podnum", "gpurow"}
      /\ TypeOK /\ loc[c] \in Locals /\ NoLoc \in Locals /\ CycleOK(pc[c], loc[c], arrays)
  BY LocalsType
  DEF PublishCount, PublishCountOf, ReadPodnum, WriteGpuRow, InEntry, IInv, CyclesOK
<1>1. /\ loc[c].gpu \in GPU /\ Len(loc[c].pods) \in Nat /\ Len(Listed(c)) \in Nat
      /\ loc[c].value \in Nat
  BY <1>0, InsideType, LocalsType
<1>2. "podnum" \in InEntry /\ "gpurow" \in InEntry /\ "podnum" \in Labels /\ "gpurow" \in Labels
      /\ "loop" \in Labels
  BY DEF InEntry, Labels
<1>3. CASE PublishCount(c)
  <2>1. /\ GrpcGPUmpscount' = [GrpcGPUmpscount EXCEPT ![loc[c].gpu] = Len(loc[c].pods)]
        /\ Goto(c, "podnum", loc[c])
        /\ UNCHANGED <<cluster, tracked, GPUPod, GPUAssingment, TotalPodnum, analyzers, db, history>>
    BY <1>3 DEF PublishCount, PublishCountOf
  <2>2. GrpcGPUmpscount' \in [GPU -> Nat]
    BY <1>0, <1>1, <2>1 DEF TypeOK
  <2>3. CycleOK("podnum", loc[c], arrays)
    BY <1>0, <1>2, Onward
  <2> QED BY <1>0, <1>2, <2>1, <2>2, <2>3, Near DEF TypeOK, db, history
<1>4. CASE ReadPodnum(c)
  <2> DEFINE n == Len(Listed(c))
             l == [loc[c] EXCEPT !.value = n]
  <2>1. Goto(c, "gpurow", l) /\ Local(c) /\ n \in Nat
    BY <1>1, <1>4 DEF ReadPodnum
  <2> HIDE DEF n
  <2>2. l \in Locals /\ l.gpu = loc[c].gpu /\ l.count = loc[c].count /\ l.arr = loc[c].arr
    BY <1>0, <2>1, SetValue
  <2> HIDE DEF l
  <2>3. CycleOK("gpurow", l, arrays)
    BY <1>0, <1>2, <2>2, Onward
  <2> QED BY <1>2, <2>1, <2>2, <2>3, Quiet
<1>5. CASE WriteGpuRow(c)
  <2> DEFINE g  == loc[c].gpu
             l1 == [NoLoc EXCEPT !.gpu = g + 1]
             l  == [l1 EXCEPT !.count = loc[c].count]
  <2>1. /\ gpuRow' = [gpuRow EXCEPT ![g] = loc[c].value]
        /\ Goto(c, "loop", l)
        /\ UNCHANGED <<cluster, tracked, records, analyzers, nodeRow, history>>
    BY <1>5 DEF WriteGpuRow
  <2>2. g + 1 \in 0 .. NumGPU + 1 /\ 1 <= g + 1 /\ loc[c].count \in {0, NumGPU}
    BY <1>0, <1>1, LocalsType, Numbers DEF GPU
  <2>3. gpuRow' \in [GPU -> Nat]
    BY <1>0, <1>1, <2>1 DEF TypeOK
  <2> HIDE DEF g
  <2>4. l1 \in Locals /\ l1.gpu = g + 1
    BY <1>0, <2>2, SetGpu
  <2> HIDE DEF l1
  <2>5. l \in Locals /\ l.gpu = l1.gpu
    BY <2>2, <2>4, SetCount
  <2> HIDE DEF l
  <2>6. CycleOK("loop", l, arrays)
    BY <2>2, <2>4, <2>5 DEF CycleOK, AtGPU, InEntry, Labels
  <2> QED BY <1>0, <1>2, <2>1, <2>3, <2>5, <2>6, Near DEF TypeOK, records, history
<1> QED BY <1>3, <1>4, <1>5

\* The node's total and the end.
LEMMA EndSteps ==
  ASSUME ConstantsAssumption, IInv, NEW c \in Cycle,
         SpawnAnalyzer(c) \/ ZeroTotal(c) \/ LoadTotal(c) \/ AddPods(c) \/ EndCycle(c)
  PROVE  IInv'
<1>0. TypeOK /\ loc[c] \in Locals /\ NoLoc \in Locals /\ CycleOK(pc[c], loc[c], arrays)
  BY LocalsType DEF IInv, CyclesOK
<1>1. CASE SpawnAnalyzer(c)
  <2>1. "zero" \in Labels /\ CycleOK("zero", NoLoc, arrays)
    BY DEF CycleOK, AtGPU, InEntry, Labels
  <2>2. /\ Goto(c, "zero", NoLoc) /\ analyzers' \in Nat
        /\ UNCHANGED <<cluster, tracked, records, db, history>>
    BY <1>0, <1>1 DEF SpawnAnalyzer, TypeOK
  <2> QED BY <1>0, <2>1, <2>2, Near DEF TypeOK, records, db, history
<1>2. CASE ZeroTotal(c)
  <2> DEFINE l == [loc[c] EXCEPT !.gpu = 1]
  <2>1. /\ TotalPodnum' = 0 /\ collided' = (\E d \in Cycle \ {c} : Summing(d)) /\ Goto(c, "load", l)
        /\ UNCHANGED <<cluster, tracked, GPUPod, GPUAssingment, GrpcGPUmpscount, analyzers, db, overtaken>>
    BY <1>2 DEF ZeroTotal, ZeroTotalTo
  <2>2. 1 \in 0 .. NumGPU + 1
    BY Numbers
  <2>3. l \in Locals /\ l.gpu = 1
    BY <1>0, <2>2, SetGpu
  <2> HIDE DEF l
  <2>4. "load" \in Labels /\ CycleOK("load", l, arrays)
    BY <2>3 DEF CycleOK, AtGPU, InEntry, Labels
  <2>5. TotalPodnum' \in Nat /\ collided' \in BOOLEAN
    BY <2>1
  <2> QED BY <1>0, <2>1, <2>3, <2>4, <2>5, Near DEF TypeOK, db
<1>3. CASE LoadTotal(c)
  <2> DEFINE l == [loc[c] EXCEPT !.value = TotalPodnum]
  <2>1. /\ pc[c] = "load" /\ loc[c].gpu <= gpus /\ Goto(c, "add", l) /\ Local(c)
    BY <1>3 DEF LoadTotal
  <2>2. TotalPodnum \in Nat /\ gpus <= NumGPU
    BY <1>0, Numbers DEF TypeOK
  <2>3. l \in Locals /\ l.gpu = loc[c].gpu
    BY <1>0, <2>2, SetValue
  <2> HIDE DEF l
  <2>4. 1 <= loc[c].gpu /\ loc[c].gpu <= NumGPU
    BY <1>0, <2>1, <2>2, LocalsType, Numbers DEF CycleOK, TypeOK
  <2>5. "add" \in Labels /\ CycleOK("add", l, arrays)
    BY <2>3, <2>4 DEF CycleOK, AtGPU, InEntry, Labels
  <2> QED BY <2>1, <2>3, <2>5, Quiet
<1>4. CASE AddPods(c)
  <2> DEFINE n  == loc[c].gpu + 1
             l1 == [loc[c] EXCEPT !.gpu = n]
             l  == [l1 EXCEPT !.value = 0]
  <2>1. /\ pc[c] = "add" /\ TotalPodnum' = loc[c].value + Len(Listed(c))
        /\ Goto(c, "load", l)
        /\ UNCHANGED <<cluster, tracked, GPUPod, GPUAssingment, GrpcGPUmpscount, analyzers, db, history>>
    BY <1>4 DEF AddPods
  <2>2. loc[c].gpu \in GPU
    BY <1>0, <2>1, LocalsType, Numbers DEF CycleOK, GPU
  <2>3. n \in 0 .. NumGPU + 1 /\ 1 <= n
    BY <2>2, Numbers DEF GPU
  <2>4. TotalPodnum' \in Nat
    <3>1. GPUPod[loc[c].gpu] \in Seq(PodMetric)
      BY <1>0, <2>2 DEF TypeOK
    <3>2. Len(Listed(c)) \in Nat
      BY <3>1 DEF Listed
    <3> QED BY <1>0, <2>1, <3>2, LocalsType
  <2> HIDE DEF n
  <2>5. l1 \in Locals /\ l1.gpu = n
    BY <1>0, <2>3, SetGpu
  <2> HIDE DEF l1
  <2>6. 0 \in Nat
    OBVIOUS
  <2>7. l \in Locals /\ l.gpu = l1.gpu
    BY <2>5, <2>6, SetValue
  <2> HIDE DEF l
  <2>8. "load" \in Labels /\ CycleOK("load", l, arrays)
    BY <2>3, <2>5, <2>7 DEF CycleOK, AtGPU, InEntry, Labels
  <2> QED BY <1>0, <2>1, <2>4, <2>7, <2>8, Near DEF TypeOK, db, history
<1>5. CASE EndCycle(c)
  <2>1. "idle" \in Labels /\ CycleOK("idle", NoLoc, arrays)
    BY DEF CycleOK, AtGPU, InEntry, Labels
  <2>2. /\ Goto(c, "idle", NoLoc) /\ nodeRow' \in BOOLEAN
        /\ UNCHANGED <<cluster, tracked, records, analyzers, gpuRow, history>>
    BY <1>0, <1>5 DEF EndCycle, WriteNodeRow, TypeOK
  <2> QED BY <1>0, <2>1, <2>2, Near DEF TypeOK, records, history
<1> QED BY <1>1, <1>2, <1>3, <1>4, <1>5

\* main, and the goroutines of the analyzer.
LEMMA MainSteps ==
  ASSUME ConstantsAssumption, IInv, Boot \/ Kill \/ Analyzer \/ \E c \in Cycle : Spawn(c)
  PROVE  IInv'
<1>0. TypeOK
  BY DEF IInv
<1>1. CASE Boot
  <2>1. CyclesOK'
    BY <1>1 DEF Boot, IInv, CyclesOK, control, tracked
  <2>2. TypeOK'
    BY <1>0, <1>1 DEF Boot, TypeOK, control, tracked, records
  <2> QED BY <2>1, <2>2 DEF IInv
<1>2. CASE Kill
  BY <1>0, <1>2, DieKeeps DEF Kill, Exits
<1>3. CASE Analyzer
  <2>1. CASE Die("analyzer") \/ Die("query") \/ Die("series")
    BY <1>0, <2>1, DieKeeps DEF Exits
  <2>2. CASE /\ analyzers > 0 /\ analyzers' = analyzers - 1
             /\ UNCHANGED <<cluster, control, tracked, records, db, history>>
    <3>1. CyclesOK'
      BY <2>2 DEF IInv, CyclesOK, control, tracked
    <3>2. TypeOK'
      BY <1>0, <2>2 DEF IInv, TypeOK, cluster, control, tracked, records, db, history
    <3> QED BY <3>1, <3>2 DEF IInv
  <2> QED BY <1>3, <2>1, <2>2 DEF Analyzer
<1>4. ASSUME NEW c \in Cycle, Spawn(c)
      PROVE  IInv'
  <2>1. Goto(c, "init", loc[c]) /\ loc[c] \in Locals /\ "init" \in Labels
        /\ CycleOK("init", loc[c], arrays) /\ arrays' = arrays
    <3>1. loc[c] \in Locals /\ loc' = loc
      BY <1>0, <1>4, LocalsType DEF Spawn
    <3>2. loc' = [loc EXCEPT ![c] = loc[c]]
      BY <1>0, <3>1 DEF TypeOK
    <3> QED BY <1>4, <3>1, <3>2 DEF Spawn, Goto, Labels, CycleOK, AtGPU, InEntry, tracked
  <2>2. /\ pc' \in [Cycle -> Labels] /\ loc' \in [Cycle -> Locals]
        /\ CyclesOK'
    BY <1>0, <2>1, SameArrays, Move DEF IInv
  <2>3. spawned' \in 0 .. MaxSpawns
    BY <1>0, <1>4, Numbers DEF Spawn, TypeOK
  <2>4. TypeOK'
    BY <1>0, <1>4, <2>2, <2>3 DEF Spawn, TypeOK, tracked, records, db, history
  <2> QED BY <2>2, <2>4 DEF IInv
<1> QED BY <1>1, <1>2, <1>3, <1>4

-----------------------------------------------------------------------------
\* Before the process starts the invariant holds: no cycle is running.
THEOREM InitIInv == ConstantsAssumption /\ Init => IInv
<1> SUFFICES ASSUME ConstantsAssumption, Init  PROVE IInv
  OBVIOUS
<1>1. NoLoc \in Locals
  BY Numbers DEF NoLoc, Locals, Nil, Header
<1>2. << <<>> >> \in Seq(Seq(Seq(Container \cup {"none"})))
  OBVIOUS
<1>3. /\ podmap \in Header /\ podmap.arr \in DOMAIN arrays /\ podmap.len <= Len(arrays[podmap.arr])
      /\ arrays \in Seq(Seq(Seq(Container \cup {"none"})))
  BY <1>2 DEF Init, Nil, Header
<1>4. <<>> \in Seq(PodMetric)
  OBVIOUS
<1>5. /\ GPUPod \in [GPU -> Seq(PodMetric)] /\ GPUAssingment \in [GPU -> Nat]
      /\ GrpcGPUmpscount \in [GPU -> Nat] /\ gpuRow \in [GPU -> Nat]
  BY <1>4 DEF Init
<1>6. pc \in [Cycle -> Labels] /\ loc \in [Cycle -> Locals]
  BY <1>1 DEF Init, Labels
<1>7. spawned \in 0 .. MaxSpawns
  BY Numbers DEF Init
<1>8. TypeOK
  BY <1>3, <1>5, <1>6, <1>7 DEF Init, TypeOK, Exits
<1>9. CyclesOK
  BY DEF Init, CyclesOK, CycleOK, AtGPU, InEntry, Labels
<1> QED BY <1>8, <1>9 DEF IInv

\* Every step of main, of a cycle or of an analyzer preserves the invariant.
THEOREM NextIInv == ConstantsAssumption /\ IInv /\ [Next]_vars => IInv'
<1> SUFFICES ASSUME ConstantsAssumption, IInv, [Next]_vars  PROVE IInv'
  OBVIOUS
<1>1. CASE Boot \/ Kill \/ Analyzer
  BY <1>1, MainSteps
<1>2. ASSUME NEW c \in Cycle, Spawn(c)
      PROVE  IInv'
  BY <1>2, MainSteps
<1>3. ASSUME NEW c \in Cycle, Step(c)
      PROVE  IInv'
  <2>1. CASE InitFails(c) \/ InitCounts(c) \/ CheckPodmap(c)
    BY <2>1, CountSteps
  <2>2. CASE LoadPodmap(c) \/ GrowPodmap(c) \/ StorePodmap(c) \/ ClearEntry(c)
    BY <2>2, LoadStep, GrowStep, StoreStep, ClearStep
  <2>3. CASE EnterGPU(c) \/ PointToEntry(c)
    BY <2>3, EnterStep, PointStep
  <2>4. CASE ReadProcesses(c) \/ ListPods(c)
    BY <2>4, ReadStep, ListStep
  <2>5. CASE MapPod(c) \/ SkipPod(c) \/ MapDone(c)
    BY <2>5, MapStep, WalkSteps
  <2>6. CASE TrackLookup(c) \/ TrackDone(c) \/ WritePodRow(c)
    BY <2>6, TrackSteps
  <2>7. CASE TrackNew(c)
    BY <2>7, TrackNewStep
  <2>8. CASE PublishCount(c) \/ ReadPodnum(c) \/ WriteGpuRow(c)
    BY <2>8, RowSteps
  <2>9. CASE SpawnAnalyzer(c) \/ ZeroTotal(c) \/ LoadTotal(c) \/ AddPods(c) \/ EndCycle(c)
    BY <2>9, EndSteps
  <2> QED
    BY <1>3, <2>1, <2>2, <2>3, <2>4, <2>5, <2>6, <2>7, <2>8, <2>9 DEF Step
<1>4. CASE UNCHANGED vars
  <2>1. TypeOK' = TypeOK
    BY <1>4 DEF vars, cluster, control, tracked, records, db, history, TypeOK
  <2>2. CyclesOK'
    BY <1>4 DEF vars, control, tracked, CyclesOK, IInv
  <2> QED BY <2>1, <2>2 DEF IInv
<1> QED BY <1>1, <1>2, <1>3, <1>4 DEF Next

\* The invariant holds in every state the collector reaches.
THEOREM InvariantIInv == Spec => []IInv
<1>1. Init => IInv
  BY InitIInv, ConstantsAssumption
<1>2. IInv /\ [Next]_vars => IInv'
  BY NextIInv, ConstantsAssumption
<1> QED BY <1>1, <1>2, PTL DEF Spec

\* The variables keep their types: no index the code computes leaves the range
\* its uses assume, and the slice stays within its array, for any number of
\* overlapping cycles.
THEOREM TypeCorrect == Spec => []TypeOK
<1>1. IInv => TypeOK
  BY DEF IInv
<1> QED BY <1>1, InvariantIInv, PTL

-----------------------------------------------------------------------------
\* What the steps of a cycle do to its place and to the other cycles.

\* Lemma: a move is of one cycle only.
LEMMA OthersStay ==
  ASSUME TypeOK, NEW c \in Cycle, NEW label, NEW l, Goto(c, label, l)
  PROVE  /\ pc'[c] = label /\ loc'[c] = l
         /\ \A d \in Cycle \ {c} : pc'[d] = pc[d] /\ loc'[d] = loc[d]
  BY DEF Goto, TypeOK

\* The other cycles and the cluster stay.
Mine(c) ==
  /\ \A d \in Cycle \ {c} : pc'[d] = pc[d] /\ loc'[d] = loc[d]
  /\ UNCHANGED cluster

\* No goroutine ends the process in this step.
Survives == \A why \in Exits : ~Die(why)

\* Lemma: the steps of Gpumetric, before and in its loop.
LEMMA LoopSays ==
  ASSUME ConstantsAssumption, IInv, NEW c \in Cycle, Survives
  PROVE  /\ InitFails(c) => /\ Mine(c) /\ UNCHANGED <<tracked, records, gpuRow, history>>
                            /\ pc[c] = "init" /\ pc'[c] = "idle" /\ loc'[c] = NoLoc
         /\ InitCounts(c) => /\ Mine(c) /\ UNCHANGED <<tracked, records, gpuRow, history>>
                             /\ pc[c] = "init" /\ pc'[c] = "loop" /\ loc'[c].gpu = 1
         /\ CheckPodmap(c) => /\ Mine(c) /\ UNCHANGED <<tracked, records, gpuRow, history>>
                              /\ pc[c] = "loop" /\ loc'[c] = loc[c] /\ loc[c].gpu <= loc[c].count
                              /\ pc'[c] = IF podmap.len < loc[c].count THEN "append" ELSE "enter"
         /\ EnterGPU(c) => /\ Mine(c) /\ UNCHANGED <<tracked, GPUAssingment, GrpcGPUmpscount,
                                                     TotalPodnum, gpuRow, history>>
                           /\ pc[c] = "enter" /\ pc'[c] = "point" /\ loc'[c] = loc[c]
                           /\ loc[c].gpu <= podmap.len /\ loc[c].gpu <= gpus
                           /\ GPUPod' = [GPUPod EXCEPT ![loc[c].gpu] = <<>>]
         /\ PointToEntry(c) => /\ Mine(c) /\ UNCHANGED <<tracked, records, gpuRow, history>>
                               /\ pc[c] = "point" /\ pc'[c] = "read" /\ loc[c].gpu <= podmap.len
                               /\ loc'[c].gpu = loc[c].gpu /\ loc'[c].arr = podmap.arr
         /\ WriteGpuRow(c) => /\ Mine(c) /\ UNCHANGED <<tracked, records, history>>
                              /\ pc[c] = "gpurow" /\ pc'[c] = "loop" /\ loc'[c].gpu = loc[c].gpu + 1
                              /\ gpuRow' = [gpuRow EXCEPT ![loc[c].gpu] = loc[c].value]
         /\ SpawnAnalyzer(c) => /\ Mine(c) /\ UNCHANGED <<tracked, records, gpuRow, history>>
                                /\ pc[c] = "loop" /\ pc'[c] = "zero" /\ loc'[c] = NoLoc
<1>0. TypeOK /\ loc[c] \in Locals /\ NoLoc \in Locals
  BY LocalsType DEF IInv
<1>1. InitFails(c) => /\ Mine(c) /\ UNCHANGED <<tracked, records, gpuRow, history>>
                      /\ pc[c] = "init" /\ pc'[c] = "idle" /\ loc'[c] = NoLoc
  BY <1>0, OthersStay DEF InitFails, Mine
<1>2. ASSUME InitCounts(c)
      PROVE  /\ Mine(c) /\ UNCHANGED <<tracked, records, gpuRow, history>>
             /\ pc[c] = "init" /\ pc'[c] = "loop" /\ loc'[c].gpu = 1
  <2>1. PICK n \in {0, NumGPU} : Goto(c, "loop", [NoLoc EXCEPT !.gpu = 1, !.count = n])
    BY <1>2 DEF InitCounts
  <2> DEFINE l == [NoLoc EXCEPT !.gpu = 1, !.count = n]
  <2>2. Goto(c, "loop", l) /\ l.gpu = 1
    BY <1>0, <2>1 DEF Locals
  <2>3. pc[c] = "init" /\ Local(c)
    BY <1>2 DEF InitCounts
  <2> HIDE DEF l
  <2> QED BY <1>0, <2>2, <2>3, OthersStay DEF Local, Mine, db
<1>3. CheckPodmap(c) => /\ Mine(c) /\ UNCHANGED <<tracked, records, gpuRow, history>>
                        /\ pc[c] = "loop" /\ loc'[c] = loc[c] /\ loc[c].gpu <= loc[c].count
                        /\ pc'[c] = IF podmap.len < loc[c].count THEN "append" ELSE "enter"
  BY <1>0, OthersStay DEF CheckPodmap, CheckPodmapAgainst, Local, Mine, db
<1>4. ASSUME EnterGPU(c)
      PROVE  /\ Mine(c) /\ UNCHANGED <<tracked, GPUAssingment, GrpcGPUmpscount,
                                       TotalPodnum, gpuRow, history>>
             /\ pc[c] = "enter" /\ pc'[c] = "point" /\ loc'[c] = loc[c]
             /\ loc[c].gpu <= podmap.len /\ loc[c].gpu <= gpus
             /\ GPUPod' = [GPUPod EXCEPT ![loc[c].gpu] = <<>>]
  <2>1. ~Die("fatal") /\ ~Die("podmap") /\ ~Die("boot")
    BY DEF Survives, Exits
  <2> QED BY <1>0, <1>4, <2>1, OthersStay DEF EnterGPU, EnterGPUWith, Mine, db
<1>5. ASSUME PointToEntry(c)
      PROVE  /\ Mine(c) /\ UNCHANGED <<tracked, records, gpuRow, history>>
             /\ pc[c] = "point" /\ pc'[c] = "read" /\ loc[c].gpu <= podmap.len
             /\ loc'[c].gpu = loc[c].gpu /\ loc'[c].arr = podmap.arr
  <2>1. ~Die("podmap")
    BY DEF Survives, Exits
  <2>2. pc[c] = "point" /\ Local(c) /\ loc[c].gpu <= podmap.len
    BY <1>5, <2>1, PointSays
  <2>3. PICK l \in Locals : Goto(c, "read", l) /\ l.gpu = loc[c].gpu /\ l.arr = podmap.arr
    BY <1>5, <2>1, PointSays
  <2> QED BY <1>0, <2>2, <2>3, OthersStay DEF Local, Mine, db
<1>6. ASSUME WriteGpuRow(c)
      PROVE  /\ Mine(c) /\ UNCHANGED <<tracked, records, history>>
             /\ pc[c] = "gpurow" /\ pc'[c] = "loop" /\ loc'[c].gpu = loc[c].gpu + 1
             /\ gpuRow' = [gpuRow EXCEPT ![loc[c].gpu] = loc[c].value]
  <2>1. [NoLoc EXCEPT !.gpu = loc[c].gpu + 1, !.count = loc[c].count].gpu = loc[c].gpu + 1
    BY <1>0 DEF Locals
  <2>2. Goto(c, "loop", [NoLoc EXCEPT !.gpu = loc[c].gpu + 1, !.count = loc[c].count])
    BY <1>6 DEF WriteGpuRow
  <2> QED BY <1>0, <1>6, <2>1, <2>2, OthersStay DEF WriteGpuRow, Mine
<1>7. SpawnAnalyzer(c) => /\ Mine(c) /\ UNCHANGED <<tracked, records, gpuRow, history>>
                          /\ pc[c] = "loop" /\ pc'[c] = "zero" /\ loc'[c] = NoLoc
  BY <1>0, OthersStay DEF SpawnAnalyzer, Mine, db
<1> QED BY <1>1, <1>2, <1>3, <1>4, <1>5, <1>6, <1>7

\* Lemma: the steps of an append.
LEMMA AppendSays ==
  ASSUME ConstantsAssumption, IInv, NEW c \in Cycle
  PROVE  /\ LoadPodmap(c) => /\ Mine(c) /\ UNCHANGED <<tracked, records, gpuRow, history>>
                             /\ pc[c] = "append" /\ loc'[c].gpu = loc[c].gpu
                             /\ loc'[c].header = podmap /\ loc'[c].arr = podmap.arr
                             /\ pc'[c] = IF podmap.len < Len(arrays[podmap.arr]) THEN "store" ELSE "grow"
         /\ GrowPodmap(c) => /\ Mine(c) /\ UNCHANGED <<podmap, records, gpuRow, history>>
                             /\ pc[c] = "grow" /\ pc'[c] = "store" /\ loc'[c].gpu = loc[c].gpu
                             /\ loc'[c].header = loc[c].header /\ loc'[c].arr = Len(arrays) + 1
         /\ StorePodmap(c) => /\ Mine(c) /\ UNCHANGED <<arrays, records, gpuRow, collided>>
                              /\ pc[c] = "store" /\ pc'[c] = "clear" /\ loc'[c] = loc[c]
                              /\ podmap' = [arr |-> loc[c].arr, len |-> loc[c].header.len + 1]
                              /\ overtaken' = (overtaken \/ podmap # loc[c].header)
         /\ ClearEntry(c) => /\ Mine(c) /\ UNCHANGED <<podmap, records, gpuRow, history>>
                             /\ pc[c] = "clear" /\ pc'[c] = "enter" /\ loc'[c] = loc[c]
<1>0. TypeOK /\ loc[c] \in Locals
  BY LocalsType DEF IInv
<1>1. ASSUME LoadPodmap(c)
      PROVE  /\ Mine(c) /\ UNCHANGED <<tracked, records, gpuRow, history>>
             /\ pc[c] = "append" /\ loc'[c].gpu = loc[c].gpu
             /\ loc'[c].header = podmap /\ loc'[c].arr = podmap.arr
             /\ pc'[c] = IF podmap.len < Len(arrays[podmap.arr]) THEN "store" ELSE "grow"
  <2> DEFINE l == [loc[c] EXCEPT !.header = podmap, !.arr = podmap.arr]
             label == IF podmap.len < Len(arrays[podmap.arr]) THEN "store" ELSE "grow"
  <2>1. l.gpu = loc[c].gpu /\ l.header = podmap /\ l.arr = podmap.arr
    BY <1>0 DEF Locals
  <2>2. Goto(c, label, l) /\ pc[c] = "append" /\ Local(c)
    BY <1>1 DEF LoadPodmap
  <2> HIDE DEF l
  <2> QED BY <1>0, <2>1, <2>2, OthersStay DEF Local, Mine, db
<1>2. ASSUME GrowPodmap(c)
      PROVE  /\ Mine(c) /\ UNCHANGED <<podmap, records, gpuRow, history>>
             /\ pc[c] = "grow" /\ pc'[c] = "store" /\ loc'[c].gpu = loc[c].gpu
             /\ loc'[c].header = loc[c].header /\ loc'[c].arr = Len(arrays) + 1
  <2> DEFINE l == [loc[c] EXCEPT !.arr = Len(arrays) + 1]
  <2>1. l.gpu = loc[c].gpu /\ l.header = loc[c].header /\ l.arr = Len(arrays) + 1
    BY <1>0 DEF Locals
  <2>2. Goto(c, "store", l) /\ pc[c] = "grow" /\ UNCHANGED <<cluster, podmap, records, db, history>>
    BY <1>2, GrowSays
  <2> HIDE DEF l
  <2> QED BY <1>0, <2>1, <2>2, OthersStay DEF Mine, db
<1>3. StorePodmap(c) => /\ Mine(c) /\ UNCHANGED <<arrays, records, gpuRow, collided>>
                        /\ pc[c] = "store" /\ pc'[c] = "clear" /\ loc'[c] = loc[c]
                        /\ podmap' = [arr |-> loc[c].arr, len |-> loc[c].header.len + 1]
                        /\ overtaken' = (overtaken \/ podmap # loc[c].header)
  BY <1>0, OthersStay DEF StorePodmap, Mine, db
<1>4. ClearEntry(c) => /\ Mine(c) /\ UNCHANGED <<podmap, records, gpuRow, history>>
                       /\ pc[c] = "clear" /\ pc'[c] = "enter" /\ loc'[c] = loc[c]
  BY <1>0, OthersStay DEF ClearEntry, Mine, db
<1> QED BY <1>1, <1>2, <1>3, <1>4

\* Lemma: the steps of the node's total.
LEMMA TotalSays ==
  ASSUME ConstantsAssumption, IInv, NEW c \in Cycle
  PROVE  /\ ZeroTotal(c) =>
              /\ Mine(c) /\ UNCHANGED <<tracked, GPUPod, GPUAssingment, GrpcGPUmpscount, gpuRow, overtaken>>
              /\ pc[c] = "zero" /\ pc'[c] = "load" /\ loc'[c].gpu = 1 /\ TotalPodnum' = 0
              /\ collided' = (\E d \in Cycle \ {c} : Summing(d))
         /\ LoadTotal(c) =>
              /\ Mine(c) /\ UNCHANGED <<tracked, records, gpuRow, history>>
              /\ pc[c] = "load" /\ pc'[c] = "add" /\ loc[c].gpu <= gpus
              /\ loc'[c].gpu = loc[c].gpu /\ loc'[c].value = TotalPodnum
         /\ AddPods(c) =>
              /\ Mine(c) /\ UNCHANGED <<tracked, GPUPod, GPUAssingment, GrpcGPUmpscount, gpuRow, history>>
              /\ pc[c] = "add" /\ pc'[c] = "load" /\ loc'[c].gpu = loc[c].gpu + 1
              /\ TotalPodnum' = loc[c].value + Len(GPUPod[loc[c].gpu])
         /\ EndCycle(c) =>
              /\ Mine(c) /\ UNCHANGED <<tracked, records, gpuRow, history>>
              /\ pc[c] = "load" /\ pc'[c] = "idle" /\ loc[c].gpu > gpus /\ loc'[c] = NoLoc
<1>0. TypeOK /\ loc[c] \in Locals
  BY LocalsType DEF IInv
<1>1. ASSUME ZeroTotal(c)
      PROVE  /\ Mine(c) /\ UNCHANGED <<tracked, GPUPod, GPUAssingment, GrpcGPUmpscount, gpuRow, overtaken>>
             /\ pc[c] = "zero" /\ pc'[c] = "load" /\ loc'[c].gpu = 1 /\ TotalPodnum' = 0
             /\ collided' = (\E d \in Cycle \ {c} : Summing(d))
  <2>1. [loc[c] EXCEPT !.gpu = 1].gpu = 1
    BY <1>0 DEF Locals
  <2>2. /\ pc[c] = "zero" /\ Goto(c, "load", [loc[c] EXCEPT !.gpu = 1]) /\ TotalPodnum' = 0
        /\ collided' = (\E d \in Cycle \ {c} : Summing(d))
        /\ UNCHANGED <<cluster, tracked, GPUPod, GPUAssingment, GrpcGPUmpscount, analyzers, db, overtaken>>
    BY <1>1 DEF ZeroTotal, ZeroTotalTo
  <2> QED BY <1>0, <2>1, <2>2, OthersStay DEF Mine, db
<1>2. ASSUME LoadTotal(c)
      PROVE  /\ Mine(c) /\ UNCHANGED <<tracked, records, gpuRow, history>>
             /\ pc[c] = "load" /\ pc'[c] = "add" /\ loc[c].gpu <= gpus
             /\ loc'[c].gpu = loc[c].gpu /\ loc'[c].value = TotalPodnum
  <2>1. [loc[c] EXCEPT !.value = TotalPodnum].gpu = loc[c].gpu
        /\ [loc[c] EXCEPT !.value = TotalPodnum].value = TotalPodnum
    BY <1>0 DEF Locals
  <2>2. Goto(c, "add", [loc[c] EXCEPT !.value = TotalPodnum]) /\ Local(c)
    BY <1>2 DEF LoadTotal
  <2> QED BY <1>0, <1>2, <2>1, <2>2, OthersStay DEF LoadTotal, Local, Mine, db
<1>3. ASSUME AddPods(c)
      PROVE  /\ Mine(c) /\ UNCHANGED <<tracked, GPUPod, GPUAssingment, GrpcGPUmpscount, gpuRow, history>>
             /\ pc[c] = "add" /\ pc'[c] = "load" /\ loc'[c].gpu = loc[c].gpu + 1
             /\ TotalPodnum' = loc[c].value + Len(GPUPod[loc[c].gpu])
  <2> DEFINE l == [loc[c] EXCEPT !.gpu = loc[c].gpu + 1, !.value = 0]
  <2>1. l.gpu = loc[c].gpu + 1
    BY <1>0 DEF Locals
  <2>2. /\ pc[c] = "add" /\ Goto(c, "load", l)
        /\ TotalPodnum' = loc[c].value + Len(GPUPod[loc[c].gpu])
        /\ UNCHANGED <<cluster, tracked, GPUPod, GPUAssingment, GrpcGPUmpscount, analyzers, db, history>>
    BY <1>3 DEF AddPods, Listed
  <2> HIDE DEF l
  <2> QED BY <1>0, <2>1, <2>2, OthersStay DEF Mine, db
<1>4. EndCycle(c) => /\ Mine(c) /\ UNCHANGED <<tracked, records, gpuRow, history>>
                     /\ pc[c] = "load" /\ pc'[c] = "idle" /\ loc[c].gpu > gpus /\ loc'[c] = NoLoc
  BY <1>0, OthersStay DEF EndCycle, Mine
<1> QED BY <1>1, <1>2, <1>3, <1>4

\* The steps of Gpumpsmetric, and the two before the GPU's row.
InEntryStep(c) ==
  \/ ReadProcesses(c) \/ ListPods(c) \/ MapPod(c) \/ SkipPod(c) \/ MapDone(c)
  \/ TrackLookup(c) \/ TrackNew(c) \/ TrackDone(c) \/ WritePodRow(c)
  \/ PublishCount(c) \/ ReadPodnum(c)

\* Lemmas: what a move that changes some of the locals leaves alone.
LEMMA MoveJ ==
  ASSUME TypeOK, NEW c \in Cycle, NEW label, NEW v, Goto(c, label, [loc[c] EXCEPT !.j = v])
  PROVE  /\ pc'[c] = label /\ loc'[c].j = v
         /\ loc'[c].gpu = loc[c].gpu /\ loc'[c].arr = loc[c].arr /\ loc'[c].procs = loc[c].procs
         /\ loc'[c].pods = loc[c].pods /\ loc'[c].value = loc[c].value
<1>1. pc'[c] = label /\ loc'[c] = [loc[c] EXCEPT !.j = v] /\ loc[c] \in Locals
  BY OthersStay DEF TypeOK
<1> QED BY <1>1 DEF Locals

\* Lemma: saving a number that was read.
LEMMA MoveValue ==
  ASSUME TypeOK, NEW c \in Cycle, NEW label, NEW v, Goto(c, label, [loc[c] EXCEPT !.value = v])
  PROVE  /\ pc'[c] = label /\ loc'[c].value = v
         /\ loc'[c].gpu = loc[c].gpu /\ loc'[c].arr = loc[c].arr /\ loc'[c].procs = loc[c].procs
         /\ loc'[c].pods = loc[c].pods /\ loc'[c].j = loc[c].j
<1>1. pc'[c] = label /\ loc'[c] = [loc[c] EXCEPT !.value = v] /\ loc[c] \in Locals
  BY OthersStay DEF TypeOK
<1> QED BY <1>1 DEF Locals

\* Lemma: taking a list of pods.
LEMMA MovePods ==
  ASSUME TypeOK, NEW c \in Cycle, NEW label, NEW v, NEW w,
         Goto(c, label, [loc[c] EXCEPT !.pods = v, !.j = w])
  PROVE  /\ pc'[c] = label /\ loc'[c].pods = v /\ loc'[c].j = w
         /\ loc'[c].gpu = loc[c].gpu /\ loc'[c].arr = loc[c].arr /\ loc'[c].procs = loc[c].procs
<1>1. pc'[c] = label /\ loc'[c] = [loc[c] EXCEPT !.pods = v, !.j = w] /\ loc[c] \in Locals
  BY OthersStay DEF TypeOK
<1> QED BY <1>1 DEF Locals

\* Lemma: reading a list of processes.
LEMMA MoveProcs ==
  ASSUME TypeOK, NEW c \in Cycle, NEW label, NEW v, NEW w,
         Goto(c, label, [loc[c] EXCEPT !.tries = v, !.procs = w])
  PROVE  pc'[c] = label /\ loc'[c].gpu = loc[c].gpu /\ loc'[c].arr = loc[c].arr
<1>1. pc'[c] = label /\ loc'[c] = [loc[c] EXCEPT !.tries = v, !.procs = w] /\ loc[c] \in Locals
  BY OthersStay DEF TypeOK
<1> QED BY <1>1 DEF Locals

\* Lemma: a cycle in an entry stays at its GPU and touches only that GPU's records.
LEMMA EntrySays ==
  ASSUME ConstantsAssumption, IInv, NEW c \in Cycle, Survives, InEntryStep(c)
  PROVE  /\ Mine(c) /\ UNCHANGED <<podmap, TotalPodnum, gpuRow, history>>
         /\ pc[c] \in InEntry /\ pc'[c] \in InEntry
         /\ loc'[c].gpu = loc[c].gpu /\ loc'[c].arr = loc[c].arr
         /\ \A g \in GPU \ {loc[c].gpu} : GPUPod'[g] = GPUPod[g]
<1>0. TypeOK /\ c \in Cycle /\ ~Die("fatal") /\ ~Die("index")
  BY DEF IInv, Survives, Exits
<1>1. pc[c] \in InEntry
  BY Zenon
  DEF InEntryStep, ReadProcesses, ReadProcessesAt, ListPods, MapPod, SkipPod, MapDone,
      TrackLookup, TrackNew, TrackNewWith, TrackDone, TrackDoneAfter, WritePodRow,
      PublishCount, PublishCountOf, ReadPodnum, InEntry
<1>2. UNCHANGED <<cluster, podmap, TotalPodnum, gpuRow, history>>
  BY <1>0, Zenon
  DEF InEntryStep, ReadProcesses, ReadProcessesAt, ListPods, MapPod, SetGPUPod, SkipPod, MapDone,
      TrackLookup, TrackNew, TrackNewWith, TrackDone, TrackDoneAfter, WritePodRow,
      PublishCount, PublishCountOf, ReadPodnum, Local, records, tracked, db
<1>3. \A g \in GPU \ {loc[c].gpu} : GPUPod'[g] = GPUPod[g]
  <2>1. CASE GPUPod' = GPUPod
    BY <2>1
  <2>2. CASE MapPod(c)
    <3>1. PICK s : GPUPod' = [GPUPod EXCEPT ![loc[c].gpu] = s]
      BY <1>0, <2>2, Zenon DEF MapPod, SetGPUPod
    <3> QED BY <1>0, <3>1 DEF TypeOK
  <2> QED
    BY <1>0, <2>1, <2>2, Zenon
    DEF InEntryStep, ReadProcesses, ReadProcessesAt, ListPods, SkipPod, MapDone, TrackLookup,
        TrackNew, TrackNewWith, TrackDone, TrackDoneAfter, WritePodRow,
        PublishCount, PublishCountOf, ReadPodnum, Local, records
<1>4. PICK label, m, n, v :
        /\ label \in InEntry
        /\ \/ Goto(c, label, [loc[c] EXCEPT !.j = n])
           \/ Goto(c, label, [loc[c] EXCEPT !.value = n])
           \/ Goto(c, label, [loc[c] EXCEPT !.tries = n, !.procs = m])
           \/ Goto(c, label, [loc[c] EXCEPT !.pods = m, !.j = v])
           \/ Goto(c, label, loc[c])
  <2>0. {"read", "list", "map", "track", "count", "rows", "podnum", "gpurow"} = InEntry
    BY DEF InEntry
  <2>1. CASE ReadProcesses(c)
    BY <1>0, <2>0, <2>1, Zenon DEF ReadProcesses, ReadProcessesAt
  <2>2. CASE ListPods(c)
    BY <1>0, <2>0, <2>2, Zenon DEF ListPods
  <2>3. CASE SkipPod(c) \/ MapDone(c) \/ WritePodRow(c) \/ TrackDone(c)
    BY <1>0, <2>0, <2>3, Zenon DEF SkipPod, MapDone, WritePodRow, TrackDone, TrackDoneAfter
  <2>4. CASE TrackLookup(c) \/ TrackNew(c) \/ MapPod(c)
    BY <1>0, <2>0, <2>4, Zenon DEF TrackLookup, TrackNew, TrackNewWith, MapPod
  <2>5. CASE PublishCount(c) \/ ReadPodnum(c)
    BY <1>0, <2>0, <2>5, Zenon DEF PublishCount, PublishCountOf, ReadPodnum
  <2> QED BY <2>1, <2>2, <2>3, <2>4, <2>5 DEF InEntryStep
<1>5. pc'[c] = label /\ loc'[c].gpu = loc[c].gpu /\ loc'[c].arr = loc[c].arr
  <2>1. CASE Goto(c, label, [loc[c] EXCEPT !.j = n])
    BY <1>0, <2>1, MoveJ
  <2>2. CASE Goto(c, label, [loc[c] EXCEPT !.value = n])
    BY <1>0, <2>2, MoveValue
  <2>3. CASE Goto(c, label, [loc[c] EXCEPT !.tries = n, !.procs = m])
    BY <1>0, <2>3, MoveProcs
  <2>4. CASE Goto(c, label, [loc[c] EXCEPT !.pods = m, !.j = v])
    BY <1>0, <2>4, MovePods
  <2>5. CASE Goto(c, label, loc[c])
    BY <1>0, <2>5, OthersStay
  <2> QED BY <1>4, <2>1, <2>2, <2>3, <2>4, <2>5
<1>6. \A d \in Cycle \ {c} : pc'[d] = pc[d] /\ loc'[d] = loc[d]
  BY <1>0, <1>4, OthersStay
<1> QED BY <1>1, <1>2, <1>3, <1>4, <1>5, <1>6 DEF Mine

-----------------------------------------------------------------------------
\* Every step.

\* Nothing but the analyzers.
Still ==
  UNCHANGED <<cluster, control, tracked, records, gpuRow, history>>

\* The steps of Gpumetric.
LoopStep(c) ==
  \/ InitFails(c) \/ InitCounts(c) \/ CheckPodmap(c) \/ EnterGPU(c) \/ PointToEntry(c)
  \/ WriteGpuRow(c) \/ SpawnAnalyzer(c)
AppendStep(c) == LoadPodmap(c) \/ GrowPodmap(c) \/ StorePodmap(c) \/ ClearEntry(c)
TotalStep(c)  == ZeroTotal(c) \/ LoadTotal(c) \/ AddPods(c) \/ EndCycle(c)

\* Lemma: what may happen without the end of the process.
LEMMA NextCases ==
  ASSUME [Next]_vars, Survives
  PROVE  \/ Still \/ Boot
         \/ \E c \in Cycle : Spawn(c) \/ LoopStep(c) \/ AppendStep(c) \/ TotalStep(c) \/ InEntryStep(c)
<1>1. CASE UNCHANGED vars
  BY <1>1 DEF vars, Still, db
<1>2. CASE Kill
  BY <1>2 DEF Kill, Survives, Exits
<1>3. CASE Analyzer
  BY <1>3 DEF Analyzer, Still, Survives, Exits, db
<1>4. ASSUME NEW c \in Cycle, Step(c)
      PROVE  LoopStep(c) \/ AppendStep(c) \/ TotalStep(c) \/ InEntryStep(c)
  BY <1>4, Zenon DEF Step, LoopStep, AppendStep, TotalStep, InEntryStep
<1> QED BY <1>1, <1>2, <1>3, <1>4 DEF Next

\* Lemma: a missing podmap[i] is met where podmap is indexed.
LEMMA PodmapPanics ==
  ASSUME IInv, [Next]_vars, proc # "podmap", proc' = "podmap"
  PROVE  \E c \in Cycle : pc[c] \in {"enter", "point"} /\ loc[c].gpu > podmap.len
<1>1. CASE Boot \/ Kill \/ Analyzer \/ UNCHANGED vars
  BY <1>1 DEF Boot, Kill, Analyzer, Die, vars, cluster
<1>2. ASSUME NEW c \in Cycle, Spawn(c) \/ Step(c)
      PROVE  pc[c] \in {"enter", "point"} /\ loc[c].gpu > podmap.len
  <2>1. CASE EnterGPU(c)
    BY <2>1 DEF EnterGPU, EnterGPUWith, Die, cluster
  <2>2. CASE PointToEntry(c)
    BY <2>2 DEF PointToEntry, Die, Local, cluster
  <2>3. CASE Spawn(c)
    BY <2>3 DEF Spawn
  <2>4. CASE InitFails(c) \/ InitCounts(c) \/ CheckPodmap(c) \/ WriteGpuRow(c) \/ SpawnAnalyzer(c)
    BY <2>4 DEF InitFails, InitCounts, CheckPodmap, CheckPodmapAgainst, WriteGpuRow, SpawnAnalyzer,
                Local, cluster
  <2>5. CASE AppendStep(c) \/ TotalStep(c)
    BY <2>5 DEF AppendStep, LoadPodmap, GrowPodmap, StorePodmap, ClearEntry, TotalStep, ZeroTotal,
                ZeroTotalTo, LoadTotal, AddPods, EndCycle, Local, cluster
  <2>6. CASE ReadProcesses(c) \/ ListPods(c) \/ MapPod(c) \/ SkipPod(c) \/ MapDone(c)
    BY <2>6 DEF ReadProcesses, ReadProcessesAt, ListPods, MapPod, SkipPod, MapDone, Die, Local, cluster
  <2>7. CASE TrackLookup(c) \/ TrackNew(c) \/ TrackDone(c) \/ WritePodRow(c) \/ PublishCount(c)
             \/ ReadPodnum(c)
    BY <2>7 DEF TrackLookup, TrackNew, TrackNewWith, TrackDone, TrackDoneAfter, WritePodRow,
                PublishCount, PublishCountOf, ReadPodnum, Die, Local, cluster
  <2> QED BY <1>2, <2>1, <2>2, <2>3, <2>4, <2>5, <2>6, <2>7 DEF Step, AppendStep, TotalStep
<1> QED BY <1>1, <1>2 DEF Next

-----------------------------------------------------------------------------
\* podmap once every GPU has its entry.

\* Lemma: a cycle is at one of the GPUs.
LEMMA GpuBounds ==
  ASSUME ConstantsAssumption, IInv, NEW c \in Cycle
  PROVE  /\ loc[c].gpu \in Int /\ loc[c].count \in Int /\ loc[c].count <= NumGPU
         /\ pc[c] \in AtGPU => loc[c].gpu \in GPU
<1>1. /\ loc[c] \in Locals /\ NumGPU \in Nat
  BY LocalsType, Numbers DEF IInv
<1>2. /\ loc[c].gpu \in 0 .. NumGPU + 1 /\ loc[c].count \in {0, NumGPU}
  BY <1>1 DEF Locals
<1>3. pc[c] \in AtGPU => 1 <= loc[c].gpu /\ loc[c].gpu <= loc[c].count
  BY DEF IInv, CyclesOK, CycleOK
<1> QED BY <1>1, <1>2, <1>3 DEF GPU

\* Once podmap has an entry for every GPU while no append is under way, it stays as it is
\* until the process ends and no podmap[i] is missing (the test before the append in Gpumetric).
THEOREM PodmapStaysSettled == Spec => PodmapSettles
<1>1. ASSUME ConstantsAssumption, IInv, [Next]_vars, Settled
      PROVE  (Settled' /\ podmap' = podmap) \/ proc' \notin {"up", "podmap"}
  <2>0. /\ proc = "up" /\ podmap.len >= NumGPU /\ \A c \in Cycle : ~Appending(c)
        /\ TypeOK /\ podmap.len \in Nat /\ NumGPU \in Nat
    BY <1>1, SliceType, Numbers DEF Settled, IInv
  <2>1. proc' # "podmap"
    BY <1>1, <2>0, PodmapPanics, GpuBounds DEF AtGPU, Labels, GPU
  <2>2. CASE ~Survives
    BY <2>1, <2>2 DEF Survives, Die, Exits
  <2>3. CASE Survives
    <3>1. CASE Still
      BY <2>0, <3>1 DEF Still, Settled, Appending, cluster, control, tracked
    <3>2. CASE Boot
      BY <2>0, <3>2 DEF Boot
    <3>3. ASSUME NEW c \in Cycle, Mine(c), podmap' = podmap, ~Appending(c)'
          PROVE  Settled' /\ podmap' = podmap
      BY <2>0, <3>3 DEF Settled, Appending, Mine, cluster
    <3>4. ASSUME NEW c \in Cycle, Spawn(c)
          PROVE  Settled' /\ podmap' = podmap
      BY <2>0, <3>4 DEF Spawn, Settled, Appending, tracked, TypeOK
    <3>5. ASSUME NEW c \in Cycle, LoopStep(c)
          PROVE  Settled' /\ podmap' = podmap
      <4>1. CASE CheckPodmap(c)
        <5>1. Mine(c) /\ podmap' = podmap /\ pc'[c] = "enter"
          <6>1. loc[c].count \in Int /\ loc[c].count <= NumGPU
            BY <1>1, GpuBounds
          <6>2. /\ Mine(c) /\ podmap' = podmap
                /\ pc'[c] = IF podmap.len < loc[c].count THEN "append" ELSE "enter"
            BY <1>1, <2>3, <4>1, LoopSays DEF tracked
          <6> QED BY <2>0, <6>1, <6>2
        <5> QED BY <3>3, <5>1 DEF Appending
      <4>2. CASE InitFails(c) \/ InitCounts(c) \/ EnterGPU(c)
        <5>1. Mine(c) /\ podmap' = podmap /\ pc'[c] \in {"idle", "loop", "point"}
          BY <1>1, <2>3, <4>2, LoopSays DEF tracked
        <5> QED BY <3>3, <5>1 DEF Appending
      <4>3. CASE PointToEntry(c) \/ WriteGpuRow(c) \/ SpawnAnalyzer(c)
        <5>1. Mine(c) /\ podmap' = podmap /\ pc'[c] \in {"read", "loop", "zero"}
          BY <1>1, <2>3, <4>3, LoopSays DEF tracked
        <5> QED BY <3>3, <5>1 DEF Appending
      <4> QED BY <3>5, <4>1, <4>2, <4>3 DEF LoopStep
    <3>6. ASSUME NEW c \in Cycle, AppendStep(c)
          PROVE  FALSE
      BY <1>1, <2>0, <3>6, AppendSays DEF AppendStep, Appending
    <3>7. ASSUME NEW c \in Cycle, TotalStep(c)
          PROVE  Settled' /\ podmap' = podmap
      <4>1. Mine(c) /\ podmap' = podmap /\ pc'[c] \in {"load", "add", "idle"}
        BY <1>1, <3>7, TotalSays DEF TotalStep, tracked
      <4> QED BY <3>3, <4>1 DEF Appending
    <3>8. ASSUME NEW c \in Cycle, InEntryStep(c)
          PROVE  Settled' /\ podmap' = podmap
      <4>1. Mine(c) /\ podmap' = podmap /\ pc'[c] \in InEntry
        BY <1>1, <2>3, <3>8, EntrySays
      <4> QED BY <3>3, <4>1 DEF Appending, InEntry
    <3> QED BY <1>1, <2>3, <3>1, <3>2, <3>4, <3>5, <3>6, <3>7, <3>8, NextCases
  <2> QED BY <2>2, <2>3
<1>2. ASSUME ConstantsAssumption, IInv, [Next]_vars
      PROVE  [StaysSettled]_vars
  BY <1>1, <1>2 DEF StaysSettled
<1> QED BY <1>2, InvariantIInv, ConstantsAssumption, PTL DEF Spec, PodmapSettles

-----------------------------------------------------------------------------
\* podmap while its entries are made, as long as no append is lost.

\* A process that is down has nothing in memory.
Down ==
  proc # "up" =>
    /\ podmap = Nil /\ \A c \in Cycle : pc[c] = "idle"
    /\ TotalPodnum = 0 /\ GPUPod = [g \in GPU |-> <<>>]

\* Cycles that have passed the test and will store an entry.
Making == {"append", "grow", "store"}
Makers == {c \in Cycle : pc[c] \in Making}
Room   == podmap.len + Cardinality(Makers) <= NumGPU + Cardinality(Cycle) - 1

\* podmap[i] exists for the GPU a cycle is at, or will when it has made it.
Within(label, l, len) ==
  /\ label \in Making \cup {"loop"} => l.gpu <= len + 1
  /\ label \in InEntry \cup {"clear", "enter", "point"} => l.gpu <= len

Unlost ==
  ~overtaken => /\ proc # "podmap" /\ Room
                /\ \A c \in Cycle : Within(pc[c], loc[c], podmap.len)

\* Lemma: there are finitely many cycles, and so finitely many that make an entry.
LEMMA CycleCardinality ==
  ASSUME ConstantsAssumption
  PROVE  /\ IsFiniteSet(Cycle) /\ Cardinality(Cycle) \in Nat /\ Cardinality(Cycle) >= 1
         /\ IsFiniteSet(Makers) /\ Cardinality(Makers) \in Nat
         /\ IsFiniteSet(Makers') /\ Cardinality(Makers') \in Nat
         /\ Cardinality(Makers') <= Cardinality(Cycle)
<1>1. IsFiniteSet(Cycle) /\ Cycle # {}
  BY DEF ConstantsAssumption
<1>2. Cardinality(Cycle) \in Nat /\ Cardinality(Cycle) # 0
  BY <1>1, FS_CardinalityType, FS_EmptySet
<1>3. Makers \in SUBSET Cycle /\ Makers' \in SUBSET Cycle
  BY DEF Makers
<1>4. /\ IsFiniteSet(Makers) /\ IsFiniteSet(Makers')
      /\ Cardinality(Makers') <= Cardinality(Cycle)
  BY <1>1, <1>3, FS_Subset
<1> QED BY <1>1, <1>2, <1>4, FS_CardinalityType

\* Lemma: a process that ends leaves an empty podmap, and no cycle.
LEMMA AfterDie ==
  ASSUME ConstantsAssumption, NEW why, Die(why)
  PROVE  Down' /\ Room' /\ \A c \in Cycle : Within(pc[c], loc[c], podmap.len)'
<1>1. podmap' = Nil /\ podmap'.len = 0
  BY DEF Die, Nil
<1>2. \A c \in Cycle : pc'[c] = "idle"
  BY DEF Die
<1>3. Makers' = {}
  BY <1>2 DEF Makers, Making
<1>4. Cardinality(Makers') = 0
  BY <1>3, FS_EmptySet
<1>5. Room'
  BY <1>1, <1>4, CycleCardinality, Numbers DEF Room
<1>6. \A c \in Cycle : Within(pc[c], loc[c], podmap.len)'
  BY <1>2 DEF Within, Making, InEntry
<1> QED BY <1>1, <1>2, <1>5, <1>6 DEF Down, Die

\* Lemma: a cycle only steps in a process that is up.
LEMMA DownStep ==
  ASSUME ConstantsAssumption, IInv, Down, [Next]_vars
  PROVE  Down'
<1>1. CASE ~Survives
  BY <1>1, AfterDie DEF Survives
<1>2. CASE Still
  BY <1>2 DEF Still, Down, cluster, control, tracked, records
<1>3. CASE Boot
  BY <1>3 DEF Boot, Down
<1>4. ASSUME Survives, NEW c \in Cycle,
             Spawn(c) \/ LoopStep(c) \/ AppendStep(c) \/ TotalStep(c) \/ InEntryStep(c)
      PROVE  Down'
  <2>1. CASE Spawn(c)
    BY <2>1 DEF Spawn, Down
  <2>2. CASE LoopStep(c)
    <3>1. Mine(c) /\ pc[c] # "idle"
      BY <1>4, <2>2, LoopSays DEF LoopStep
    <3> QED BY <3>1 DEF Down, Mine, cluster
  <2>3. CASE AppendStep(c)
    <3>1. Mine(c) /\ pc[c] # "idle"
      BY <2>3, AppendSays DEF AppendStep
    <3> QED BY <3>1 DEF Down, Mine, cluster
  <2>4. CASE TotalStep(c)
    <3>1. Mine(c) /\ pc[c] # "idle"
      BY <2>4, TotalSays DEF TotalStep
    <3> QED BY <3>1 DEF Down, Mine, cluster
  <2>5. CASE InEntryStep(c)
    <3>1. Mine(c) /\ pc[c] # "idle"
      BY <1>4, <2>5, EntrySays DEF InEntry
    <3> QED BY <3>1 DEF Down, Mine, cluster
  <2> QED BY <1>4, <2>1, <2>2, <2>3, <2>4, <2>5
<1> QED BY <1>1, <1>2, <1>3, <1>4, NextCases

\* Lemma: a step of a cycle that starts no append.
LEMMA RoomAfterMove ==
  ASSUME ConstantsAssumption, IInv, Room, NEW c \in Cycle, Mine(c), podmap' = podmap,
         pc'[c] \in Making => pc[c] \in Making
  PROVE  Room'
<1>1. Makers' \in SUBSET Makers
  BY DEF Makers, Mine
<1>2. Cardinality(Makers') <= Cardinality(Makers)
  BY <1>1, CycleCardinality, FS_Subset
<1>3. podmap.len \in Nat
  BY SliceType DEF IInv
<1> QED BY <1>2, <1>3, CycleCardinality, Numbers DEF Room

\* Lemma: the entry that is stored uses the room its own test had kept.
LEMMA RoomAfterStore ==
  ASSUME ConstantsAssumption, IInv, Room, NEW c \in Cycle, Mine(c),
         podmap'.len = podmap.len + 1, pc[c] = "store", pc'[c] = "clear"
  PROVE  Room'
<1>1. Makers' = Makers \ {c} /\ c \in Makers
  BY DEF Makers, Making, Mine
<1>2. Cardinality(Makers') = Cardinality(Makers) - 1
  BY <1>1, CycleCardinality, FS_RemoveElement
<1>3. podmap.len \in Nat
  BY SliceType DEF IInv
<1> QED BY <1>2, <1>3, CycleCardinality, Numbers DEF Room

\* Lemma: a cycle that passes the test has seen room for one entry more.
LEMMA RoomAfterCheck ==
  ASSUME ConstantsAssumption, IInv, NEW c \in Cycle, podmap' = podmap, podmap.len < loc[c].count
  PROVE  Room'
<1>1. podmap.len \in Nat /\ loc[c].count \in Int /\ loc[c].count <= NumGPU
  BY SliceType, GpuBounds DEF IInv
<1> QED BY <1>1, CycleCardinality, Numbers DEF Room

\* Lemma: one cycle moves to a place podmap has the entry for, and podmap grows or stays.
LEMMA UnlostAfter ==
  ASSUME ConstantsAssumption, IInv, Down, Unlost, ~overtaken, NEW c \in Cycle, Mine(c),
         podmap' \in Header, podmap.len <= podmap'.len, Room', Within(pc'[c], loc'[c], podmap'.len)
  PROVE  Unlost'
<1>1. proc' # "podmap"
  BY DEF Unlost, Mine, cluster
<1>2. ASSUME NEW d \in Cycle \ {c}
      PROVE  Within(pc'[d], loc'[d], podmap'.len)
  <2>1. Within(pc[d], loc[d], podmap.len) /\ pc'[d] = pc[d] /\ loc'[d] = loc[d]
    BY <1>2 DEF Unlost, Mine
  <2>2. podmap.len \in Nat /\ podmap'.len \in Nat /\ loc[d].gpu \in Int
    BY <1>2, SliceType, GpuBounds DEF IInv, Header
  <2> QED BY <2>1, <2>2 DEF Within
<1> QED BY <1>1, <1>2 DEF Unlost

\* Lemma: no step, of any cycle, takes more room than there is or leaves podmap[i] missing.
LEMMA UnlostStep ==
  ASSUME ConstantsAssumption, IInv, Down, Unlost, [Next]_vars
  PROVE  Unlost'
<1>0. /\ TypeOK /\ podmap \in Header /\ podmap.len \in Nat /\ NumGPU \in Nat
      /\ \A c \in Cycle : loc[c].gpu \in Int /\ loc[c].count \in Int
  BY SliceType, Numbers, GpuBounds DEF IInv
<1>1. CASE ~Survives
  <2>1. PICK why \in Exits : Die(why)
    BY <1>1 DEF Survives
  <2>2. overtaken' = overtaken /\ proc' = why
    BY <2>1 DEF Die, history
  <2>3. ASSUME ~overtaken
        PROVE  proc' # "podmap"
    <3>1. proc # "podmap" /\ \A c \in Cycle : Within(pc[c], loc[c], podmap.len)
      BY <2>3 DEF Unlost
    <3>2. ASSUME NEW c \in Cycle, pc[c] \in {"enter", "point"}
          PROVE  loc[c].gpu <= podmap.len
      BY <3>1, <3>2 DEF Within
    <3> QED BY <1>0, <3>1, <3>2, PodmapPanics
  <2> QED BY <2>1, <2>2, <2>3, AfterDie DEF Unlost
<1>2. CASE Still
  BY <1>2 DEF Still, Unlost, Room, Makers, cluster, control, tracked, history
<1>3. CASE Boot
  <2>1. /\ podmap' = Nil /\ (\A c \in Cycle : pc'[c] = "idle") /\ proc' = "up"
    BY <1>3 DEF Boot, Down, control, tracked
  <2>2. Makers' = {} /\ podmap'.len = 0
    BY <2>1 DEF Makers, Making, Nil
  <2>3. Room'
    BY <2>2, FS_EmptySet, CycleCardinality, Numbers DEF Room
  <2> QED BY <2>1, <2>3 DEF Unlost, Within, Making, InEntry
<1>4. ASSUME Survives, overtaken, NEW c \in Cycle,
             Spawn(c) \/ LoopStep(c) \/ AppendStep(c) \/ TotalStep(c) \/ InEntryStep(c)
      PROVE  overtaken'
  <2>1. CASE Spawn(c)
    BY <1>4, <2>1 DEF Spawn, history
  <2>2. CASE LoopStep(c)
    BY <1>4, <2>2, LoopSays DEF LoopStep, history
  <2>3. CASE AppendStep(c)
    BY <1>4, <2>3, AppendSays DEF AppendStep, history
  <2>4. CASE TotalStep(c)
    BY <1>4, <2>4, TotalSays DEF TotalStep, history
  <2>5. CASE InEntryStep(c)
    BY <1>4, <2>5, EntrySays DEF history
  <2> QED BY <1>4, <2>1, <2>2, <2>3, <2>4, <2>5
<1>5. ASSUME Survives, ~overtaken, ~overtaken', NEW c \in Cycle,
             Spawn(c) \/ LoopStep(c) \/ AppendStep(c) \/ TotalStep(c) \/ InEntryStep(c)
      PROVE  Unlost'
  <2>0. Room /\ Within(pc[c], loc[c], podmap.len)
    BY <1>5 DEF Unlost
  <2>1. ASSUME Mine(c), podmap' = podmap, pc'[c] \in Making => pc[c] \in Making,
               Within(pc'[c], loc'[c], podmap.len)
        PROVE  Unlost'
    <3>1. Room'
      BY <2>0, <2>1, RoomAfterMove
    <3> QED BY <1>0, <1>5, <2>1, <3>1, UnlostAfter
  <2>2. CASE Spawn(c)
    <3>1. pc'[c] = "init" /\ podmap' = podmap /\ proc' = "up" /\ proc = "up"
          /\ \A d \in Cycle \ {c} : pc'[d] = pc[d] /\ loc'[d] = loc[d]
      BY <1>0, <2>2 DEF Spawn, tracked, TypeOK
    <3>2. Makers' \in SUBSET Makers
      BY <3>1 DEF Makers, Making
    <3>3. Room'
      BY <1>0, <2>0, <3>1, <3>2, CycleCardinality, FS_Subset, Numbers DEF Room
    <3>4. \A d \in Cycle : Within(pc'[d], loc'[d], podmap'.len)
      BY <1>5, <3>1 DEF Unlost, Within, Making, InEntry
    <3> QED BY <3>1, <3>3, <3>4 DEF Unlost
  <2>3. CASE LoopStep(c)
    <3>1. CASE CheckPodmap(c)
      <4>1. /\ Mine(c) /\ podmap' = podmap /\ loc'[c] = loc[c] /\ pc[c] = "loop"
            /\ loc[c].gpu <= loc[c].count
            /\ pc'[c] = IF podmap.len < loc[c].count THEN "append" ELSE "enter"
        BY <1>5, <3>1, LoopSays DEF tracked
      <4>2. loc[c].gpu <= podmap.len + 1
        BY <2>0, <4>1 DEF Within
      <4>3. CASE podmap.len < loc[c].count
        <5>1. Room'
          BY <4>1, <4>3, RoomAfterCheck
        <5>2. Within(pc'[c], loc'[c], podmap.len)
          BY <4>1, <4>2, <4>3 DEF Within, Making, InEntry
        <5> QED BY <1>0, <1>5, <4>1, <5>1, <5>2, UnlostAfter
      <4>4. CASE ~(podmap.len < loc[c].count)
        <5>1. pc'[c] = "enter" /\ loc[c].gpu <= podmap.len
          BY <1>0, <4>1, <4>4
        <5> QED BY <2>1, <4>1, <5>1 DEF Within, Making, InEntry
      <4> QED BY <4>3, <4>4
    <3>2. CASE InitFails(c) \/ InitCounts(c)
      <4>1. /\ Mine(c) /\ podmap' = podmap
            /\ pc'[c] = "idle" \/ (pc'[c] = "loop" /\ loc'[c].gpu = 1)
        BY <1>5, <3>2, LoopSays DEF tracked
      <4> QED BY <1>0, <2>1, <4>1 DEF Within, Making, InEntry
    <3>3. CASE EnterGPU(c) \/ PointToEntry(c)
      <4>1. /\ Mine(c) /\ podmap' = podmap /\ pc'[c] \in {"point", "read"}
            /\ loc'[c].gpu = loc[c].gpu /\ loc[c].gpu <= podmap.len
        BY <1>5, <3>3, LoopSays DEF tracked
      <4> QED BY <2>1, <4>1 DEF Within, Making, InEntry
    <3>4. CASE WriteGpuRow(c) \/ SpawnAnalyzer(c)
      <4>1. /\ Mine(c) /\ podmap' = podmap
            /\ \/ pc'[c] = "zero"
               \/ pc[c] = "gpurow" /\ pc'[c] = "loop" /\ loc'[c].gpu = loc[c].gpu + 1
        BY <1>5, <3>4, LoopSays DEF tracked
      <4>2. pc[c] = "gpurow" => loc[c].gpu <= podmap.len
        BY <2>0 DEF Within, InEntry
      <4> QED BY <1>0, <2>1, <4>1, <4>2 DEF Within, Making, InEntry
    <3> QED BY <2>3, <3>1, <3>2, <3>3, <3>4 DEF LoopStep
  <2>4. CASE AppendStep(c)
    <3>1. CASE StorePodmap(c)
      <4>1. /\ Mine(c) /\ pc[c] = "store" /\ pc'[c] = "clear" /\ loc'[c] = loc[c]
            /\ podmap' = [arr |-> loc[c].arr, len |-> loc[c].header.len + 1]
            /\ loc[c].header = podmap
        BY <1>5, <3>1, AppendSays
      <4>2. podmap'.len = podmap.len + 1
        BY <4>1
      <4>3. podmap' \in Header
        BY <1>0, <4>1, LocalsType DEF Header
      <4>4. Room'
        BY <2>0, <4>1, <4>2, RoomAfterStore
      <4>5. Within(pc'[c], loc'[c], podmap'.len)
        BY <2>0, <4>1, <4>2 DEF Within, Making, InEntry
      <4> QED BY <1>0, <1>5, <4>1, <4>2, <4>3, <4>4, <4>5, UnlostAfter
    <3>2. CASE LoadPodmap(c) \/ GrowPodmap(c)
      <4>1. /\ Mine(c) /\ podmap' = podmap /\ pc[c] \in Making /\ pc'[c] \in {"grow", "store"}
            /\ loc'[c].gpu = loc[c].gpu
        BY <3>2, AppendSays DEF tracked, Making
      <4> QED BY <2>0, <2>1, <4>1 DEF Within, Making, InEntry
    <3>3. CASE ClearEntry(c)
      <4>1. /\ Mine(c) /\ podmap' = podmap /\ pc[c] = "clear" /\ pc'[c] = "enter"
            /\ loc'[c] = loc[c]
        BY <3>3, AppendSays
      <4> QED BY <2>0, <2>1, <4>1 DEF Within, Making, InEntry
    <3> QED BY <2>4, <3>1, <3>2, <3>3 DEF AppendStep
  <2>5. CASE TotalStep(c)
    <3>1. Mine(c) /\ podmap' = podmap /\ pc'[c] \in {"load", "add", "idle"}
      BY <2>5, TotalSays DEF TotalStep, tracked
    <3> QED BY <2>1, <3>1 DEF Within, Making, InEntry
  <2>6. CASE InEntryStep(c)
    <3>1. /\ Mine(c) /\ podmap' = podmap /\ pc[c] \in InEntry /\ pc'[c] \in InEntry
          /\ loc'[c].gpu = loc[c].gpu
      BY <1>5, <2>6, EntrySays
    <3> QED BY <2>0, <2>1, <3>1 DEF Within, Making, InEntry
  <2> QED BY <1>5, <2>2, <2>3, <2>4, <2>5, <2>6
<1>6. ASSUME overtaken'
      PROVE  Unlost'
  BY <1>6 DEF Unlost
<1> QED BY <1>1, <1>2, <1>3, <1>4, <1>5, <1>6, NextCases

\* What holds at the start.
LEMMA InitDown == ConstantsAssumption /\ Init => Down /\ Unlost
<1> SUFFICES ASSUME ConstantsAssumption, Init  PROVE Down /\ Unlost
  OBVIOUS
<1>1. podmap.len = 0 /\ Makers = {} /\ proc = "killed" /\ \A c \in Cycle : pc[c] = "idle"
  BY DEF Init, Makers, Making, Nil
<1>2. Room
  BY <1>1, FS_EmptySet, CycleCardinality, Numbers DEF Room
<1> QED BY <1>1, <1>2 DEF Init, Down, Unlost, Within, Making, InEntry

\* gpumetric.go:69-70: as long as no append is lost, podmap[i] exists when a cycle
\* indexes it, and though tests and appends interleave, podmap outgrows the GPUs by
\* no more than one entry for each other cycle.
THEOREM PodmapStaysBounded == Spec => []PodmapBounded
<1>1. Init => Down /\ Unlost
  BY InitDown, ConstantsAssumption
<1>2. IInv /\ Down /\ Unlost /\ [Next]_vars => Down' /\ Unlost'
  BY DownStep, UnlostStep, ConstantsAssumption
<1>3. IInv /\ Unlost => PodmapBounded
  <2> SUFFICES ASSUME IInv, Unlost, ~overtaken
               PROVE  podmap.len <= NumGPU + Cardinality(Cycle) - 1
    BY DEF PodmapBounded, Unlost
  <2>1. Room /\ podmap.len \in Nat
    BY SliceType DEF Unlost, IInv
  <2> QED BY <2>1, ConstantsAssumption, CycleCardinality, Numbers DEF Room
<1> QED BY <1>1, <1>2, <1>3, InvariantIInv, PTL DEF Spec

-----------------------------------------------------------------------------
\* Cycles that do not overlap: from here on c is the only goroutine of Cycle.

\* Labels at which GPUPod of the GPU is the cycle's own.
Inside == InEntry \cup {"point"}

\* Nothing happens inside a GPU.
Elsewhere(c) ==
  /\ UNCHANGED <<GPUPod, GPUAssingment, GrpcGPUmpscount, gpuRow>>
  /\ UNCHANGED control \/ (pc[c] \notin Inside /\ pc'[c] \notin Inside)

\* Lemma: the lone cycle's steps.
LEMMA LoneSteps ==
  ASSUME ConstantsAssumption, IInv, NEW c \in Cycle, Cycle = {c}, [Next]_vars, Survives
  PROVE  Elsewhere(c) \/ EnterGPU(c) \/ PointToEntry(c) \/ WriteGpuRow(c) \/ InEntryStep(c)
<1>1. CASE Still \/ Boot
  BY <1>1 DEF Still, Boot, Elsewhere, records
<1>2. CASE Spawn(c)
  BY <1>2 DEF Spawn, Elsewhere, Inside, InEntry, records, db, IInv, TypeOK
<1>3. CASE InitFails(c) \/ InitCounts(c) \/ CheckPodmap(c) \/ SpawnAnalyzer(c)
  <2>1. /\ UNCHANGED <<records, gpuRow>> /\ pc[c] \in {"init", "loop"}
        /\ pc'[c] \in {"idle", "loop", "append", "enter", "zero"}
    BY <1>3, LoopSays
  <2> QED BY <2>1 DEF Elsewhere, Inside, InEntry, records
<1>4. CASE AppendStep(c)
  <2>1. /\ UNCHANGED <<records, gpuRow>> /\ pc[c] \in {"append", "grow", "store", "clear"}
        /\ pc'[c] \in {"grow", "store", "clear", "enter"}
    BY <1>4, AppendSays DEF AppendStep
  <2> QED BY <2>1 DEF Elsewhere, Inside, InEntry, records
<1>5. CASE TotalStep(c)
  <2>1. /\ UNCHANGED <<GPUPod, GPUAssingment, GrpcGPUmpscount, gpuRow>>
        /\ pc[c] \in {"zero", "load", "add"} /\ pc'[c] \in {"load", "add", "idle"}
    BY <1>5, TotalSays DEF TotalStep, records
  <2> QED BY <2>1 DEF Elsewhere, Inside, InEntry
<1> QED BY <1>1, <1>2, <1>3, <1>4, <1>5, NextCases DEF LoopStep

\* The lists of a cycle inside a GPU: GPUPod starts empty, never has more entries than
\* pods were passed, has one for each pod whose row was written, and then as many as
\* were counted.
Listing(c) ==
  /\ pc[c] \in {"point", "read", "list"} => Listed(c) = <<>>
  /\ pc[c] = "map" => /\ Len(Listed(c)) <= loc[c].j - 1
                      /\ loc[c].j <= Len(loc[c].pods) + 1
  /\ pc[c] \in {"track", "count", "rows"} => Len(Listed(c)) <= Len(loc[c].pods)
  /\ pc[c] = "rows" => loc[c].j - 1 <= Len(Listed(c))
  /\ pc[c] = "podnum" => GrpcGPUmpscount[loc[c].gpu] = Len(Listed(c))
  /\ pc[c] = "gpurow" => GrpcGPUmpscount[loc[c].gpu] = loc[c].value

\* Lemma: what mapping a pod does to GPUPod: no entry is lost, one may be added, and
\* the pod's own is written.
LEMMA MapSays ==
  ASSUME ConstantsAssumption, IInv, NEW c \in Cycle, MapPod(c), ~Die("index")
  PROVE  /\ pc[c] = "map" /\ pc'[c] = "map" /\ loc[c].j <= Len(loc[c].pods) /\ Matches(c) # {}
         /\ loc'[c].j = loc[c].j + 1 /\ loc'[c].gpu = loc[c].gpu /\ loc'[c].arr = loc[c].arr
         /\ loc'[c].procs = loc[c].procs /\ loc'[c].pods = loc[c].pods
         /\ Len(Listed(c)') = Len(Listed(c)) + 1 /\ loc[c].j \in 1 .. Len(Listed(c)')
         /\ Listed(c)'[loc[c].j] = [cid |-> loc[c].pods[loc[c].j], owner |-> loc[c].procs[Position(c)]]
         /\ \A k \in 1 .. Len(Listed(c)') \ {loc[c].j} :
              Listed(c)'[k] = IF k <= Len(Listed(c)) THEN Listed(c)[k] ELSE Blank
         /\ \A g \in GPU \ {loc[c].gpu} : GPUPod'[g] = GPUPod[g]
         /\ UNCHANGED <<tracked, GPUAssingment, GrpcGPUmpscount, gpuRow>>
<1> DEFINE g     == loc[c].gpu
           i     == loc[c].j
           entry == [cid |-> loc[c].pods[i], owner |-> loc[c].procs[Position(c)]]
           old   == GPUPod[g]
           grown == Append(old, Blank)
           new   == [grown EXCEPT ![i] = entry]
<1>1. pc[c] = "map" /\ i <= Len(loc[c].pods) /\ Matches(c) # {}
  BY DEF MapPod
<1>2. /\ loc[c] \in Locals /\ g \in GPU /\ old \in Seq(PodMetric) /\ i \in Nat
      /\ loc[c].pods \in Seq(Pod)
  BY <1>1, InsideType DEF InEntry
<1>3. i >= 1
  BY <1>1 DEF IInv, CyclesOK, CycleOK
<1>4. IF i > Len(grown)
        THEN Die("index")
        ELSE /\ SetGPUPod(c, new)
             /\ Goto(c, "map", [loc[c] EXCEPT !.j = @ + 1])
             /\ UNCHANGED <<cluster, tracked, analyzers, db, history>>
  BY DEF MapPod
<1>5. /\ grown \in Seq(PodMetric \cup {Blank}) /\ Len(grown) = Len(old) + 1
      /\ Len(old) \in Nat /\ DOMAIN grown = 1 .. Len(old) + 1
      /\ \A k \in 1 .. Len(grown) : grown[k] = IF k <= Len(old) THEN old[k] ELSE Blank
  BY <1>2
<1>6. /\ i <= Len(grown) /\ GPUPod' = [GPUPod EXCEPT ![g] = new]
      /\ UNCHANGED <<GPUAssingment, GrpcGPUmpscount, tracked, gpuRow>>
      /\ Goto(c, "map", [loc[c] EXCEPT !.j = i + 1])
  BY <1>2, <1>4, <1>5 DEF SetGPUPod, db
<1>7. /\ pc'[c] = "map" /\ loc'[c].j = i + 1 /\ loc'[c].gpu = g /\ loc'[c].arr = loc[c].arr
      /\ loc'[c].procs = loc[c].procs /\ loc'[c].pods = loc[c].pods
  <2>1. TypeOK
    BY DEF IInv
  <2>2. Goto(c, "map", [loc[c] EXCEPT !.j = i + 1])
    BY <1>6
  <2>3. /\ pc'[c] = "map" /\ loc'[c].j = i + 1
        /\ loc'[c].gpu = loc[c].gpu /\ loc'[c].arr = loc[c].arr /\ loc'[c].procs = loc[c].procs
        /\ loc'[c].pods = loc[c].pods
    <3> HIDE DEF old, grown, new, entry, g
    <3> QED BY ONLY <2>1, <2>2, c \in Cycle, MoveJ
  <2> QED BY <2>3
<1>8. loc'[c].gpu = g
  BY <1>7
<1>9. GPUPod'[g] = new /\ \A h \in GPU \ {g} : GPUPod'[h] = GPUPod[h]
  BY <1>2, <1>6 DEF IInv, TypeOK
<1>10. Listed(c)' = new
  BY <1>8, <1>9 DEF Listed
<1> HIDE DEF grown, entry
<1>11. /\ Len(new) = Len(grown) /\ new[i] = entry /\ i \in 1 .. Len(grown)
       /\ \A k \in 1 .. Len(grown) \ {i} : new[k] = grown[k]
  BY <1>2, <1>3, <1>5, <1>6
<1>12. Listed(c) = old
  BY DEF Listed
<1> HIDE DEF new, old
<1> QED BY <1>1, <1>5, <1>6, <1>7, <1>9, <1>10, <1>11, <1>12 DEF entry

\* Lemma: lists that are compared are taken, or read again.
LEMMA ListSays ==
  ASSUME ConstantsAssumption, IInv, NEW c \in Cycle, ListPods(c), ~Die("fatal"), ~Die("index")
  PROVE  /\ pc[c] = "list" /\ Local(c)
         /\ loc'[c].gpu = loc[c].gpu /\ loc'[c].arr = loc[c].arr /\ loc'[c].procs = loc[c].procs
         /\ pc'[c] = "read" \/ (pc'[c] = "map" /\ loc'[c].j = 1 /\ loc'[c].pods \in Seq(Pod))
<1>1. PICK s \in Snapshots :
          IF Accepted(s[2], mpscount(s[1]))
            THEN /\ Goto(c, "map", [loc[c] EXCEPT !.pods = s[2], !.j = 1])
                 /\ Local(c)
            ELSE /\ IF (Len(s[2]) = 0 /\ mpscount(s[1]) = 0) \/ loc[c].tries = MaxTries
                      THEN Goto(c, "map", [loc[c] EXCEPT !.pods = <<>>, !.j = 1])
                      ELSE Goto(c, "read", loc[c])
                 /\ Local(c)
  BY Zenon DEF ListPods
<1>2. s[2] \in Seq(Pod) /\ <<>> \in Seq(Pod)
  BY DEF ConstantsAssumption
<1>3. pc[c] = "list" /\ TypeOK /\ Local(c)
  BY <1>1 DEF ListPods, IInv
<1> DEFINE Same == loc'[c].gpu = loc[c].gpu /\ loc'[c].arr = loc[c].arr /\ loc'[c].procs = loc[c].procs
<1>4. CASE Goto(c, "read", loc[c])
  <2>1. pc'[c] = "read" /\ Same
    BY <1>3, <1>4, OthersStay
  <2> QED BY <1>3, <2>1
<1>5. ASSUME NEW pods \in Seq(Pod), Goto(c, "map", [loc[c] EXCEPT !.pods = pods, !.j = 1])
      PROVE  pc'[c] = "map" /\ loc'[c].j = 1 /\ loc'[c].pods \in Seq(Pod) /\ Same
  <2>1. pc'[c] = "map" /\ loc'[c].pods = pods /\ loc'[c].j = 1 /\ Same
    BY <1>3, <1>5, MovePods, Zenon
  <2> QED BY <1>5, <2>1
<1> QED BY <1>1, <1>2, <1>3, <1>4, <1>5, Zenon

\* Lemma: every step of the lone cycle keeps its lists' lengths in order.
LEMMA ListingStep ==
  ASSUME ConstantsAssumption, IInv, NEW c \in Cycle, Cycle = {c}, [Next]_vars, Listing(c)
  PROVE  Listing(c)'
<1>0. TypeOK
  BY DEF IInv
<1>1. CASE ~Survives
  BY <1>1 DEF Survives, Die, Listing
<1>2. CASE Elsewhere(c)
  <2>1. CASE UNCHANGED control
    BY <1>2, <2>1 DEF Elsewhere, control, Listing, Listed
  <2>2. CASE pc'[c] \notin Inside
    BY <2>2 DEF Listing, Inside, InEntry
  <2> QED BY <1>2, <2>1, <2>2 DEF Elsewhere
<1>3. ASSUME Survives
      PROVE  ~Die("fatal") /\ ~Die("index")
  BY <1>3 DEF Survives, Exits
<1>4. CASE Survives /\ EnterGPU(c)
  <2>1. /\ pc[c] = "enter" /\ pc'[c] = "point" /\ GPUPod' = [GPUPod EXCEPT ![loc[c].gpu] = <<>>]
        /\ loc'[c] = loc[c]
    BY <1>4, LoopSays
  <2>2. loc[c].gpu \in GPU
    BY <2>1, GpuBounds DEF AtGPU, Labels
  <2>3. Listed(c)' = <<>>
    BY <1>0, <2>1, <2>2 DEF Listed, TypeOK
  <2> QED BY <2>1, <2>3 DEF Listing
<1>5. CASE Survives /\ PointToEntry(c)
  <2>1. /\ pc[c] = "point" /\ pc'[c] = "read" /\ GPUPod' = GPUPod /\ loc'[c].gpu = loc[c].gpu
    BY <1>5, LoopSays DEF records
  <2>2. Listed(c)' = Listed(c)
    BY <2>1 DEF Listed
  <2> QED BY <2>1, <2>2 DEF Listing
<1>6. CASE ReadProcesses(c) /\ ~Die("index")
  <2>1. PICK s \in Snapshots :
          /\ Goto(c, "list", [loc[c] EXCEPT !.tries = loc[c].tries + 1, !.procs = s[1]])
          /\ Local(c) /\ pc[c] = "read"
    BY <1>6, Zenon DEF ReadProcesses, ReadProcessesAt
  <2>2. pc'[c] = "list" /\ loc'[c].gpu = loc[c].gpu
    BY <1>0, <2>1, MoveProcs
  <2>3. Listed(c)' = Listed(c)
    BY <2>1, <2>2 DEF Listed, Local, records
  <2> QED BY <2>1, <2>2, <2>3 DEF Listing
<1>7. CASE ListPods(c) /\ ~Die("fatal") /\ ~Die("index")
  <2>1. pc[c] = "list" /\ Local(c)
    BY <1>7, ListSays
  <2>2. Listed(c) = <<>>
    BY <2>1 DEF Listing
  <2>3. loc'[c].gpu = loc[c].gpu
    BY <1>7, ListSays
  <2>4. Listed(c)' = <<>>
    BY <2>1, <2>2, <2>3 DEF Listed, Local, records
  <2>5. CASE pc'[c] = "map" /\ loc'[c].j = 1 /\ loc'[c].pods \in Seq(Pod)
    <3>1. Len(loc'[c].pods) \in Nat
      BY <2>5
    <3> QED BY <2>4, <2>5, <3>1 DEF Listing
  <2>6. CASE pc'[c] = "read"
    BY <2>4, <2>6 DEF Listing
  <2> QED BY <1>7, <2>5, <2>6, ListSays
<1>8. CASE MapPod(c) /\ ~Die("index")
  <2>1. /\ pc[c] = "map" /\ pc'[c] = "map" /\ loc[c].j <= Len(loc[c].pods)
        /\ Len(Listed(c)') = Len(Listed(c)) + 1
    BY <1>8, MapSays
  <2>2. loc'[c].j = loc[c].j + 1 /\ loc'[c].pods = loc[c].pods
    BY <1>8, MapSays
  <2>3. loc[c].j \in Nat /\ Len(loc[c].pods) \in Nat /\ Len(Listed(c)) \in Nat
    BY <2>1, InsideType DEF InEntry
  <2> QED BY <2>1, <2>2, <2>3 DEF Listing
<1>9. CASE SkipPod(c) \/ MapDone(c)
  <2>1. pc[c] = "map" /\ Local(c)
    BY <1>9 DEF SkipPod, MapDone
  <2>2. /\ loc[c].j \in Nat /\ Len(loc[c].pods) \in Nat /\ Len(Listed(c)) \in Nat
        /\ Len(Listed(c)) <= loc[c].j - 1 /\ loc[c].j <= Len(loc[c].pods) + 1
    BY <2>1, InsideType DEF InEntry, Listing
  <2>3. ASSUME NEW n, NEW label, Goto(c, label, [loc[c] EXCEPT !.j = n])
        PROVE  /\ pc'[c] = label /\ loc'[c].j = n /\ loc'[c].pods = loc[c].pods
               /\ Listed(c)' = Listed(c)
    <3>1. /\ pc'[c] = label /\ loc'[c].j = n /\ loc'[c].pods = loc[c].pods
          /\ loc'[c].gpu = loc[c].gpu
      BY <1>0, <2>3, MoveJ
    <3> QED BY <2>1, <3>1 DEF Listed, Local, records
  <2>4. CASE SkipPod(c)
    <3>1. Goto(c, "map", [loc[c] EXCEPT !.j = loc[c].j + 1]) /\ loc[c].j <= Len(loc[c].pods)
      BY <2>4 DEF SkipPod
    <3>2. /\ pc'[c] = "map" /\ loc'[c].j = loc[c].j + 1 /\ loc'[c].pods = loc[c].pods
          /\ Listed(c)' = Listed(c)
      BY <2>3, <3>1, Zenon
    <3> QED BY <2>2, <3>1, <3>2 DEF Listing
  <2>5. CASE MapDone(c)
    <3>1. Goto(c, "track", [loc[c] EXCEPT !.j = 1])
      BY <2>5 DEF MapDone
    <3>2. pc'[c] = "track" /\ loc'[c].pods = loc[c].pods /\ Listed(c)' = Listed(c)
      BY <2>3, <3>1, Zenon
    <3> QED BY <2>2, <3>2 DEF Listing
  <2> QED BY <1>9, <2>4, <2>5
<1>10. CASE TrackLookup(c) \/ (TrackNew(c) /\ ~Die("index")) \/ TrackDone(c)
  <2>1. pc[c] \in {"track", "count"} /\ GPUPod' = GPUPod
    BY <1>10 DEF TrackLookup, TrackNew, TrackNewWith, TrackDone, TrackDoneAfter, Local, records
  <2>2. Len(Listed(c)) <= Len(loc[c].pods) /\ Len(Listed(c)) \in Nat
    BY <2>1, InsideType DEF InEntry, Listing
  <2>3. ASSUME NEW n, NEW label, Goto(c, label, [loc[c] EXCEPT !.j = n])
        PROVE  /\ pc'[c] = label /\ loc'[c].j = n /\ loc'[c].pods = loc[c].pods
               /\ Listed(c)' = Listed(c)
    <3>1. /\ pc'[c] = label /\ loc'[c].j = n /\ loc'[c].pods = loc[c].pods
          /\ loc'[c].gpu = loc[c].gpu
      BY <1>0, <2>3, MoveJ
    <3> QED BY <2>1, <3>1 DEF Listed
  <2>4. CASE TrackLookup(c)
    <3>1. CASE Goto(c, "track", [loc[c] EXCEPT !.j = loc[c].j + 1])
      <4>1. /\ pc'[c] = "track" /\ loc'[c].pods = loc[c].pods /\ Listed(c)' = Listed(c)
        BY <2>3, <3>1, Zenon
      <4> QED BY <2>2, <4>1 DEF Listing
    <3>2. CASE Goto(c, "count", [loc[c] EXCEPT !.value = GPUAssingment[loc[c].gpu]])
      <4>1. /\ pc'[c] = "count" /\ loc'[c].pods = loc[c].pods /\ loc'[c].gpu = loc[c].gpu
        BY <1>0, <3>2, MoveValue
      <4>2. Listed(c)' = Listed(c)
        BY <2>1, <4>1 DEF Listed
      <4> QED BY <2>2, <4>1, <4>2 DEF Listing
    <3> QED BY <2>4, <3>1, <3>2, Zenon DEF TrackLookup
  <2>5. CASE TrackNew(c) /\ ~Die("index")
    <3>1. Goto(c, "track", [loc[c] EXCEPT !.j = loc[c].j + 1])
      BY <2>5, Zenon DEF TrackNew, TrackNewWith
    <3>2. /\ pc'[c] = "track" /\ loc'[c].pods = loc[c].pods /\ Listed(c)' = Listed(c)
      BY <2>3, <3>1, Zenon
    <3> QED BY <2>2, <3>2 DEF Listing
  <2>6. CASE TrackDone(c)
    <3>1. Goto(c, "rows", [loc[c] EXCEPT !.j = 1])
      BY <2>6 DEF TrackDone, TrackDoneAfter
    <3>2. /\ pc'[c] = "rows" /\ loc'[c].j = 1 /\ loc'[c].pods = loc[c].pods
          /\ Listed(c)' = Listed(c)
      BY <2>3, <3>1, Zenon
    <3> QED BY <2>2, <3>2 DEF Listing
  <2> QED BY <1>10, <2>4, <2>5, <2>6
<1>11. CASE WritePodRow(c) /\ ~Die("index")
  <2>1. /\ pc[c] = "rows" /\ Local(c) /\ ~(loc[c].j > Len(Listed(c)))
        /\ Goto(c, "rows", [loc[c] EXCEPT !.j = loc[c].j + 1])
    BY <1>11, Zenon DEF WritePodRow
  <2>2. /\ Len(Listed(c)) <= Len(loc[c].pods) /\ Len(Listed(c)) \in Nat /\ loc[c].j \in Nat
    BY <2>1, InsideType DEF InEntry, Listing
  <2>3. /\ pc'[c] = "rows" /\ loc'[c].j = loc[c].j + 1 /\ loc'[c].pods = loc[c].pods
        /\ loc'[c].gpu = loc[c].gpu
    BY <1>0, <2>1, MoveJ
  <2>4. Listed(c)' = Listed(c)
    BY <2>1, <2>3 DEF Listed, Local, records
  <2> QED BY <2>1, <2>2, <2>3, <2>4 DEF Listing
<1>12. CASE PublishCount(c)
  <2>1. /\ pc[c] = "rows" /\ loc[c].j > Len(loc[c].pods) /\ GPUPod' = GPUPod
        /\ GrpcGPUmpscount' = [GrpcGPUmpscount EXCEPT ![loc[c].gpu] = Len(loc[c].pods)]
        /\ pc'[c] = "podnum" /\ loc'[c] = loc[c]
    BY <1>0, <1>12, OthersStay DEF PublishCount, PublishCountOf
  <2>2. /\ Len(Listed(c)) \in Nat /\ Len(loc[c].pods) \in Nat /\ loc[c].j \in Nat
        /\ loc[c].gpu \in GPU
    BY <2>1, InsideType DEF InEntry
  <2>3. Len(Listed(c)) = Len(loc[c].pods)
    BY <2>1, <2>2 DEF Listing
  <2>4. GrpcGPUmpscount'[loc[c].gpu] = Len(loc[c].pods)
    BY <1>0, <2>1, <2>2 DEF TypeOK
  <2>5. Listed(c)' = Listed(c)
    BY <2>1 DEF Listed
  <2> QED BY <2>1, <2>3, <2>4, <2>5 DEF Listing
<1>13. CASE ReadPodnum(c)
  <2>1. /\ pc[c] = "podnum" /\ GrpcGPUmpscount' = GrpcGPUmpscount
        /\ Goto(c, "gpurow", [loc[c] EXCEPT !.value = Len(Listed(c))])
    BY <1>13 DEF ReadPodnum, Local, records
  <2>2. PICK n : n = Len(Listed(c))
    OBVIOUS
  <2>3. Goto(c, "gpurow", [loc[c] EXCEPT !.value = n]) /\ c \in Cycle
    BY <2>1, <2>2
  <2>4. pc'[c] = "gpurow" /\ loc'[c].value = n /\ loc'[c].gpu = loc[c].gpu
    BY ONLY <1>0, <2>3, MoveValue
  <2> QED BY <2>1, <2>2, <2>4 DEF Listing
<1>14. CASE Survives /\ WriteGpuRow(c)
  <2>1. pc'[c] = "loop"
    BY <1>14, LoopSays
  <2> QED BY <2>1 DEF Listing
<1> QED
  BY <1>1, <1>2, <1>3, <1>4, <1>6, <1>7, <1>8, <1>9, <1>10, <1>11, <1>12, <1>5, <1>13, <1>14,
     LoneSteps DEF InEntryStep

\* Lemma: the count served and the row's are of the same pods.
LEMMA PodnumStep ==
  ASSUME ConstantsAssumption, IInv, NEW c \in Cycle, Cycle = {c}, [Next]_vars, Listing(c), PodnumAgrees
  PROVE  PodnumAgrees'
<1>0. TypeOK
  BY DEF IInv
<1> DEFINE Ending == pc[c] \in {"podnum", "gpurow"}
<1>1. ASSUME NEW g \in GPU
      PROVE  (Ending /\ loc[c].gpu = g) \/ gpuRow[g] = GrpcGPUmpscount[g]
  BY DEF PodnumAgrees
<1>2. SUFFICES ASSUME NEW g \in GPU, ~(Ending' /\ loc'[c].gpu = g)
               PROVE  gpuRow'[g] = GrpcGPUmpscount'[g]
  BY DEF PodnumAgrees
<1>3. CASE ~Survives
  BY <1>3 DEF Survives, Die
<1>4. ASSUME UNCHANGED <<GrpcGPUmpscount, gpuRow>>, Ending => Ending' /\ loc'[c].gpu = loc[c].gpu
      PROVE  gpuRow'[g] = GrpcGPUmpscount'[g]
  BY <1>1, <1>2, <1>4
<1>5. CASE Elsewhere(c)
  BY <1>4, <1>5 DEF Elsewhere, Inside, InEntry, control
<1>6. CASE Survives /\ (EnterGPU(c) \/ PointToEntry(c))
  <2>1. UNCHANGED <<GrpcGPUmpscount, gpuRow>> /\ pc[c] \in {"enter", "point"}
    BY <1>6, LoopSays DEF records
  <2> QED BY <1>4, <2>1
<1>7. CASE Survives /\ WriteGpuRow(c)
  <2>1. /\ pc[c] = "gpurow" /\ gpuRow' = [gpuRow EXCEPT ![loc[c].gpu] = loc[c].value]
        /\ GrpcGPUmpscount' = GrpcGPUmpscount
    BY <1>7, LoopSays DEF records
  <2> QED BY <1>0, <1>1, <2>1 DEF Listing, TypeOK
<1>8. CASE Survives /\ InEntryStep(c)
  <2>1. /\ gpuRow' = gpuRow /\ loc'[c].gpu = loc[c].gpu
    BY <1>8, EntrySays
  <2>2. CASE PublishCount(c)
    <3>1. /\ pc[c] = "rows" /\ pc'[c] = "podnum"
          /\ GrpcGPUmpscount' = [GrpcGPUmpscount EXCEPT ![loc[c].gpu] = Len(loc[c].pods)]
      BY <1>0, <2>2, OthersStay DEF PublishCount, PublishCountOf
    <3> QED BY <1>0, <1>1, <1>2, <2>1, <3>1 DEF TypeOK
  <2>3. CASE ReadPodnum(c)
    <3>1. /\ pc'[c] = "gpurow" /\ GrpcGPUmpscount' = GrpcGPUmpscount
      BY <1>0, <2>3, OthersStay DEF ReadPodnum, Local, records
    <3> QED BY <1>4, <2>1, <3>1
  <2>4. CASE ~PublishCount(c) /\ ~ReadPodnum(c)
    <3>1. pc[c] \in {"read", "list", "map", "track", "count", "rows"} /\ UNCHANGED GrpcGPUmpscount
      BY <1>8, <2>4, Zenon
      DEF Survives, Exits, InEntryStep, ReadProcesses, ReadProcessesAt, ListPods, MapPod, SetGPUPod,
          SkipPod, MapDone, TrackLookup, TrackNew, TrackNewWith, TrackDone, TrackDoneAfter,
          WritePodRow, Local, records
    <3> QED BY <1>4, <2>1, <3>1
  <2> QED BY <2>2, <2>3, <2>4
<1> QED BY <1>3, <1>5, <1>6, <1>7, <1>8, LoneSteps

\* gpumetric.go:201-230: when no cycle overtakes another, the count served over gRPC
\* and the Podnum of the row agree, whatever the lists were and however they failed.
THEOREM PodnumsAgree ==
  ASSUME NEW c, Cycle = {c}
  PROVE  Spec => []PodnumAgrees
<1> DEFINE Both == Listing(c) /\ PodnumAgrees
<1>1. Init => Both
  BY DEF Init, Listing, PodnumAgrees
<1>2. IInv /\ Both /\ [Next]_vars => Both'
  BY ListingStep, PodnumStep, ConstantsAssumption
<1> QED BY <1>1, <1>2, InvariantIInv, PTL DEF Spec

\* Lemma: with every process in a pod, the place among the processes in kubepods is
\* the place among all.
LEMMA PositionOfMatch ==
  ASSUME ConstantsAssumption, TypeOK, NEW c \in Cycle, Matches(c) # {},
         Host \notin Range(loc[c].procs)
  PROVE  loc[c].procs[Position(c)] = loc[c].pods[loc[c].j]
<1> DEFINE n == FirstMatch(c)
<1>1. n \in Matches(c) /\ loc[c].procs \in Seq(Process)
  BY FirstIsMatch DEF TypeOK, Locals
<1>2. n \in 1 .. Len(loc[c].procs) /\ loc[c].procs[n] = loc[c].pods[loc[c].j]
  BY <1>1 DEF Matches
<1>3. \A m \in 1 .. n : InKubepods(loc[c].procs[m])
  <2> SUFFICES ASSUME NEW m \in 1 .. n
               PROVE  loc[c].procs[m] # Host
    BY DEF InKubepods
  <2>1. m \in DOMAIN loc[c].procs
    BY <1>1, <1>2
  <2> QED BY <2>1 DEF Range
<1>4. {m \in 1 .. n : InKubepods(loc[c].procs[m])} = 1 .. n
  BY <1>3
<1>5. n \in Nat /\ 1 <= n
  BY <1>1, <1>2
<1>6. Cardinality(1 .. n) = n
  <2> HIDE DEF n
  <2> QED BY <1>5, FS_Interval
<1>7. Position(c) = n
  BY <1>4, <1>6 DEF Position
<1> QED BY <1>2, <1>7

\* What AlignedMapping says of a cycle, and what keeps it: the entries written so far.
Aligned(c) ==
  (pc[c] \in {"map", "track", "count", "rows"} /\ Host \notin Range(loc[c].procs)) =>
     \A k \in DOMAIN Listed(c) : Listed(c)[k].owner = Listed(c)[k].cid

\* Lemma: a step that changes neither the cycle's lists nor its GPU leaves the
\* entries as they are.
LEMMA AlignedStays ==
  ASSUME NEW c \in Cycle, Aligned(c), pc[c] \in {"map", "track", "count", "rows"},
         GPUPod' = GPUPod, loc'[c].gpu = loc[c].gpu, loc'[c].procs = loc[c].procs
  PROVE  Aligned(c)'
<1>1. Listed(c)' = Listed(c)
  BY DEF Listed
<1> QED BY <1>1 DEF Aligned

\* Lemma: every entry written is of a process of its own container.
LEMMA AlignedStep ==
  ASSUME ConstantsAssumption, IInv, NEW c \in Cycle, Cycle = {c}, [Next]_vars,
         Listing(c), Aligned(c)
  PROVE  Aligned(c)'
<1>0. TypeOK
  BY DEF IInv
<1>1. CASE ~Survives
  BY <1>1 DEF Survives, Die, Aligned
<1>2. CASE Elsewhere(c)
  <2>1. CASE UNCHANGED control
    BY <1>2, <2>1 DEF Elsewhere, control, Aligned, Listed
  <2>2. CASE pc'[c] \notin Inside
    BY <2>2 DEF Aligned, Inside, InEntry
  <2> QED BY <1>2, <2>1, <2>2 DEF Elsewhere
<1>3. CASE Survives /\ (EnterGPU(c) \/ PointToEntry(c) \/ WriteGpuRow(c))
  <2>1. pc'[c] \in {"point", "read", "loop"}
    BY <1>3, LoopSays
  <2> QED BY <2>1 DEF Aligned
<1>4. CASE ReadProcesses(c) /\ ~Die("index")
  <2>1. \E l : Goto(c, "list", l)
    BY <1>4, Zenon DEF ReadProcesses, ReadProcessesAt
  <2>2. pc'[c] = "list"
    BY <1>0, <2>1, OthersStay
  <2> QED BY <2>2 DEF Aligned
<1>5. CASE ListPods(c) /\ ~Die("fatal") /\ ~Die("index")
  <2>1. pc[c] = "list" /\ Local(c) /\ loc'[c].gpu = loc[c].gpu
    BY <1>5, ListSays
  <2>2. Listed(c)' = <<>>
    BY <2>1 DEF Listing, Listed, Local, records
  <2> QED BY <2>2 DEF Aligned
<1>6. CASE MapPod(c) /\ ~Die("index")
  <2> SUFFICES ASSUME Host \notin Range(loc[c].procs), NEW k \in DOMAIN Listed(c)'
               PROVE  Listed(c)'[k].owner = Listed(c)'[k].cid
    <3>1. loc'[c].procs = loc[c].procs
      BY <1>6, MapSays
    <3> QED BY <3>1 DEF Aligned
  <2>1. /\ pc[c] = "map" /\ Matches(c) # {} /\ loc'[c].gpu = loc[c].gpu
        /\ Listed(c)'[loc[c].j] = [cid |-> loc[c].pods[loc[c].j], owner |-> loc[c].procs[Position(c)]]
        /\ \A i \in 1 .. Len(Listed(c)') \ {loc[c].j} :
             Listed(c)'[i] = IF i <= Len(Listed(c)) THEN Listed(c)[i] ELSE Blank
    BY <1>6, MapSays
  <2>2. CASE k = loc[c].j
    <3>1. loc[c].procs[Position(c)] = loc[c].pods[loc[c].j]
      BY <1>0, <2>1, PositionOfMatch
    <3> QED BY <2>1, <2>2, <3>1
  <2>3. CASE k # loc[c].j
    <3>1. Listed(c) \in Seq(PodMetric) /\ Listed(c)' \in Seq(PodMetric)
      <4>1. loc[c].gpu \in GPU
        BY <2>1, InsideType DEF InEntry
      <4>2. TypeOK'
        BY <1>6, MapStep DEF IInv
      <4> QED BY <1>0, <2>1, <4>1, <4>2 DEF TypeOK, Listed
    <3>2. k \in 1 .. Len(Listed(c)')
      BY <3>1
    <3>3. CASE k <= Len(Listed(c))
      <4>1. k \in DOMAIN Listed(c) /\ Listed(c)'[k] = Listed(c)[k]
        BY <2>1, <2>3, <3>1, <3>2, <3>3
      <4> QED BY <2>1, <4>1 DEF Aligned
    <3>4. CASE ~(k <= Len(Listed(c)))
      <4>1. Listed(c)'[k] = Blank
        BY <2>1, <2>3, <3>2, <3>4
      <4> QED BY <4>1 DEF Blank
    <3> QED BY <3>3, <3>4
  <2> QED BY <2>2, <2>3
<1>7. CASE SkipPod(c) \/ MapDone(c) \/ TrackDone(c) \/ (WritePodRow(c) /\ ~Die("index"))
           \/ (TrackNew(c) /\ ~Die("index"))
  <2>1. /\ pc[c] \in {"map", "track", "count", "rows"} /\ GPUPod' = GPUPod
        /\ \E n, label : Goto(c, label, [loc[c] EXCEPT !.j = n])
    BY <1>7, Zenon
    DEF SkipPod, MapDone, TrackDone, TrackDoneAfter, WritePodRow, TrackNew, TrackNewWith,
        Local, records
  <2>2. loc'[c].gpu = loc[c].gpu /\ loc'[c].procs = loc[c].procs
    BY <1>0, <2>1, MoveJ
  <2> QED BY <2>1, <2>2, AlignedStays
<1>8. CASE TrackLookup(c)
  <2>1. pc[c] = "track" /\ GPUPod' = GPUPod
    BY <1>8 DEF TrackLookup, Local, records
  <2>2. CASE Goto(c, "track", [loc[c] EXCEPT !.j = loc[c].j + 1])
    <3>1. loc'[c].gpu = loc[c].gpu /\ loc'[c].procs = loc[c].procs
      BY <1>0, <2>2, MoveJ
    <3> QED BY <2>1, <3>1, AlignedStays
  <2>3. CASE Goto(c, "count", [loc[c] EXCEPT !.value = GPUAssingment[loc[c].gpu]])
    <3>1. loc'[c].gpu = loc[c].gpu /\ loc'[c].procs = loc[c].procs
      BY <1>0, <2>3, MoveValue
    <3> QED BY <2>1, <3>1, AlignedStays
  <2> QED BY <1>8, <2>2, <2>3, Zenon DEF TrackLookup
<1>9. CASE PublishCount(c) \/ ReadPodnum(c)
  <2>1. (\E l : Goto(c, "podnum", l)) \/ (\E l : Goto(c, "gpurow", l))
    BY <1>9, Zenon DEF PublishCount, PublishCountOf, ReadPodnum
  <2>2. pc'[c] \in {"podnum", "gpurow"}
    BY <1>0, <2>1, OthersStay
  <2> QED BY <2>2 DEF Aligned
<1>10. ASSUME Survives
       PROVE  ~Die("fatal") /\ ~Die("index")
  BY <1>10 DEF Survives, Exits
<1> QED
  BY <1>1, <1>2, <1>3, <1>4, <1>5, <1>6, <1>7, <1>8, <1>9, <1>10, LoneSteps DEF InEntryStep

\* gpumpsmetric.go:290-321: when no cycle overtakes another and every process listed is
\* in a pod, each entry carries the pid, name and memory of a process of its container.
THEOREM MappingAligned ==
  ASSUME NEW c, Cycle = {c}
  PROVE  Spec => []AlignedMapping
<1> DEFINE Both == Listing(c) /\ Aligned(c)
<1>1. Init => Both
  BY DEF Init, Listing, Aligned
<1>2. IInv /\ Both /\ [Next]_vars => Both'
  BY ListingStep, AlignedStep, ConstantsAssumption
<1>3. Both => AlignedMapping
  BY DEF Aligned, AlignedMapping
<1> QED BY <1>1, <1>2, <1>3, InvariantIInv, PTL DEF Spec


-----------------------------------------------------------------------------
\* The lone cycle's appends: the array it will store holds what podmap does.

\* The cells of array a are those of podmap, and empty behind it.
SameAs(a) == \A k \in DOMAIN arrays[a] : arrays[a][k] = Tracked(k)

Fresh(c) ==
  /\ SameAs(podmap.arr)
  /\ pc[c] = "grow" => loc[c].header = podmap /\ loc[c].arr = podmap.arr
  /\ pc[c] = "store" => loc[c].header = podmap /\ SameAs(loc[c].arr)
  /\ pc[c] = "clear" => /\ loc[c].arr = podmap.arr /\ loc[c].header.len + 1 = podmap.len
                        /\ Tracked(podmap.len) = <<>>
  /\ pc[c] \in InEntry => loc[c].arr = podmap.arr /\ loc[c].gpu <= podmap.len

\* Lemma: what is tracked is a sequence of containers, none beyond the entries of podmap.
LEMMA TrackedType ==
  ASSUME TypeOK, NEW g \in GPU
  PROVE  /\ Tracked(g) \in Cids
         /\ g > podmap.len => Tracked(g) = <<>>
         /\ g <= podmap.len => Tracked(g) = arrays[podmap.arr][g]
<1>1. /\ arrays[podmap.arr] \in Seq(Cids) /\ podmap.len \in Nat
      /\ podmap.len <= Len(arrays[podmap.arr]) /\ Len(arrays[podmap.arr]) \in Nat
  BY SliceType
<1>2. g \in Nat /\ g >= 1 /\ <<>> \in Cids
  BY DEF GPU, Cids
<1> QED BY <1>1, <1>2 DEF Tracked

\* Lemma: a step that leaves podmap and its arrays alone.
LEMMA FreshStays ==
  ASSUME NEW c \in Cycle, Fresh(c), UNCHANGED tracked,
         \/ UNCHANGED control
         \/ pc'[c] \notin {"grow", "store", "clear"} \cup InEntry
         \/ /\ pc[c] \in InEntry /\ pc'[c] \in InEntry
            /\ loc'[c].arr = loc[c].arr /\ loc'[c].gpu = loc[c].gpu
  PROVE  Fresh(c)' /\ \A g \in GPU : Tracked(g)' = Tracked(g)
<1>1. podmap' = podmap /\ arrays' = arrays
  BY DEF tracked
<1>2. SameAs(podmap.arr)' /\ \A g \in GPU : Tracked(g)' = Tracked(g)
  BY <1>1 DEF Fresh, SameAs, Tracked
<1>3. CASE UNCHANGED control
  BY <1>1, <1>3 DEF Fresh, SameAs, Tracked, control
<1>4. CASE pc'[c] \notin {"grow", "store", "clear"} \cup InEntry
  BY <1>2, <1>4 DEF Fresh
<1>5. CASE /\ pc[c] \in InEntry /\ pc'[c] \in InEntry
           /\ loc'[c].arr = loc[c].arr /\ loc'[c].gpu = loc[c].gpu
  BY <1>1, <1>2, <1>5 DEF Fresh, InEntry
<1> QED BY <1>2, <1>3, <1>4, <1>5

\* Lemma: an append adds an entry that tracks nothing.
LEMMA FreshAppend ==
  ASSUME ConstantsAssumption, IInv, NEW c \in Cycle, Fresh(c), AppendStep(c)
  PROVE  Fresh(c)' /\ \A g \in GPU : Tracked(g)' = Tracked(g)
<1>0. /\ podmap \in Header /\ podmap.len \in Nat /\ podmap.arr \in Nat
      /\ podmap.arr \in DOMAIN arrays /\ podmap.len <= Len(arrays[podmap.arr])
      /\ DOMAIN arrays = 1 .. Len(arrays) /\ Len(arrays) \in Nat
      /\ \A a \in DOMAIN arrays : DOMAIN arrays[a] = 1 .. Len(arrays[a]) /\ Len(arrays[a]) \in Nat
  BY SliceType DEF IInv
<1>g. \A g \in GPU : g \in Nat /\ g >= 1
  BY DEF GPU
<1>1. CASE LoadPodmap(c)
  <2>1. /\ podmap' = podmap /\ arrays' = arrays /\ pc'[c] \in {"grow", "store"}
        /\ loc'[c].header = podmap /\ loc'[c].arr = podmap.arr
    BY <1>1, AppendSays DEF tracked
  <2>2. SameAs(podmap.arr)' /\ \A g \in GPU : Tracked(g)' = Tracked(g)
    BY <2>1 DEF Fresh, SameAs, Tracked
  <2> QED BY <2>1, <2>2 DEF Fresh, InEntry
<1>2. CASE GrowPodmap(c)
  <2> DEFINE n    == Len(arrays) + 1
             full == arrays[podmap.arr]
             new  == arrays'[n]
  <2>1. /\ podmap' = podmap /\ pc[c] = "grow" /\ pc'[c] = "store"
        /\ loc'[c].header = loc[c].header /\ loc'[c].arr = n
    BY <1>2, AppendSays
  <2>2. loc[c].header = podmap /\ loc[c].arr = podmap.arr
    BY <2>1 DEF Fresh
  <2>3. /\ SizesKept /\ Len(arrays') = n /\ \A a \in DOMAIN arrays : arrays'[a] = arrays[a]
        /\ \A k \in 1 .. Len(new) : new[k] = IF k <= Len(full) THEN full[k] ELSE <<>>
    BY <1>2, <2>2, GrowSays
  <2>4. DOMAIN new = 1 .. Len(new) /\ Len(new) \in Nat
    <3>1. n \in DOMAIN arrays'
      BY <1>0, <2>3 DEF SizesKept
    <3> QED BY <2>3, <3>1 DEF SizesKept
  <2> HIDE DEF new, n
  <2>5. arrays'[podmap'.arr] = full
    BY <1>0, <2>1, <2>3
  <2>6. \A k : Tracked(k)' = Tracked(k)
    BY <2>1, <2>5 DEF Tracked
  <2>7. SameAs(podmap.arr)'
    BY <2>1, <2>5, <2>6 DEF Fresh, SameAs
  <2>8. ASSUME NEW k \in DOMAIN new
        PROVE  new[k] = Tracked(k)
    <3>1. CASE k <= Len(full)
      <4>1. k \in DOMAIN full /\ new[k] = full[k]
        BY <1>0, <2>3, <2>4, <2>8, <3>1
      <4> QED BY <4>1 DEF Fresh, SameAs
    <3>2. CASE ~(k <= Len(full))
      <4>1. new[k] = <<>> /\ ~(k <= podmap.len)
        BY <1>0, <2>3, <2>4, <2>8, <3>2
      <4> QED BY <4>1 DEF Tracked
    <3> QED BY <3>1, <3>2
  <2>9. SameAs(loc[c].arr)'
    BY <2>1, <2>6, <2>8 DEF SameAs, new
  <2> QED BY <2>1, <2>2, <2>6, <2>7, <2>9 DEF Fresh, InEntry
<1>3. CASE StorePodmap(c)
  <2> DEFINE cells == arrays[loc[c].arr]
  <2>1. /\ pc[c] = "store" /\ pc'[c] = "clear" /\ loc'[c] = loc[c] /\ arrays' = arrays
        /\ podmap' = [arr |-> loc[c].arr, len |-> loc[c].header.len + 1]
    BY <1>3, AppendSays
  <2>2. loc[c].header = podmap /\ SameAs(loc[c].arr)
    BY <2>1 DEF Fresh
  <2>3. loc[c].arr \in DOMAIN arrays /\ podmap.len + 1 <= Len(cells)
    BY <2>1, <2>2 DEF IInv, CyclesOK, CycleOK
  <2>4. /\ podmap'.arr = loc[c].arr /\ podmap'.len = podmap.len + 1
        /\ DOMAIN cells = 1 .. Len(cells) /\ Len(cells) \in Nat
    BY <1>0, <2>1, <2>2, <2>3
  <2>5. \A k \in 1 .. podmap.len + 1 : cells[k] = Tracked(k)
    BY <1>0, <2>2, <2>3, <2>4 DEF SameAs
  <2> HIDE DEF cells
  <2>6. ASSUME NEW k \in Nat, k >= 1
        PROVE  Tracked(k)' = Tracked(k)
    <3>1. Tracked(k)' = IF k <= podmap.len + 1 THEN cells[k] ELSE <<>>
      BY <2>1, <2>4 DEF Tracked, cells
    <3>2. CASE k <= podmap.len + 1
      BY <1>0, <2>5, <2>6, <3>1, <3>2
    <3>3. CASE ~(k <= podmap.len + 1)
      <4>1. ~(k <= podmap.len)
        BY <1>0, <2>6, <3>3
      <4> QED BY <3>1, <3>3, <4>1 DEF Tracked
    <3> QED BY <3>2, <3>3
  <2>7. SameAs(podmap.arr)'
    <3> SUFFICES ASSUME NEW k \in DOMAIN cells PROVE cells[k] = Tracked(k)'
      BY <2>1, <2>4 DEF SameAs, cells
    <3>1. k \in Nat /\ k >= 1 /\ cells[k] = Tracked(k)
      BY <2>2, <2>4 DEF SameAs, cells
    <3> QED BY <2>6, <3>1
  <2>8. Tracked(podmap.len)' = <<>>
    <3>1. Tracked(podmap.len + 1) = <<>>
      BY <1>0 DEF Tracked
    <3>2. Tracked(podmap.len)' = cells[podmap.len + 1]
      BY <1>0, <2>1, <2>4 DEF Tracked, cells
    <3> QED BY <1>0, <2>5, <3>1, <3>2
  <2> QED BY <1>g, <2>1, <2>2, <2>4, <2>6, <2>7, <2>8 DEF Fresh, InEntry
<1>4. CASE ClearEntry(c)
  <2> DEFINE cells == arrays[podmap.arr]
  <2>1. pc[c] = "clear" /\ pc'[c] = "enter" /\ podmap' = podmap
    BY <1>4, AppendSays
  <2>2. /\ loc[c].arr = podmap.arr /\ loc[c].header.len + 1 = podmap.len
        /\ Tracked(podmap.len) = <<>> /\ SameAs(podmap.arr)
    BY <2>1 DEF Fresh
  <2>3. podmap.len \in 1 .. Len(cells)
    <3>1. loc[c].header.len \in Nat
      BY LocalsType DEF IInv
    <3> QED BY <1>0, <2>2, <3>1
  <2>4. arrays' = Put(podmap.arr, podmap.len, <<>>)
    BY <1>4, <2>2 DEF ClearEntry, Put
  <2>5. /\ SizesKept /\ \A i \in 1 .. Len(cells) :
             arrays'[podmap.arr][i] = IF i = podmap.len THEN <<>> ELSE cells[i]
    <3>1. <<>> \in Cids /\ TypeOK
      BY DEF Cids, IInv
    <3> QED BY <1>0, <2>3, <2>4, <3>1, PutCell
  <2>6. cells[podmap.len] = <<>>
    BY <1>0, <2>2, <2>3 DEF Tracked
  <2>7. \A i \in 1 .. Len(cells) : arrays'[podmap.arr][i] = cells[i]
    BY <2>5, <2>6
  <2>8. DOMAIN arrays'[podmap.arr] = 1 .. Len(cells) /\ DOMAIN cells = 1 .. Len(cells)
    <3>1. arrays'[podmap.arr] \in Seq(Cids) /\ Len(arrays'[podmap.arr]) = Len(cells)
      BY <1>0, <2>5 DEF SizesKept
    <3> QED BY <1>0, <3>1
  <2> HIDE DEF cells
  <2>9. ASSUME NEW k \in Nat, k >= 1
        PROVE  Tracked(k)' = Tracked(k)
    <3>1. CASE k <= podmap.len
      <4>1. k \in 1 .. Len(cells)
        BY <1>0, <2>3, <2>9, <3>1 DEF cells
      <4>2. arrays'[podmap.arr][k] = arrays[podmap.arr][k]
        BY <2>7, <4>1 DEF cells
      <4> QED BY <2>1, <4>2 DEF Tracked
    <3>2. CASE ~(k <= podmap.len)
      BY <2>1, <3>2 DEF Tracked
    <3> QED BY <3>1, <3>2
  <2>10. SameAs(podmap.arr)'
    <3> SUFFICES ASSUME NEW k \in 1 .. Len(cells) PROVE arrays'[podmap.arr][k] = Tracked(k)'
      BY <2>1, <2>8 DEF SameAs
    <3>1. Len(cells) \in Nat
      BY <1>0 DEF cells
    <3>2. k \in Nat /\ k >= 1 /\ cells[k] = Tracked(k)
      BY <2>2, <2>8, <3>1 DEF SameAs, cells
    <3> QED BY <2>7, <2>9, <3>2
  <2> QED BY <1>g, <2>1, <2>9, <2>10 DEF Fresh, InEntry
<1> QED BY <1>1, <1>2, <1>3, <1>4 DEF AppendStep

\* Lemma: tracking a container adds it to its GPU's, and only there.
LEMMA TrackNewTracks ==
  ASSUME ConstantsAssumption, IInv, NEW c \in Cycle, TrackNew(c), ~Die("index"), Fresh(c)
  PROVE  /\ Fresh(c)'
         /\ \A g \in GPU :
              Tracked(g)' = IF g = loc[c].gpu
                              THEN Tracked(g) \o << Listed(c)[loc[c].j].cid >>
                              ELSE Tracked(g)
<1> DEFINE a     == podmap.arr
           h     == loc[c].gpu
           v     == arrays[a][h] \o << Listed(c)[loc[c].j].cid >>
           cells == arrays[a]
<1>1. /\ pc[c] = "count" /\ podmap' = podmap /\ Goto(c, "track", [loc[c] EXCEPT !.j = loc[c].j + 1])
      /\ SizesKept
  BY TrackNewSays
<1>2. loc[c].arr = a /\ h <= podmap.len /\ SameAs(a)
  BY <1>1 DEF Fresh, InEntry
<1>3. \A i \in 1 .. Len(cells) : arrays'[a][i] = IF i = h THEN v ELSE cells[i]
  <2>1. \A i \in 1 .. Len(arrays[loc[c].arr]) :
          arrays'[loc[c].arr][i] =
            IF i = h THEN arrays[loc[c].arr][h] \o << Listed(c)[loc[c].j].cid >>
                     ELSE arrays[loc[c].arr][i]
    BY TrackNewSays
  <2>2. loc[c].arr = podmap.arr
    BY <1>2
  <2> QED BY <2>1, <2>2
<1>4. /\ TypeOK /\ h \in GPU /\ h \in Nat /\ h >= 1
      /\ podmap.len \in Nat /\ podmap.len <= Len(cells) /\ Len(cells) \in Nat
      /\ DOMAIN cells = 1 .. Len(cells) /\ a \in DOMAIN arrays
  <2>1. TypeOK /\ h \in GPU
    BY <1>1, InsideType DEF InEntry
  <2>2. a \in DOMAIN arrays /\ cells \in Seq(Cids) /\ Len(cells) \in Nat
        /\ podmap.len \in Nat /\ podmap.len <= Len(cells)
    BY <2>1, SliceType
  <2>3. h \in Nat /\ h >= 1
    BY <2>1 DEF GPU
  <2> HIDE DEF cells, a, h
  <2> QED BY <2>1, <2>2, <2>3
<1>5. DOMAIN arrays'[a] = 1 .. Len(cells)
  <2>1. arrays'[a] \in Seq(Cids) /\ Len(arrays'[a]) = Len(cells)
    BY <1>1, <1>4 DEF SizesKept
  <2> QED BY <1>4, <2>1
<1>6. pc'[c] = "track" /\ loc'[c].gpu = h /\ loc'[c].arr = loc[c].arr
  <2>1. PICK n : n = loc[c].j + 1
    OBVIOUS
  <2>2. Goto(c, "track", [loc[c] EXCEPT !.j = n]) /\ TypeOK /\ c \in Cycle
    BY <1>1, <1>4, <2>1
  <2>3. pc'[c] = "track" /\ loc'[c].gpu = loc[c].gpu /\ loc'[c].arr = loc[c].arr
    BY ONLY <2>2, MoveJ
  <2> QED BY <2>3
<1> HIDE DEF v
<1>7. ASSUME NEW k \in Nat, k >= 1
      PROVE  Tracked(k)' = IF k = h THEN v ELSE Tracked(k)
  <2>1. CASE k <= podmap.len
    <3>1. k \in 1 .. Len(cells)
      BY <1>4, <1>7, <2>1
    <3>2. arrays'[a][k] = IF k = h THEN v ELSE cells[k]
      BY <1>3, <3>1
    <3> QED BY <1>1, <2>1, <3>2 DEF Tracked
  <2>2. CASE ~(k <= podmap.len)
    BY <1>1, <1>2, <1>4, <2>2 DEF Tracked
  <2> QED BY <2>1, <2>2
<1>8. SameAs(podmap.arr)'
  <2> SUFFICES ASSUME NEW k \in 1 .. Len(cells) PROVE arrays'[a][k] = Tracked(k)'
    BY <1>1, <1>5 DEF SameAs
  <2>1. k \in Nat /\ k >= 1 /\ cells[k] = Tracked(k)
    BY <1>2, <1>4 DEF SameAs
  <2> QED BY <1>3, <1>7, <2>1
<1>9. Fresh(c)'
  BY <1>1, <1>2, <1>6, <1>8 DEF Fresh, InEntry
<1>10. Tracked(h) = arrays[a][h]
  BY <1>2 DEF Tracked
<1>11. ASSUME NEW g \in GPU
       PROVE  Tracked(g)' = IF g = h THEN Tracked(g) \o << Listed(c)[loc[c].j].cid >> ELSE Tracked(g)
  <2>1. g \in Nat /\ g >= 1
    BY DEF GPU
  <2> QED BY <1>7, <1>10, <2>1 DEF v
<1> QED BY <1>9, <1>11

\* Lemma: only TrackNew changes what is tracked, while the process lives.
LEMMA FreshStep ==
  ASSUME ConstantsAssumption, IInv, NEW c \in Cycle, Cycle = {c}, [Next]_vars, Survives, Fresh(c)
  PROVE  Fresh(c)' /\ (TrackNew(c) \/ \A g \in GPU : Tracked(g)' = Tracked(g))
<1>0. TypeOK
  BY DEF IInv
<1>1. CASE Still \/ Boot
  BY <1>1, FreshStays DEF Still, Boot
<1>2. CASE Spawn(c)
  <2>1. UNCHANGED tracked /\ pc'[c] = "init"
    BY <1>0, <1>2 DEF Spawn, TypeOK
  <2> QED BY <2>1, FreshStays DEF InEntry
<1>3. CASE PointToEntry(c)
  <2>1. /\ podmap' = podmap /\ arrays' = arrays /\ pc'[c] = "read" /\ loc[c].gpu <= podmap.len
        /\ loc'[c].gpu = loc[c].gpu /\ loc'[c].arr = podmap.arr
    BY <1>3, LoopSays DEF tracked
  <2>2. SameAs(podmap.arr)' /\ \A g \in GPU : Tracked(g)' = Tracked(g)
    BY <2>1 DEF Fresh, SameAs, Tracked
  <2> QED BY <2>1, <2>2 DEF Fresh
<1>4. CASE LoopStep(c) /\ ~PointToEntry(c)
  <2>1. UNCHANGED tracked /\ pc'[c] \in {"idle", "loop", "append", "enter", "point", "zero"}
    BY <1>4, LoopSays DEF LoopStep
  <2> QED BY <2>1, FreshStays DEF InEntry
<1>5. CASE AppendStep(c)
  BY <1>5, FreshAppend
<1>6. CASE TotalStep(c)
  <2>1. UNCHANGED tracked /\ pc'[c] \in {"load", "add", "idle"}
    BY <1>6, TotalSays DEF TotalStep
  <2> QED BY <2>1, FreshStays DEF InEntry
<1>7. CASE TrackNew(c)
  <2>1. ~Die("index")
    BY DEF Survives, Exits
  <2> QED BY <1>7, <2>1, TrackNewTracks
<1>8. CASE InEntryStep(c) /\ ~TrackNew(c)
  <2>1. /\ pc[c] \in InEntry /\ pc'[c] \in InEntry
        /\ loc'[c].gpu = loc[c].gpu /\ loc'[c].arr = loc[c].arr
    BY <1>8, EntrySays
  <2>2. UNCHANGED tracked
    BY <1>8, Zenon
    DEF Survives, Exits, InEntryStep, ReadProcesses, ReadProcessesAt, ListPods, MapPod, SkipPod,
        MapDone, TrackLookup, TrackDone, TrackDoneAfter, WritePodRow, PublishCount,
        PublishCountOf, ReadPodnum, Local
  <2> QED BY <2>1, <2>2, FreshStays
<1> QED BY <1>1, <1>2, <1>3, <1>4, <1>5, <1>6, <1>7, <1>8, NextCases

\* What podmap tracks and GPUAssingment counts agree, on every GPU.
Counted == \A g \in GPU : IsInjective(Tracked(g)) /\ GPUAssingment[g] = Len(Tracked(g))

\* How far the lone cycle has followed GPU g: every entry is tracked unless the cycle
\* is matching g, and then those behind it; a container it is about to track is new
\* and the counter it read still the GPU's.
EntryTracked(g, k) == GPUPod[g][k].cid \in Range(Tracked(g))

FollowedOn(c, g) ==
  /\ ~Matching(c, g) => \A k \in DOMAIN GPUPod[g] : EntryTracked(g, k)
  /\ (pc[c] \in {"track", "count"} /\ loc[c].gpu = g) =>
       \A k \in DOMAIN GPUPod[g] : k < loc[c].j => EntryTracked(g, k)
  /\ (pc[c] = "count" /\ loc[c].gpu = g) =>
       /\ loc[c].j \in DOMAIN GPUPod[g] /\ ~EntryTracked(g, loc[c].j)
       /\ loc[c].value = GPUAssingment[g]

Followed(c) == \A g \in GPU : FollowedOn(c, g)

\* Lemma: one container more, new, keeps a sequence without repetition.
LEMMA InjectiveGrows ==
  ASSUME NEW S, NEW q \in Seq(S), NEW x \in S, IsInjective(q), x \notin Range(q)
  PROVE  /\ IsInjective(q \o << x >>) /\ Len(q \o << x >>) = Len(q) + 1
         /\ Range(q) \subseteq Range(q \o << x >>) /\ x \in Range(q \o << x >>)
<1> DEFINE r == q \o << x >>
<1>1. /\ Len(q) \in Nat /\ DOMAIN q = 1 .. Len(q) /\ DOMAIN r = 1 .. Len(q) + 1
      /\ \A k \in 1 .. Len(q) : r[k] = q[k]
      /\ r[Len(q) + 1] = x /\ Len(r) = Len(q) + 1
  OBVIOUS
<1> HIDE DEF r
<1>2. IsInjective(r)
  <2> SUFFICES ASSUME NEW a \in DOMAIN r, NEW b \in DOMAIN r, r[a] = r[b]
               PROVE  a = b
    BY DEF IsInjective
  <2>1. \A k \in 1 .. Len(q) : q[k] # x
    BY <1>1 DEF Range
  <2>2. CASE a \in 1 .. Len(q) /\ b \in 1 .. Len(q)
    BY <1>1, <2>2 DEF IsInjective
  <2>3. CASE a \notin 1 .. Len(q) \/ b \notin 1 .. Len(q)
    BY <1>1, <2>1, <2>3
  <2> QED BY <2>2, <2>3
<1>3. Range(q) \subseteq Range(r) /\ x \in Range(r)
  <2>1. Len(q) + 1 \in DOMAIN r
    BY <1>1
  <2> QED BY <1>1, <2>1 DEF Range
<1> QED BY <1>1, <1>2, <1>3 DEF r

\* Lemma: while what is tracked and counted stays, so does that the two agree.
LEMMA CountedStays ==
  ASSUME Counted, GPUAssingment' = GPUAssingment, \A g \in GPU : Tracked(g)' = Tracked(g)
  PROVE  Counted'
<1> SUFFICES ASSUME NEW g \in GPU
             PROVE  (IsInjective(Tracked(g)) /\ GPUAssingment[g] = Len(Tracked(g)))'
  BY DEF Counted
<1>1. IsInjective(Tracked(g)) /\ GPUAssingment[g] = Len(Tracked(g))
  BY DEF Counted
<1>2. Tracked(g)' = Tracked(g) /\ GPUAssingment'[g] = GPUAssingment[g]
  BY Zenon
<1> QED BY <1>1, <1>2

\* Lemma: a step that leaves the entries, podmap and the counters alone leaves the
\* entries tracked that were.
LEMMA EntriesStay ==
  ASSUME GPUPod' = GPUPod, NEW g, Tracked(g)' = Tracked(g)
  PROVE  \A k : EntryTracked(g, k)' <=> EntryTracked(g, k)
<1> SUFFICES ASSUME NEW k PROVE EntryTracked(g, k)' <=> EntryTracked(g, k)
  OBVIOUS
<1> QED BY DEF EntryTracked

\* Lemma: while the cycle is not matching, before and after, only podmap matters.
LEMMA FollowedOutside ==
  ASSUME NEW c \in Cycle, Followed(c), GPUPod' = GPUPod,
         \A g \in GPU : Tracked(g)' = Tracked(g),
         pc[c] \notin {"map", "track", "count"}, pc'[c] \notin {"track", "count"}
  PROVE  Followed(c)'
<1> SUFFICES ASSUME NEW g \in GPU PROVE FollowedOn(c, g)'
  BY DEF Followed
<1>1. \A k : EntryTracked(g, k)' <=> EntryTracked(g, k)
  BY EntriesStay
<1>2. \A k \in DOMAIN GPUPod[g] : EntryTracked(g, k)
  BY DEF Followed, FollowedOn, Matching
<1>3. \A k \in DOMAIN GPUPod'[g] : EntryTracked(g, k)'
  BY <1>1, <1>2
<1> QED BY <1>3 DEF FollowedOn

\* Lemma: while the cycle is matching, before and after, a step that changes only its
\* place must have tracked what it leaves behind.
LEMMA FollowedInside ==
  ASSUME NEW c \in Cycle, Followed(c), GPUPod' = GPUPod, \A g \in GPU : Tracked(g)' = Tracked(g),
         pc[c] \in {"map", "track", "count"}, pc'[c] \in {"map", "track"},
         loc'[c].gpu = loc[c].gpu,
         pc'[c] = "track" => \A k \in DOMAIN Listed(c) :
                               k < loc'[c].j => EntryTracked(loc[c].gpu, k)
  PROVE  Followed(c)'
<1> SUFFICES ASSUME NEW g \in GPU PROVE FollowedOn(c, g)'
  BY DEF Followed
<1>2. \A k : EntryTracked(g, k)' <=> EntryTracked(g, k)
  BY EntriesStay
<1>3. CASE loc[c].gpu = g
  <2>1. pc'[c] = "track" => \A k \in DOMAIN GPUPod'[g] : k < loc'[c].j => EntryTracked(g, k)'
    BY <1>2, <1>3 DEF Listed
  <2> QED BY <1>3, <2>1 DEF FollowedOn, Matching
<1>4. CASE loc[c].gpu # g
  <2>1. \A k \in DOMAIN GPUPod[g] : EntryTracked(g, k)
    BY <1>4 DEF Followed, FollowedOn, Matching
  <2>2. \A k \in DOMAIN GPUPod'[g] : EntryTracked(g, k)'
    BY <1>2, <2>1
  <2> QED BY <1>4, <2>2 DEF FollowedOn
<1> QED BY <1>3, <1>4

\* Lemma: the end of the process ends with nothing reported, tracked or counted.
LEMMA DieFollowed ==
  ASSUME NEW c \in Cycle, NEW why, Die(why)
  PROVE  Followed(c)' /\ Counted'
<1>1. /\ pc'[c] = "idle" /\ podmap'.len = 0 /\ GPUPod' = [g \in GPU |-> <<>>]
      /\ GPUAssingment' = [g \in GPU |-> 0]
  BY DEF Die, Nil
<1>2. \A g \in GPU : g \in Nat /\ g >= 1
  BY DEF GPU
<1>3. ASSUME NEW g \in GPU
      PROVE  Tracked(g)' = <<>> /\ GPUPod'[g] = <<>> /\ GPUAssingment'[g] = 0
  BY <1>1, <1>2 DEF Tracked
<1>4. Followed(c)'
  BY <1>1, <1>3 DEF Followed, FollowedOn
<1>5. ASSUME NEW g \in GPU
      PROVE  (IsInjective(Tracked(g)) /\ GPUAssingment[g] = Len(Tracked(g)))'
  <2>1. IsInjective(<<>>) /\ Len(<<>>) = 0
    BY DEF IsInjective
  <2> QED BY <1>3, <2>1
<1> QED BY <1>4, <1>5 DEF Counted

\* Lemma: the lookup compares with what is tracked, and a container it finds there or
\* not decides what comes next.
LEMMA LookupFollowed ==
  ASSUME ConstantsAssumption, IInv, NEW c \in Cycle, TrackLookup(c), Fresh(c), Followed(c),
         \A g \in GPU : Tracked(g)' = Tracked(g)
  PROVE  Followed(c)'
<1>1. /\ pc[c] = "track" /\ loc[c].j <= Len(Listed(c)) /\ Local(c)
      /\ GPUPod' = GPUPod /\ GPUAssingment' = GPUAssingment
  BY DEF TrackLookup, Local, records
<1>2. /\ TypeOK /\ loc[c].gpu \in GPU /\ loc[c].j \in Nat
      /\ loc[c].j >= 1 /\ GPUPod[loc[c].gpu] \in Seq(PodMetric)
  <2>1. pc[c] \in InEntry
    BY <1>1 DEF InEntry
  <2>2. loc[c].j >= 1
    BY <1>1 DEF IInv, CyclesOK, CycleOK
  <2> QED BY <2>1, <2>2, InsideType
<1>3. Cell(c) = Tracked(loc[c].gpu)
  BY <1>1 DEF Fresh, InEntry, Cell, Tracked
<1>4. Listed(c)[loc[c].j].cid \in Known(c) <=> EntryTracked(loc[c].gpu, loc[c].j)
  BY <1>3 DEF Known, EntryTracked, Listed
<1>5. \A k \in DOMAIN Listed(c) : k < loc[c].j => EntryTracked(loc[c].gpu, k)
  BY <1>1, <1>2 DEF Followed, FollowedOn, Listed
<1>6. CASE /\ EntryTracked(loc[c].gpu, loc[c].j)
           /\ Goto(c, "track", [loc[c] EXCEPT !.j = loc[c].j + 1])
  <2>1. /\ pc'[c] = "track" /\ loc'[c].j = loc[c].j + 1
        /\ loc'[c].gpu = loc[c].gpu
    <3>1. TypeOK /\ c \in Cycle
      BY <1>2
    <3> QED BY ONLY <1>6, <3>1, MoveJ
  <2>2. \A k \in DOMAIN Listed(c) : k < loc[c].j + 1 => k < loc[c].j \/ k = loc[c].j
    BY <1>2 DEF Listed
  <2>3. \A k \in DOMAIN Listed(c) : k < loc'[c].j => EntryTracked(loc[c].gpu, k)
    BY <1>5, <1>6, <2>1, <2>2, Zenon
  <2> QED BY <1>1, <2>1, <2>3, FollowedInside
<1>7. CASE /\ ~EntryTracked(loc[c].gpu, loc[c].j)
           /\ Goto(c, "count", [loc[c] EXCEPT !.value = GPUAssingment[loc[c].gpu]])
  <2>1. /\ pc'[c] = "count" /\ loc'[c].j = loc[c].j /\ loc'[c].gpu = loc[c].gpu
        /\ loc'[c].value = GPUAssingment[loc[c].gpu]
    <3>1. TypeOK /\ c \in Cycle
      BY <1>2
    <3>2. Goto(c, "count", [loc[c] EXCEPT !.value = GPUAssingment[loc[c].gpu]])
      BY <1>7
    <3>3. PICK n : n = GPUAssingment[loc[c].gpu]
      OBVIOUS
    <3>4. Goto(c, "count", [loc[c] EXCEPT !.value = n])
      BY <3>2, <3>3
    <3>5. /\ pc'[c] = "count" /\ loc'[c].j = loc[c].j /\ loc'[c].gpu = loc[c].gpu
          /\ loc'[c].value = n
      <4>1. pc'[c] = "count" /\ loc'[c] = [loc[c] EXCEPT !.value = n] /\ loc[c] \in Locals
        BY <3>1, <3>4 DEF Goto, TypeOK
      <4> QED BY <4>1 DEF Locals
    <3> QED BY <3>3, <3>5
  <2>3. loc[c].j \in DOMAIN GPUPod[loc[c].gpu]
    BY <1>1, <1>2 DEF Listed
  <2> SUFFICES ASSUME NEW g \in GPU PROVE FollowedOn(c, g)'
    BY DEF Followed
  <2>4. \A k : EntryTracked(g, k)' <=> EntryTracked(g, k)
    BY <1>1, EntriesStay
  <2>5. FollowedOn(c, g)
    BY DEF Followed
  <2>6. ~Matching(c, g)' => \A k \in DOMAIN GPUPod'[g] : EntryTracked(g, k)'
    BY <1>1, <2>1, <2>4, <2>5 DEF FollowedOn, Matching
  <2>7. CASE loc[c].gpu = g
    <3>1. \A k \in DOMAIN GPUPod'[g] : k < loc'[c].j => EntryTracked(g, k)'
      BY <1>1, <2>1, <2>4, <2>5, <2>7 DEF FollowedOn
    <3>2. /\ loc'[c].j \in DOMAIN GPUPod'[g] /\ ~EntryTracked(g, loc[c].j)
          /\ loc'[c].value = GPUAssingment'[g]
      BY <1>1, <1>7, <2>1, <2>3, <2>7
    <3>3. ~EntryTracked(g, loc[c].j)'
      BY <1>1, <2>1, <2>7, <3>2 DEF EntryTracked
    <3> QED BY <2>6, <3>1, <3>2, <3>3 DEF FollowedOn
  <2>8. CASE loc[c].gpu # g
    BY <2>1, <2>6, <2>8 DEF FollowedOn
  <2> QED BY <2>7, <2>8
<1> QED BY <1>4, <1>6, <1>7, Zenon DEF TrackLookup

\* Lemma: the container tracked is new and counted with it.
LEMMA TrackNewFollowed ==
  ASSUME ConstantsAssumption, IInv, NEW c \in Cycle, TrackNew(c), ~Die("index"),
         Fresh(c), Followed(c), Counted
  PROVE  Followed(c)' /\ Counted'
<1> DEFINE cid == Listed(c)[loc[c].j].cid
<1>1. /\ pc[c] = "count" /\ GPUPod' = GPUPod
      /\ GPUAssingment' = [GPUAssingment EXCEPT ![loc[c].gpu] = loc[c].value + 1]
      /\ Goto(c, "track", [loc[c] EXCEPT !.j = loc[c].j + 1])
  BY DEF TrackNew, TrackNewWith
<1>2. /\ TypeOK /\ loc[c].gpu \in GPU /\ loc[c].j \in Nat
      /\ GPUPod[loc[c].gpu] \in Seq(PodMetric)
  BY <1>1, InsideType DEF InEntry
<1>3. /\ pc'[c] = "track" /\ loc'[c].j = loc[c].j + 1
      /\ loc'[c].gpu = loc[c].gpu
  <2>1. TypeOK /\ c \in Cycle
    BY <1>2
  <2>2. PICK n : n = loc[c].j + 1
    OBVIOUS
  <2>3. Goto(c, "track", [loc[c] EXCEPT !.j = n])
    BY <1>1, <2>2
  <2>4. /\ pc'[c] = "track" /\ loc'[c].j = n
        /\ loc'[c].gpu = loc[c].gpu
    <3>1. pc'[c] = "track" /\ loc'[c] = [loc[c] EXCEPT !.j = n] /\ loc[c] \in Locals
      BY <2>1, <2>3 DEF Goto, TypeOK
    <3> QED BY <3>1 DEF Locals
  <2> QED BY <2>2, <2>4
<1>4. \A g \in GPU : Tracked(g)' = IF g = loc[c].gpu THEN Tracked(g) \o << cid >> ELSE Tracked(g)
  BY TrackNewTracks, Zenon
<1>5. /\ loc[c].j \in DOMAIN GPUPod[loc[c].gpu] /\ cid \notin Range(Tracked(loc[c].gpu))
      /\ loc[c].value = GPUAssingment[loc[c].gpu]
  BY <1>1, <1>2 DEF Followed, FollowedOn, EntryTracked, Listed
<1>6. cid \in Container \cup {"none"}
  <2>1. Listed(c)[loc[c].j] \in PodMetric
    BY <1>2, <1>5 DEF Listed
  <2> QED BY <2>1 DEF PodMetric
<1> HIDE DEF cid
<1>7. ASSUME NEW g \in GPU
      PROVE  /\ FollowedOn(c, g)'
             /\ IsInjective(Tracked(g)') /\ GPUAssingment'[g] = Len(Tracked(g)')
  <2>1. FollowedOn(c, g) /\ IsInjective(Tracked(g)) /\ GPUAssingment[g] = Len(Tracked(g))
    BY DEF Followed, Counted
  <2>2. Tracked(g) \in Cids /\ GPUAssingment \in [GPU -> Nat]
    BY <1>2, TrackedType DEF TypeOK
  <2>3. CASE loc[c].gpu = g
    <3> DEFINE q == Tracked(g)
    <3>1. Tracked(g)' = q \o << cid >>
      BY <1>4, <2>3
    <3> HIDE DEF q
    <3>2. /\ IsInjective(q \o << cid >>) /\ Len(q \o << cid >>) = Len(q) + 1
          /\ Range(q) \subseteq Range(q \o << cid >>) /\ cid \in Range(q \o << cid >>)
      BY <1>5, <1>6, <2>1, <2>2, <2>3, InjectiveGrows DEF q, Cids
    <3>3. \A k \in DOMAIN GPUPod[g] : k < loc[c].j => EntryTracked(g, k)
      BY <1>1, <2>1, <2>3 DEF FollowedOn
    <3>4. ASSUME NEW k \in DOMAIN GPUPod'[g], k < loc'[c].j
          PROVE  EntryTracked(g, k)'
      <4>1. k < loc[c].j \/ k = loc[c].j
        BY <1>1, <1>2, <1>3, <2>3, <3>4
      <4>2. GPUPod[g][k].cid \in Range(q) \/ GPUPod[g][k].cid = cid
        BY <1>1, <2>3, <3>3, <4>1 DEF EntryTracked, q, cid, Listed
      <4> QED BY <1>1, <3>1, <3>2, <4>2 DEF EntryTracked
    <3>5. FollowedOn(c, g)'
      BY <1>3, <2>3, <3>4 DEF FollowedOn, Matching
    <3>6. GPUAssingment'[g] = Len(q) + 1
      BY <1>1, <1>5, <2>1, <2>2, <2>3 DEF q
    <3> QED BY <3>1, <3>2, <3>5, <3>6
  <2>4. CASE loc[c].gpu # g
    <3>1. Tracked(g)' = Tracked(g) /\ GPUAssingment'[g] = GPUAssingment[g]
      BY <1>1, <1>4, <2>2, <2>4
    <3>2. \A k : EntryTracked(g, k)' <=> EntryTracked(g, k)
      BY <1>1, <3>1, EntriesStay
    <3>3. \A k \in DOMAIN GPUPod'[g] : EntryTracked(g, k)'
      BY <1>1, <2>1, <2>4, <3>2 DEF FollowedOn, Matching
    <3> QED BY <1>3, <2>1, <2>4, <3>1, <3>3 DEF FollowedOn
  <2> QED BY <2>3, <2>4
<1> QED BY <1>7 DEF Followed, Counted

\* Lemma: every step of the lone cycle keeps the tracking.
LEMMA FollowedStep ==
  ASSUME ConstantsAssumption, IInv, NEW c \in Cycle, Cycle = {c}, [Next]_vars,
         Fresh(c), Followed(c), Counted
  PROVE  Followed(c)' /\ Counted'
<1>0. TypeOK
  BY DEF IInv
<1>1. CASE ~Survives
  BY <1>1, DieFollowed DEF Survives
<1>2. CASE TrackNew(c) /\ ~Die("index")
  BY <1>2, TrackNewFollowed
<1>3. ASSUME Survives, ~TrackNew(c)
      PROVE  /\ ~Die("fatal") /\ ~Die("index")
             /\ \A g \in GPU : Tracked(g)' = Tracked(g)
  BY <1>3, FreshStep DEF Survives, Exits
<1>4. ASSUME Survives, ~TrackNew(c), GPUAssingment' = GPUAssingment
      PROVE  Counted'
  BY <1>3, <1>4, CountedStays
<1>5. CASE Survives /\ ~TrackNew(c) /\ Elsewhere(c)
  <2>1. GPUPod' = GPUPod /\ GPUAssingment' = GPUAssingment
    BY <1>5 DEF Elsewhere
  <2>2. CASE UNCHANGED control
    <3>1. ASSUME NEW g \in GPU PROVE FollowedOn(c, g)'
      <4>1. \A k : EntryTracked(g, k)' <=> EntryTracked(g, k)
        BY <1>3, <1>5, <2>1, EntriesStay
      <4>2. FollowedOn(c, g) /\ pc' = pc /\ loc' = loc
        BY <2>2 DEF Followed, control
      <4>3. ~EntryTracked(g, loc[c].j) => ~EntryTracked(g, loc[c].j)'
        BY <1>3, <1>5, <2>1, <4>2 DEF EntryTracked
      <4> QED BY <2>1, <4>1, <4>2, <4>3 DEF FollowedOn, Matching
    <3> QED BY <1>4, <1>5, <2>1, <3>1 DEF Followed
  <2>3. CASE pc[c] \notin Inside /\ pc'[c] \notin Inside
    BY <1>3, <1>4, <1>5, <2>1, <2>3, FollowedOutside DEF Inside, InEntry
  <2> QED BY <1>5, <2>2, <2>3 DEF Elsewhere
<1>6. CASE Survives /\ ~TrackNew(c) /\ EnterGPU(c)
  <2>1. /\ pc[c] = "enter" /\ pc'[c] = "point" /\ GPUAssingment' = GPUAssingment
        /\ GPUPod' = [GPUPod EXCEPT ![loc[c].gpu] = <<>>]
    BY <1>6, LoopSays
  <2>2. ASSUME NEW g \in GPU, NEW k \in DOMAIN GPUPod'[g]
        PROVE  EntryTracked(g, k)'
    <3>1. GPUPod'[g] = GPUPod[g]
      BY <1>0, <2>1, <2>2 DEF TypeOK
    <3>2. EntryTracked(g, k)
      BY <2>1, <2>2, <3>1 DEF Followed, FollowedOn, Matching
    <3> QED BY <1>3, <1>6, <3>1, <3>2 DEF EntryTracked
  <2>3. ASSUME NEW g \in GPU PROVE FollowedOn(c, g)'
    BY <2>1, <2>2 DEF FollowedOn
  <2> QED BY <1>4, <1>6, <2>1, <2>3 DEF Followed
<1>7. CASE Survives /\ ~TrackNew(c) /\ (PointToEntry(c) \/ WriteGpuRow(c))
  <2>1. /\ pc[c] \in {"point", "gpurow"} /\ pc'[c] \in {"read", "loop"}
        /\ GPUPod' = GPUPod /\ GPUAssingment' = GPUAssingment
    BY <1>7, LoopSays DEF records
  <2> QED BY <1>3, <1>4, <1>7, <2>1, FollowedOutside
<1>8. CASE Survives /\ ~TrackNew(c) /\ (ReadProcesses(c) \/ ListPods(c))
  <2>1. GPUPod' = GPUPod /\ GPUAssingment' = GPUAssingment
    BY <1>3, <1>8, Zenon DEF ReadProcesses, ReadProcessesAt, ListPods, Local, records
  <2>2. pc[c] \in {"read", "list"} /\ (\E l : Goto(c, "list", l) \/ Goto(c, "read", l) \/ Goto(c, "map", l))
    BY <1>3, <1>8, Zenon DEF ReadProcesses, ReadProcessesAt, ListPods
  <2>3. pc'[c] \in {"read", "list", "map"}
    BY <1>0, <2>2, OthersStay
  <2> QED BY <1>3, <1>4, <1>8, <2>1, <2>2, <2>3, FollowedOutside
<1>9. CASE Survives /\ ~TrackNew(c) /\ MapPod(c)
  <2>1. /\ pc[c] = "map" /\ pc'[c] = "map" /\ loc'[c].gpu = loc[c].gpu
        /\ \A g \in GPU \ {loc[c].gpu} : GPUPod'[g] = GPUPod[g]
        /\ GPUAssingment' = GPUAssingment
    BY <1>3, <1>9, MapSays
  <2>2. ASSUME NEW g \in GPU, loc[c].gpu # g, NEW k \in DOMAIN GPUPod'[g]
        PROVE  EntryTracked(g, k)'
    <3>1. GPUPod'[g] = GPUPod[g]
      BY <2>1, <2>2
    <3>2. EntryTracked(g, k)
      BY <2>2, <3>1 DEF Followed, FollowedOn, Matching
    <3> QED BY <1>3, <1>9, <3>1, <3>2 DEF EntryTracked
  <2>3. ASSUME NEW g \in GPU PROVE FollowedOn(c, g)'
    BY <2>1, <2>2 DEF FollowedOn, Matching
  <2> QED BY <1>4, <1>9, <2>1, <2>3 DEF Followed
<1>10. CASE Survives /\ ~TrackNew(c) /\ (SkipPod(c) \/ MapDone(c))
  <2>1. /\ pc[c] = "map" /\ GPUPod' = GPUPod /\ GPUAssingment' = GPUAssingment
        /\ \/ Goto(c, "map", [loc[c] EXCEPT !.j = loc[c].j + 1])
           \/ Goto(c, "track", [loc[c] EXCEPT !.j = 1])
    BY <1>10, Zenon DEF SkipPod, MapDone, Local, records
  <2>2. /\ pc'[c] \in {"map", "track"} /\ loc'[c].gpu = loc[c].gpu
        /\ pc'[c] = "track" => loc'[c].j = 1
    <3>1. loc[c] \in Locals /\ ((pc'[c] = "map" /\ loc'[c] = [loc[c] EXCEPT !.j = loc[c].j + 1])
                                \/ (pc'[c] = "track" /\ loc'[c] = [loc[c] EXCEPT !.j = 1]))
      BY <1>0, <2>1 DEF Goto, TypeOK
    <3> QED BY <3>1 DEF Locals
  <2>3. \A k \in DOMAIN Listed(c) : ~(k < 1)
    <3>1. Listed(c) \in Seq(PodMetric)
      BY <2>1, InsideType DEF InEntry
    <3> QED BY <3>1
  <2> QED BY <1>3, <1>4, <1>10, <2>1, <2>2, <2>3, FollowedInside
<1>11. CASE Survives /\ ~TrackNew(c) /\ TrackLookup(c)
  <2>1. GPUAssingment' = GPUAssingment
    BY <1>11 DEF TrackLookup, Local, records
  <2> QED BY <1>3, <1>4, <1>11, <2>1, LookupFollowed
<1>12. CASE Survives /\ ~TrackNew(c) /\ TrackDone(c)
  <2>1. /\ pc[c] = "track" /\ loc[c].j > Len(Listed(c))
        /\ GPUPod' = GPUPod /\ GPUAssingment' = GPUAssingment
        /\ Goto(c, "rows", [loc[c] EXCEPT !.j = 1])
    BY <1>12 DEF TrackDone, TrackDoneAfter, Local, records
  <2>2. pc'[c] = "rows"
    BY <1>0, <2>1, OthersStay
  <2>3. \A k \in DOMAIN Listed(c) : k < loc[c].j
    <3>1. Listed(c) \in Seq(PodMetric) /\ loc[c].j \in Nat
      BY <2>1, InsideType DEF InEntry
    <3> QED BY <2>1, <3>1
  <2>4. ASSUME NEW g \in GPU PROVE FollowedOn(c, g)'
    <3>1. \A k \in DOMAIN GPUPod[g] : EntryTracked(g, k)
      BY <2>1, <2>3 DEF Followed, FollowedOn, Matching, Listed
    <3>2. \A k \in DOMAIN GPUPod'[g] : EntryTracked(g, k)'
      BY <1>3, <1>12, <2>1, <3>1, EntriesStay
    <3> QED BY <2>2, <3>2 DEF FollowedOn
  <2> QED BY <1>4, <1>12, <2>1, <2>4 DEF Followed
<1>13. CASE Survives /\ ~TrackNew(c) /\ (WritePodRow(c) \/ PublishCount(c) \/ ReadPodnum(c))
  <2>1. /\ pc[c] \in {"rows", "podnum"} /\ GPUPod' = GPUPod /\ GPUAssingment' = GPUAssingment
        /\ \E l : Goto(c, "rows", l) \/ Goto(c, "podnum", l) \/ Goto(c, "gpurow", l)
    BY <1>3, <1>13, Zenon DEF WritePodRow, PublishCount, PublishCountOf, ReadPodnum, Local, records
  <2>2. pc'[c] \in {"rows", "podnum", "gpurow"}
    BY <1>0, <2>1, OthersStay
  <2> QED BY <1>3, <1>4, <1>13, <2>1, <2>2, FollowedOutside
<1>14. Survives => ~Die("index")
  BY DEF Survives, Exits
<1> QED
  BY <1>1, <1>2, <1>5, <1>6, <1>7, <1>8, <1>9, <1>10, <1>11, <1>12, <1>13, <1>14, LoneSteps
  DEF InEntryStep

\* Lemma: nothing is reported, tracked or counted at the start, nor after a restart.
LEMMA InitFollowed ==
  ASSUME NEW c \in Cycle, Init
  PROVE  Listing(c) /\ Fresh(c) /\ Followed(c) /\ Counted
<1>1. /\ pc[c] = "idle" /\ podmap.len = 0 /\ GPUPod = [g \in GPU |-> <<>>]
      /\ GPUAssingment = [g \in GPU |-> 0] /\ arrays[podmap.arr] = <<>>
  BY DEF Init, Nil
<1>2. ASSUME NEW g \in GPU
      PROVE  Tracked(g) = <<>> /\ GPUPod[g] = <<>> /\ GPUAssingment[g] = 0
  <2>1. g \in Nat /\ g >= 1
    BY DEF GPU
  <2> QED BY <1>1, <2>1 DEF Tracked
<1>3. IsInjective(<<>>) /\ Len(<<>>) = 0 /\ DOMAIN <<>> = {}
  BY DEF IsInjective
<1>4. Counted
  BY <1>2, <1>3 DEF Counted
<1>5. Followed(c) /\ Listing(c)
  BY <1>1, <1>2 DEF Followed, FollowedOn, Listing
<1>6. Fresh(c)
  BY <1>1, <1>3 DEF Fresh, SameAs, InEntry
<1> QED BY <1>4, <1>5, <1>6

\* Lemma: the appends of the lone cycle start anew in a new process.
LEMMA FreshAlways ==
  ASSUME ConstantsAssumption, IInv, NEW c \in Cycle, Cycle = {c}, [Next]_vars, Fresh(c)
  PROVE  Fresh(c)'
<1>1. CASE Survives
  BY <1>1, FreshStep
<1>2. CASE ~Survives
  <2>1. pc'[c] = "idle" /\ podmap' = Nil /\ arrays' = << <<>> >>
    BY <1>2 DEF Survives, Die
  <2>2. arrays'[podmap'.arr] = <<>> /\ DOMAIN <<>> = {}
    BY <2>1 DEF Nil
  <2> QED BY <2>1, <2>2 DEF Fresh, SameAs, InEntry
<1> QED BY <1>1, <1>2

\* gpumpsmetric.go:327-341: when no cycle overtakes another, every container reported on
\* a GPU is tracked and counted as an assignment exactly once, for as long as the
\* process runs and through every append and move of podmap's array.
THEOREM AssignmentsAreTracked ==
  ASSUME NEW c, Cycle = {c}
  PROVE  Spec => []AssignmentsTracked
<1> DEFINE Both == Fresh(c) /\ Followed(c) /\ Counted
<1>1. Init => Both
  BY InitFollowed
<1>2. IInv /\ Both /\ [Next]_vars => Both'
  BY FreshAlways, FollowedStep, ConstantsAssumption
<1>3. Both => AssignmentsTracked
  BY DEF Followed, FollowedOn, Counted, AssignmentsTracked, EntryTracked
<1> QED BY <1>1, <1>2, <1>3, InvariantIInv, PTL DEF Spec


-----------------------------------------------------------------------------
\* While every pod taken has a process in the list, the lists have an entry for each pod
\* passed.
AllListed(c) == Range(loc[c].pods) \subseteq Range(loc[c].procs)

Filled(c) ==
  AllListed(c) =>
    /\ pc[c] = "map" => Len(Listed(c)) = loc[c].j - 1
    /\ pc[c] \in {"track", "count", "rows"} => Len(Listed(c)) = Len(loc[c].pods)

\* Lemma: what a step inside the matching that changes only the cycle's place keeps.
LEMMA FilledStays ==
  ASSUME NEW c \in Cycle, Filled(c), GPUPod' = GPUPod,
         loc'[c].gpu = loc[c].gpu, loc'[c].pods = loc[c].pods, loc'[c].procs = loc[c].procs,
         pc[c] \in {"track", "count", "rows"}, pc'[c] \in {"track", "count", "rows"}
  PROVE  Filled(c)'
<1>1. Listed(c)' = Listed(c) /\ (AllListed(c)' <=> AllListed(c))
  BY DEF Listed, AllListed
<1> QED BY <1>1 DEF Filled

\* Lemma: the mapping appends an entry for each pod in the process list.
LEMMA FilledStep ==
  ASSUME ConstantsAssumption, IInv, NEW c \in Cycle, Cycle = {c}, [Next]_vars,
         Listing(c), Filled(c)
  PROVE  Filled(c)'
<1>0. TypeOK
  BY DEF IInv
<1>1. CASE ~Survives
  BY <1>1 DEF Survives, Die, Filled
<1>2. CASE Elsewhere(c)
  <2>1. CASE UNCHANGED control
    BY <1>2, <2>1 DEF Elsewhere, control, Filled, AllListed, Listed
  <2>2. CASE pc'[c] \notin Inside
    BY <2>2 DEF Filled, Inside, InEntry
  <2> QED BY <1>2, <2>1, <2>2 DEF Elsewhere
<1>3. CASE Survives /\ (EnterGPU(c) \/ PointToEntry(c) \/ WriteGpuRow(c))
  <2>1. pc'[c] \in {"point", "read", "loop"}
    BY <1>3, LoopSays
  <2> QED BY <2>1 DEF Filled
<1>4. CASE ReadProcesses(c) /\ ~Die("index")
  <2>1. \E l : Goto(c, "list", l)
    BY <1>4, Zenon DEF ReadProcesses, ReadProcessesAt
  <2>2. pc'[c] = "list"
    BY <1>0, <2>1, OthersStay
  <2> QED BY <2>2 DEF Filled
<1>5. CASE ListPods(c) /\ ~Die("fatal") /\ ~Die("index")
  <2>1. /\ pc[c] = "list" /\ Local(c) /\ loc'[c].gpu = loc[c].gpu
        /\ pc'[c] = "read" \/ (pc'[c] = "map" /\ loc'[c].j = 1)
    BY <1>5, ListSays
  <2>2. Listed(c)' = <<>>
    BY <2>1 DEF Listing, Listed, Local, records
  <2> QED BY <2>1, <2>2 DEF Filled
<1>6. CASE MapPod(c) /\ ~Die("index")
  <2>1. /\ pc[c] = "map" /\ pc'[c] = "map" /\ loc'[c].j = loc[c].j + 1
        /\ loc'[c].procs = loc[c].procs /\ loc'[c].pods = loc[c].pods
        /\ Len(Listed(c)') = Len(Listed(c)) + 1
    BY <1>6, MapSays
  <2>2. AllListed(c)' <=> AllListed(c)
    BY <2>1 DEF AllListed
  <2>3. loc[c].j \in Nat /\ Len(Listed(c)) \in Nat
    BY <2>1, InsideType DEF InEntry
  <2> QED BY <2>1, <2>2, <2>3 DEF Filled
<1>7. CASE SkipPod(c) \/ MapDone(c)
  <2>1. pc[c] = "map" /\ GPUPod' = GPUPod
    BY <1>7 DEF SkipPod, MapDone, Local, records
  <2>2. /\ loc[c].j \in Nat /\ Len(loc[c].pods) \in Nat /\ Len(Listed(c)) \in Nat
        /\ loc[c].pods \in Seq(Pod)
        /\ loc[c].j >= 1 /\ loc[c].j <= Len(loc[c].pods) + 1
    <3>1. loc[c].j >= 1
      BY <2>1 DEF IInv, CyclesOK, CycleOK
    <3> QED BY <2>1, <3>1, InsideType DEF InEntry, Listing
  <2>3. ASSUME NEW n, NEW label, Goto(c, label, [loc[c] EXCEPT !.j = n])
        PROVE  /\ pc'[c] = label /\ loc'[c].gpu = loc[c].gpu
               /\ loc'[c].pods = loc[c].pods /\ loc'[c].procs = loc[c].procs
    BY <1>0, <2>3, MoveJ
  <2>4. CASE SkipPod(c)
    <3>1. /\ loc[c].j <= Len(loc[c].pods) /\ Matches(c) = {}
          /\ Goto(c, "map", [loc[c] EXCEPT !.j = loc[c].j + 1])
      BY <2>4 DEF SkipPod
    <3>2. pc'[c] = "map" /\ loc'[c].pods = loc[c].pods /\ loc'[c].procs = loc[c].procs
      BY <2>3, <3>1, Zenon
    <3>3. ~AllListed(c)
      <4>1. loc[c].j \in DOMAIN loc[c].pods
        BY <2>2, <3>1
      <4>2. loc[c].pods[loc[c].j] \in Range(loc[c].pods)
        BY <4>1 DEF Range
      <4>3. loc[c].pods[loc[c].j] \notin Range(loc[c].procs)
        BY <3>1 DEF Matches, Range
      <4> QED BY <4>2, <4>3 DEF AllListed
    <3>4. ~AllListed(c)'
      BY <3>2, <3>3 DEF AllListed
    <3> QED BY <3>4 DEF Filled
  <2>5. CASE MapDone(c)
    <3>1. loc[c].j > Len(loc[c].pods) /\ Goto(c, "track", [loc[c] EXCEPT !.j = 1])
      BY <2>5 DEF MapDone
    <3>2. /\ pc'[c] = "track" /\ loc'[c].gpu = loc[c].gpu
          /\ loc'[c].pods = loc[c].pods /\ loc'[c].procs = loc[c].procs
      BY <2>3, <3>1, Zenon
    <3>3. Listed(c)' = Listed(c) /\ (AllListed(c)' <=> AllListed(c))
      BY <2>1, <3>2 DEF Listed, AllListed
    <3> QED BY <2>1, <2>2, <3>1, <3>2, <3>3 DEF Filled
  <2> QED BY <1>7, <2>4, <2>5
<1>8. CASE TrackDone(c) \/ ((WritePodRow(c) \/ TrackNew(c)) /\ ~Die("index"))
  <2>1. /\ pc[c] \in {"track", "count", "rows"} /\ GPUPod' = GPUPod
        /\ \E n : \/ Goto(c, "track", [loc[c] EXCEPT !.j = n])
                  \/ Goto(c, "rows", [loc[c] EXCEPT !.j = n])
    BY <1>8, Zenon
    DEF TrackDone, TrackDoneAfter, WritePodRow, TrackNew, TrackNewWith, Local, records
  <2>2. PICK n : \/ Goto(c, "track", [loc[c] EXCEPT !.j = n])
                 \/ Goto(c, "rows", [loc[c] EXCEPT !.j = n])
    BY <2>1
  <2>3. /\ pc'[c] \in {"track", "rows"} /\ loc'[c].gpu = loc[c].gpu
        /\ loc'[c].pods = loc[c].pods /\ loc'[c].procs = loc[c].procs
    BY <1>0, <2>2, MoveJ
  <2> QED BY <2>1, <2>3, FilledStays
<1>9. CASE TrackLookup(c)
  <2>1. pc[c] = "track" /\ GPUPod' = GPUPod
    BY <1>9 DEF TrackLookup, Local, records
  <2>2. PICK n : \/ Goto(c, "track", [loc[c] EXCEPT !.j = n])
                 \/ Goto(c, "count", [loc[c] EXCEPT !.value = n])
    BY <1>9, Zenon DEF TrackLookup
  <2>3. /\ pc'[c] \in {"track", "count"} /\ loc'[c].gpu = loc[c].gpu
        /\ loc'[c].pods = loc[c].pods /\ loc'[c].procs = loc[c].procs
    BY <1>0, <2>2, MoveJ, MoveValue
  <2> QED BY <2>1, <2>3, FilledStays
<1>10. CASE PublishCount(c) \/ ReadPodnum(c)
  <2>1. \E l : Goto(c, "podnum", l) \/ Goto(c, "gpurow", l)
    BY <1>10 DEF PublishCount, PublishCountOf, ReadPodnum
  <2>2. pc'[c] \in {"podnum", "gpurow"}
    BY <1>0, <2>1, OthersStay
  <2> QED BY <2>2 DEF Filled
<1>11. Survives => ~Die("fatal") /\ ~Die("index")
  BY DEF Survives, Exits
<1> QED
  BY <1>1, <1>2, <1>3, <1>4, <1>5, <1>6, <1>7, <1>8, <1>9, <1>10, <1>11, LoneSteps DEF InEntryStep

\* Lemma: no loop of the lone cycle's matching indexes past the end while every pod
\* taken has a process in the list.
LEMMA NoLoopPanics ==
  ASSUME ConstantsAssumption, IInv, NEW c \in Cycle, Cycle = {c}, [Next]_vars,
         Down, Listing(c), Followed(c), Filled(c),
         pc[c] \in {"map", "track", "count", "rows"}, AllListed(c)
  PROVE  proc' # "index"
<1> SUFFICES ASSUME proc' = "index" PROVE FALSE
  OBVIOUS
<1>0. proc = "up"
  BY DEF Down
<1>1. /\ loc[c].j \in Nat /\ Len(Listed(c)) \in Nat /\ Len(loc[c].pods) \in Nat
      /\ Listed(c) \in Seq(PodMetric) /\ loc[c].gpu \in GPU
  BY InsideType DEF InEntry
<1>2. CASE Boot \/ Kill \/ Analyzer \/ UNCHANGED vars
  BY <1>0, <1>2 DEF Boot, Kill, Analyzer, Die, vars, cluster
<1>3. CASE \/ Spawn(c) \/ InitFails(c) \/ InitCounts(c) \/ CheckPodmap(c)
           \/ AppendStep(c) \/ TotalStep(c) \/ EnterGPU(c) \/ PointToEntry(c)
           \/ ReadProcesses(c) \/ ListPods(c) \/ ReadPodnum(c) \/ WriteGpuRow(c) \/ SpawnAnalyzer(c)
  <2>1. pc[c] \in {"idle", "init", "loop", "append", "grow", "store", "clear", "enter", "point",
                   "read", "list", "podnum", "gpurow", "zero", "load", "add"}
    BY <1>3, Zenon
    DEF Spawn, InitFails, InitCounts, CheckPodmap, CheckPodmapAgainst, AppendStep, LoadPodmap,
        GrowPodmap, StorePodmap, ClearEntry, EnterGPU, EnterGPUWith, PointToEntry, ReadProcesses,
        ReadProcessesAt, ListPods, ReadPodnum, WriteGpuRow, SpawnAnalyzer, TotalStep, ZeroTotal,
        ZeroTotalTo, LoadTotal, AddPods, EndCycle
  <2> QED BY <2>1
<1>4. CASE SkipPod(c) \/ MapDone(c) \/ TrackLookup(c) \/ TrackDone(c) \/ PublishCount(c)
  <2>1. UNCHANGED cluster
    BY <1>4, Zenon
    DEF SkipPod, MapDone, TrackLookup, TrackDone, TrackDoneAfter, PublishCount, PublishCountOf, Local
  <2> QED BY <1>0, <2>1 DEF cluster
<1>5. CASE MapPod(c)
  <2>1. pc[c] = "map" /\ (loc[c].j > Len(Append(Listed(c), Blank)) \/ UNCHANGED cluster)
    BY <1>5 DEF MapPod, Listed
  <2>2. Len(Listed(c)) = loc[c].j - 1 /\ Len(Append(Listed(c), Blank)) = Len(Listed(c)) + 1
    BY <1>1, <2>1 DEF Filled
  <2> QED BY <1>0, <1>1, <2>1, <2>2 DEF cluster
<1>6. CASE TrackNew(c)
  <2>1. pc[c] = "count" /\ (loc[c].j > Len(Listed(c)) \/ UNCHANGED cluster)
    BY <1>6 DEF TrackNew, TrackNewWith
  <2>2. loc[c].j \in DOMAIN Listed(c)
    BY <1>1, <2>1 DEF Followed, FollowedOn, Listed
  <2> QED BY <1>0, <1>1, <2>1, <2>2 DEF cluster
<1>7. CASE WritePodRow(c)
  <2>1. /\ pc[c] = "rows" /\ loc[c].j <= Len(loc[c].pods)
        /\ loc[c].j > Len(Listed(c)) \/ UNCHANGED cluster
    BY <1>7 DEF WritePodRow, Local
  <2>2. Len(Listed(c)) = Len(loc[c].pods)
    BY <2>1 DEF Filled
  <2> QED BY <1>0, <1>1, <2>1, <2>2 DEF cluster
<1> QED BY <1>2, <1>3, <1>4, <1>5, <1>6, <1>7 DEF Next, Step, AppendStep, TotalStep

\* gpumpsmetric.go:290-371: when no cycle overtakes another and every pod taken has a
\* process in the list taken with it, no loop indexes GPUPod past its end, whatever the
\* orders and repetitions of the two lists.
THEOREM ListedNeverPanic ==
  ASSUME NEW c, Cycle = {c}
  PROVE  Spec => ListedNeverPanics
<1> DEFINE Both == Listing(c) /\ Fresh(c) /\ Followed(c) /\ Counted /\ Filled(c) /\ Down
<1>1. Init => Both
  <2>1. Init => Filled(c)
    BY DEF Init, Filled
  <2> QED BY <2>1, InitFollowed, InitDown, ConstantsAssumption
<1>2. IInv /\ Both /\ [Next]_vars => Both'
  BY ListingStep, FreshAlways, FollowedStep, FilledStep, DownStep, ConstantsAssumption
<1>3. IInv /\ Both /\ [Next]_vars => NoIndexPanic
  <2> SUFFICES ASSUME IInv, Both, [Next]_vars, NEW d \in Cycle,
                      pc[d] \in {"map", "track", "count", "rows"},
                      Range(loc[d].pods) \subseteq Range(loc[d].procs)
               PROVE  proc' # "index"
    BY DEF NoIndexPanic
  <2>1. d = c /\ c \in Cycle
    OBVIOUS
  <2>2. AllListed(c) /\ pc[c] \in {"map", "track", "count", "rows"}
    BY <2>1 DEF AllListed
  <2> QED BY <2>1, <2>2, NoLoopPanics, ConstantsAssumption
<1> QED BY <1>1, <1>2, <1>3, InvariantIInv, PTL DEF Spec, ListedNeverPanics

-----------------------------------------------------------------------------
\* The node's total, while cycles overlap.

Plus(x, y) == x + y
AnyOf(s) == CHOOSE x \in s : TRUE
Sums == INSTANCE FoldTheorems WITH op <- Plus, pick <- AnyOf

Pods == [g \in GPU |-> Len(GPUPod[g])]
SumTo(n) == Sums!Fold(0, Pods, 1 .. n)

\* Cycles that will zero the total.
ToZero == AtGPU \cup {"loop", "zero"}

\* The cycle has added up the lists before the GPU it is at.
Partial(c) ==
  /\ pc[c] = "load" => TotalPodnum = SumTo(loc[c].gpu - 1)
  /\ pc[c] = "add"  => loc[c].value = SumTo(loc[c].gpu - 1)

Summed ==
  /\ \A c \in Cycle : Summing(c) => Partial(c) /\ \A d \in Cycle : Summing(d) => d = c
  /\ (\A c \in Cycle : ~Summing(c)) => TotalPodnum = SumTo(gpus)

Totals ==
  /\ \A c \in Cycle : pc[c] = "add" => loc[c].gpu <= gpus
  /\ (~collided /\ \A c \in Cycle : pc[c] \notin ToZero) => Summed

\* The community module's fold is the one the theorems are about.
LEMMA SumIsFold ==
  ASSUME NEW fun, NEW S
  PROVE  FoldFunctionOnSet(+, 0, fun, S) = Sums!Fold(0, fun, S)
  BY DEF FoldFunctionOnSet, MapThenFoldSet, Sums!Fold, Sums!MapThenFoldSet, Plus, AnyOf

\* The theorems apply to every finite set: any element is picked of one that has some.
LEMMA SumsApply == ASSUME NEW S, IsFiniteSet(S) PROVE Sums!IsFiniteSet(S) /\ Sums!Picks(S)
  BY DEF IsFiniteSet, Sums!IsFiniteSet, Sums!Picks, AnyOf

\* Lemma: no list has been added up, or none holds a pod.
LEMMA SumOfNothing ==
  ASSUME ConstantsAssumption
  PROVE  /\ SumTo(0) = 0
         /\ \A n \in {0, NumGPU} : GPUPod = [g \in GPU |-> <<>>] => SumTo(n) = 0
<1>1. SumTo(0) = 0
  <2>1. 1 .. 0 = {}
    OBVIOUS
  <2> QED BY <2>1, Sums!FoldEmpty DEF SumTo
<1>2. ASSUME GPUPod = [g \in GPU |-> <<>>]
      PROVE  SumTo(NumGPU) = 0
  <2>1. IsFiniteSet(GPU)
    BY Numbers, FS_Interval DEF GPU
  <2>2. \A g \in GPU : Plus(Pods[g], 0) = 0
    BY <1>2 DEF Plus, Pods
  <2>3. Sums!Fold(0, Pods, GPU) = 0
    BY <2>1, <2>2, SumsApply, Sums!FoldNothing
  <2> QED BY <2>3 DEF SumTo, GPU
<1> QED BY <1>1, <1>2

\* Lemma: a fold of numbers up to k is that before it and the number at k.
LEMMA FoldGrows ==
  ASSUME NEW k \in Nat \ {0}, NEW f, \A i \in 1 .. k : f[i] \in Nat
  PROVE  Sums!Fold(0, f, 1 .. k) = Sums!Fold(0, f, 1 .. k - 1) + f[k]
<1>1. k \in 1 .. k /\ (1 .. k) \ {k} = 1 .. k - 1
  OBVIOUS
<1>2. IsFiniteSet(1 .. k) /\ IsFiniteSet(1 .. k - 1)
  BY FS_Interval
<1>3. /\ Sums!IsFiniteSet(1 .. k) /\ Sums!Picks(1 .. k)
      /\ Sums!IsFiniteSet(1 .. k - 1) /\ Sums!Picks(1 .. k - 1)
  BY <1>2, SumsApply
<1>4. Sums!Commutes(Nat, 1 .. k, f)
  BY DEF Sums!Commutes, Plus
<1>5. Sums!Fold(0, f, 1 .. k) = Plus(f[k], Sums!Fold(0, f, (1 .. k) \ {k}))
  <2>1. 0 \in Nat
    OBVIOUS
  <2> DEFINE S == 1 .. k
  <2>2. k \in S /\ Sums!IsFiniteSet(S) /\ Sums!Picks(S) /\ Sums!Commutes(Nat, S, f)
    BY <1>1, <1>3, <1>4
  <2> HIDE DEF S
  <2>3. Sums!Fold(0, f, S) = Plus(f[k], Sums!Fold(0, f, S \ {k}))
    BY <2>1, <2>2, Sums!FoldAny
  <2> QED BY <2>3 DEF S
<1>6. Sums!Fold(0, f, 1 .. k - 1) \in Nat
  <2>1. \A i \in 1 .. k - 1 : \A t \in Nat : Plus(f[i], t) \in Nat
    BY DEF Plus
  <2> QED BY <1>3, <2>1, Sums!FoldType
<1>7. Sums!Fold(0, f, 1 .. k) = f[k] + Sums!Fold(0, f, 1 .. k - 1)
  BY <1>1, <1>5, Zenon DEF Plus
<1>8. f[k] \in Nat
  BY <1>1
<1> QED BY <1>6, <1>7, <1>8

\* Lemma: the sum up to a GPU is that before it and the length of its list.
LEMMA SumGrows ==
  ASSUME ConstantsAssumption, TypeOK, NEW k \in GPU
  PROVE  SumTo(k) = SumTo(k - 1) + Len(GPUPod[k])
<1>1. k \in Nat \ {0} /\ 1 .. k \in SUBSET GPU
  BY Numbers DEF GPU
<1>2. \A g \in GPU : Pods[g] \in Nat
  <2>1. \A g \in GPU : GPUPod[g] \in Seq(PodMetric)
    BY DEF TypeOK
  <2> QED BY <2>1 DEF Pods
<1>3. Sums!Fold(0, Pods, 1 .. k) = Sums!Fold(0, Pods, 1 .. k - 1) + Pods[k]
  BY <1>1, <1>2, FoldGrows
<1>4. Pods[k] = Len(GPUPod[k])
  BY DEF Pods
<1> QED BY <1>3, <1>4 DEF SumTo

\* Lemma: while a cycle will zero the total again nothing is said of it.
LEMMA TotalsPending ==
  ASSUME Totals, NEW c \in Cycle, Mine(c), pc'[c] \in ToZero
  PROVE  Totals'
<1>1. \A d \in Cycle : pc'[d] = "add" => pc[d] = "add" /\ loc'[d] = loc[d]
  BY DEF Mine, ToZero, AtGPU
<1> QED BY <1>1 DEF Totals, Mine, cluster

\* Lemma: a step of a cycle that adds nothing, before and after it.
LEMMA TotalsStay ==
  ASSUME Totals, NEW c \in Cycle, \A d \in Cycle \ {c} : pc'[d] = pc[d] /\ loc'[d] = loc[d],
         pc[c] \notin ToZero, pc'[c] \in {"idle", "init"}, ~Summing(c),
         UNCHANGED <<gpus, GPUPod, TotalPodnum, collided>>
  PROVE  Totals'
<1>1. ~Summing(c)' /\ \A d \in Cycle \ {c} : (Summing(d)' <=> Summing(d)) /\ (Partial(d)' <=> Partial(d))
  BY DEF Summing, Partial, SumTo, Pods
<1>2. SumTo(gpus)' = SumTo(gpus)
  BY DEF SumTo, Pods
<1>3. Summed => Summed'
  BY <1>1, <1>2 DEF Summed
<1>4. \A d \in Cycle : pc'[d] = "add" => pc[d] = "add" /\ loc'[d] = loc[d]
  OBVIOUS
<1>5. (\A d \in Cycle : pc'[d] \notin ToZero) => \A d \in Cycle : pc[d] \notin ToZero
  OBVIOUS
<1> QED BY <1>3, <1>4, <1>5 DEF Totals

\* Lemma: in the end of the process and the start of another there are no pods.
LEMMA TotalsAnew ==
  ASSUME ConstantsAssumption, \A c \in Cycle : pc'[c] = "idle", TotalPodnum' = 0,
         GPUPod' = [g \in GPU |-> <<>>], gpus' \in {0, NumGPU}
  PROVE  Totals'
<1>1. SumTo(gpus)' = 0
  <2>1. (\A n \in {0, NumGPU} : GPUPod = [g \in GPU |-> <<>>] => SumTo(n) = 0)'
    BY SumOfNothing, PTL
  <2> QED BY <2>1
<1>2. \A c \in Cycle : ~Summing(c)'
  BY DEF Summing
<1> QED BY <1>1, <1>2 DEF Totals, Summed

\* Lemma: the first to zero the total alone starts the sum anew.
LEMMA ZeroTotals ==
  ASSUME ConstantsAssumption, IInv, Totals, NEW c \in Cycle, ZeroTotal(c)
  PROVE  Totals'
<1>1. /\ Mine(c) /\ GPUPod' = GPUPod
      /\ pc[c] = "zero" /\ pc'[c] = "load" /\ loc'[c].gpu = 1 /\ TotalPodnum' = 0
      /\ collided' = (\E d \in Cycle \ {c} : Summing(d))
  BY TotalSays
<1>2. gpus' = gpus /\ gpus \in {0, NumGPU}
  BY <1>1 DEF Mine, cluster, IInv, TypeOK
<1>3. \A d \in Cycle : pc'[d] = "add" => pc[d] = "add" /\ loc'[d] = loc[d]
  BY <1>1 DEF Mine
<1>4. ASSUME ~collided' PROVE Summed'
  <2>1. \A d \in Cycle \ {c} : ~Summing(d)'
    BY <1>1, <1>2, <1>4 DEF Summing, Mine
  <2>2. SumTo(0)' = 0
    <3>1. SumTo(0)' = SumTo(0)
      BY <1>1 DEF SumTo, Pods
    <3> QED BY <3>1, SumOfNothing
  <2>3. loc'[c].gpu - 1 = 0
    BY <1>1
  <2>4. Partial(c)'
    BY <1>1, <2>2, <2>3 DEF Partial
  <2>5. Summing(c)' <=> gpus # 0
    BY <1>1, <1>2, Numbers DEF Summing
  <2>6. ~Summing(c)' => TotalPodnum' = SumTo(gpus)'
    BY <1>1, <1>2, <2>2, <2>5
  <2> QED BY <2>1, <2>4, <2>6 DEF Summed
<1> QED BY <1>2, <1>3, <1>4 DEF Totals

\* Lemma: the load of an addition.
LEMMA LoadTotals ==
  ASSUME ConstantsAssumption, IInv, Totals, NEW c \in Cycle, LoadTotal(c)
  PROVE  Totals'
<1>1. /\ Mine(c) /\ UNCHANGED <<GPUPod, TotalPodnum, collided>>
      /\ pc[c] = "load" /\ pc'[c] = "add" /\ loc[c].gpu <= gpus
      /\ loc'[c].gpu = loc[c].gpu /\ loc'[c].value = TotalPodnum
  BY TotalSays DEF records, history
<1>2. gpus' = gpus
  BY <1>1 DEF Mine, cluster
<1>3. \A d \in Cycle : Summing(d)' <=> Summing(d)
  BY <1>1, <1>2 DEF Summing, Mine
<1>4. \A n : SumTo(n)' = SumTo(n)
  BY <1>1 DEF SumTo, Pods
<1>5. Summing(c) /\ (Partial(c) => Partial(c)')
  BY <1>1, <1>4 DEF Summing, Partial
<1>6. Summed => Summed'
  BY <1>3, <1>5 DEF Summed
<1>7. \A d \in Cycle : pc'[d] = "add" => loc'[d].gpu <= gpus'
  BY <1>1, <1>2 DEF Totals, Mine
<1>8. (\A d \in Cycle : pc'[d] \notin ToZero) => \A d \in Cycle : pc[d] \notin ToZero
  BY <1>1 DEF Mine, ToZero, AtGPU
<1> QED BY <1>1, <1>6, <1>7, <1>8 DEF Totals

\* Lemma: the store of an addition.
LEMMA AddTotals ==
  ASSUME ConstantsAssumption, IInv, Totals, NEW c \in Cycle, AddPods(c)
  PROVE  Totals'
<1>1. /\ Mine(c) /\ UNCHANGED <<GPUPod, collided>>
      /\ pc[c] = "add" /\ pc'[c] = "load" /\ loc'[c].gpu = loc[c].gpu + 1
      /\ TotalPodnum' = loc[c].value + Len(GPUPod[loc[c].gpu])
  BY TotalSays DEF history
<1>2. gpus' = gpus
  BY <1>1 DEF Mine, cluster
<1>3. /\ loc[c].gpu <= gpus /\ loc[c].gpu \in GPU /\ loc[c].gpu \in Nat /\ gpus \in Nat
      /\ TypeOK
  <2>1. CycleOK("add", loc[c], arrays) /\ TypeOK
    BY <1>1 DEF IInv, CyclesOK
  <2>2. loc[c].gpu \in Nat /\ 1 <= loc[c].gpu /\ loc[c].gpu <= NumGPU
    BY <2>1, LocalsType DEF CycleOK
  <2>3. gpus \in Nat
    BY <2>1, Numbers DEF TypeOK
  <2> QED BY <1>1, <2>1, <2>2, <2>3, Numbers DEF Totals, GPU
<1>4. Summing(c) /\ \A d \in Cycle \ {c} : Summing(d)' <=> Summing(d)
  BY <1>1, <1>2, <1>3 DEF Summing, Mine
<1>5. ASSUME Summed PROVE Summed'
  <2>1. Partial(c) /\ \A d \in Cycle \ {c} : ~Summing(d)
    BY <1>4, <1>5 DEF Summed
  <2>2. TotalPodnum' = SumTo(loc[c].gpu)
    BY <1>1, <1>3, <2>1, SumGrows DEF Partial
  <2>3. \A n : SumTo(n)' = SumTo(n)
    BY <1>1 DEF SumTo, Pods
  <2>4. loc'[c].gpu - 1 = loc[c].gpu
    BY <1>1, <1>3
  <2>5. Partial(c)'
    BY <1>1, <2>2, <2>3, <2>4 DEF Partial
  <2>6. ~Summing(c)' => loc[c].gpu = gpus
    BY <1>1, <1>2, <1>3 DEF Summing
  <2> QED BY <1>2, <1>4, <2>1, <2>2, <2>3, <2>5, <2>6 DEF Summed
<1>6. \A d \in Cycle : pc'[d] = "add" => loc'[d].gpu <= gpus'
  BY <1>1, <1>2 DEF Totals, Mine
<1>7. (\A d \in Cycle : pc'[d] \notin ToZero) => \A d \in Cycle : pc[d] \notin ToZero
  BY <1>1 DEF Mine, ToZero, AtGPU
<1> QED BY <1>1, <1>5, <1>6, <1>7 DEF Totals

\* Lemma: every step keeps the lists and the total together, as long as no other adds
\* when it is zeroed.
LEMMA TotalsStep ==
  ASSUME ConstantsAssumption, IInv, Down, Totals, [Next]_vars
  PROVE  Totals'
<1>1. CASE ~Survives
  BY <1>1, TotalsAnew DEF Survives, Die
<1>2. CASE Still
  <2>1. UNCHANGED <<gpus, pc, loc, GPUPod, TotalPodnum, collided>>
    BY <1>2 DEF Still, cluster, control, records, history
  <2>2. Summed' <=> Summed
    BY <2>1 DEF Summed, Summing, Partial, SumTo, Pods
  <2> QED BY <2>1, <2>2 DEF Totals
<1>3. CASE Boot
  <2>1. /\ \A c \in Cycle : pc'[c] = "idle"
        /\ TotalPodnum' = 0 /\ GPUPod' = [g \in GPU |-> <<>>] /\ gpus' \in {0, NumGPU}
    BY <1>3 DEF Boot, Down, control, records
  <2> QED BY <2>1, TotalsAnew
<1>4. ASSUME NEW c \in Cycle, Spawn(c)
      PROVE  Totals'
  <2>1. /\ pc[c] = "idle" /\ pc'[c] = "init" /\ \A d \in Cycle \ {c} : pc'[d] = pc[d] /\ loc'[d] = loc[d]
        /\ UNCHANGED <<gpus, GPUPod, TotalPodnum, collided>>
    BY <1>4 DEF Spawn, IInv, TypeOK, records, history
  <2>2. ~Summing(c) /\ pc[c] \notin ToZero
    BY <2>1 DEF Summing, ToZero, AtGPU
  <2> QED BY <2>1, <2>2, TotalsStay
<1>5. ASSUME NEW c \in Cycle, Survives, InitFails(c)
      PROVE  Totals'
  <2>1. /\ pc[c] = "init" /\ pc'[c] = "idle" /\ Mine(c)
        /\ UNCHANGED <<gpus, GPUPod, TotalPodnum, collided>>
    BY <1>5, LoopSays DEF Mine, cluster, records, history
  <2>2. ~Summing(c) /\ pc[c] \notin ToZero
    BY <2>1 DEF Summing, ToZero, AtGPU
  <2> QED BY <2>1, <2>2, TotalsStay DEF Mine
<1>6. ASSUME NEW c \in Cycle, Survives, LoopStep(c), ~InitFails(c)
      PROVE  Totals'
  <2>1. Mine(c) /\ pc'[c] \in {"loop", "append", "enter", "point", "read", "zero"}
    BY <1>6, LoopSays DEF LoopStep
  <2>2. pc'[c] \in ToZero
    BY <2>1 DEF ToZero, AtGPU, Labels
  <2> QED BY <2>1, <2>2, TotalsPending
<1>7. ASSUME NEW c \in Cycle, AppendStep(c)
      PROVE  Totals'
  <2>1. Mine(c) /\ pc'[c] \in {"grow", "store", "clear", "enter"}
    BY <1>7, AppendSays DEF AppendStep
  <2>2. pc'[c] \in ToZero
    BY <2>1 DEF ToZero, AtGPU, Labels
  <2> QED BY <2>1, <2>2, TotalsPending
<1>8. ASSUME NEW c \in Cycle, Survives, InEntryStep(c)
      PROVE  Totals'
  <2>1. Mine(c) /\ pc'[c] \in InEntry
    BY <1>8, EntrySays
  <2>2. pc'[c] \in ToZero
    BY <2>1 DEF ToZero, AtGPU, Labels, InEntry
  <2> QED BY <2>1, <2>2, TotalsPending
<1>9. ASSUME NEW c \in Cycle, EndCycle(c)
      PROVE  Totals'
  <2>1. /\ pc[c] = "load" /\ pc'[c] = "idle" /\ loc[c].gpu > gpus /\ Mine(c)
        /\ UNCHANGED <<gpus, GPUPod, TotalPodnum, collided>>
    BY <1>9, TotalSays DEF Mine, cluster, records, history
  <2>2. loc[c].gpu \in Nat /\ gpus \in Nat
    BY LocalsType, Numbers DEF IInv, TypeOK
  <2>3. ~Summing(c) /\ pc[c] \notin ToZero
    BY <2>1, <2>2 DEF Summing, ToZero, AtGPU
  <2> QED BY <2>1, <2>3, TotalsStay DEF Mine
<1> QED
  BY <1>1, <1>2, <1>3, <1>4, <1>5, <1>6, <1>7, <1>8, <1>9, NextCases, ZeroTotals, LoadTotals,
     AddTotals DEF TotalStep

\* gpumetric.go:264-267: however cycles fill the lists while others add them up, once all
\* have ended and the last to zero the total had it for itself from then on, it is the sum
\* of what the lists hold, for every number of GPUs and of cycles at once.
THEOREM TotalsAgree == Spec => []TotalAgrees
<1> DEFINE Both == Down /\ Totals
<1>1. Init => Both
  <2> SUFFICES ASSUME Init PROVE Totals
    BY InitDown, ConstantsAssumption
  <2>1. /\ TotalPodnum = 0 /\ gpus = 0 /\ \A c \in Cycle : pc[c] = "idle"
    BY DEF Init
  <2>2. TotalPodnum = SumTo(gpus)
    BY <2>1, SumOfNothing, ConstantsAssumption
  <2> QED BY <2>1, <2>2 DEF Totals, Summed, Summing
<1>2. IInv /\ Both /\ [Next]_vars => Both'
  BY TotalsStep, DownStep, ConstantsAssumption
<1>3. Both => TotalAgrees
  <2> SUFFICES ASSUME Both, \A c \in Cycle : pc[c] = "idle", ~collided
               PROVE  TotalPodnum = SumTo(gpus)
    BY SumIsFold DEF TotalAgrees, SumTo, Pods
  <2>1. \A c \in Cycle : ~Summing(c) /\ pc[c] \notin ToZero
    BY DEF Summing, ToZero, AtGPU
  <2> QED BY <2>1 DEF Totals, Summed
<1> QED BY <1>1, <1>2, <1>3, InvariantIInv, PTL DEF Spec

=============================================================================
