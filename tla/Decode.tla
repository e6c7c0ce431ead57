-------------------------------- MODULE Decode --------------------------------
(***************************************************************************)
(* Decoding a kubelet's summary into the points of a batch, as a function  *)
(* of the summary.  A reading is a pointer, so it may be absent, and with  *)
(* some of its parts absent the code dereferences nil.  The pods are       *)
(* written into slots of one array; a pod with an error leaves its slot to *)
(* the next one.                                                           *)
(*                                                                         *)
(* Of the readings of a stats record only which are there is kept, and one *)
(* value for all of them.  The network has only a time: its decoding is    *)
(* commented out.  A definition X_Why is a faulty variant of X: it is no   *)
(* part of the specification and serves to show that a property can fail.  *)
(***************************************************************************)
EXTENDS Integers, SequencesExt

CONSTANTS
  MaxInt64,  \* the largest int64; a uint64 goes up to 2 * MaxInt64 + 1
  Absent     \* a nil pointer, or a reading that was not decoded

\* A nil pointer is no quantity.
ASSUME DecodeAssumption ==
  /\ MaxInt64 \in Nat /\ MaxInt64 >= 2
  /\ Absent \notin [int : 0 .. MaxInt64, scale : {0, 1}]

\* An unscaled value and its power of ten.  Above MaxInt64 a digit is lost.
uint64Quantity(val) ==
  IF val <= MaxInt64 THEN [int |-> val, scale |-> 0]
                     ELSE [int |-> val \div 10, scale |-> 1]

\* What a reading may look like.
CPUShapes    == {Absent, "noUsage", "whole"}
MemoryShapes == {Absent, "noWorkingSet", "noUsage", "whole"}
FsShapes     == {Absent, "noLimits", "noUsed", "whole"}

\* A stats record: its name, the time of each reading (0 is no time), the shapes of
\* its readings and their value.
Record == [name : STRING, val : 0 .. 2 * MaxInt64 + 1,
           cpu : CPUShapes, memory : MemoryShapes, fs : FsShapes,
           time : [cpu : Nat, memory : Nat, network : Nat, fs : Nat]]
Summary == [node : Record, pods : Seq(Record)]

Zero == [name |-> Absent, time |-> 0, cpu |-> Absent, memory |-> Absent, fs |-> Absent]

-----------------------------------------------------------------------------
\* One stats record.

\* The earliest time of the readings that have one, 0 if none has.
getScrapeTime(times) ==
  IF times \ {0} = {} THEN 0 ELSE Min(times \ {0})

getScrapeTimePod(s)  == getScrapeTime({s.time[r] : r \in {"cpu", "memory"}})
getScrapeTimeNode(s) == getScrapeTime({s.time[r] : r \in {"cpu", "memory", "network", "fs"}})

\* Each of them yields Absent with an error.
decodeCPU(s)    == IF s.cpu = "whole" THEN uint64Quantity(s.val) ELSE Absent
decodeMemory(s) == IF s.memory = "whole" THEN uint64Quantity(s.val) ELSE Absent
decodeFs(s)     == IF s.fs \in {"noUsed", "whole"} THEN uint64Quantity(s.val) ELSE Absent

\* *memStats.UsageBytes, *FsStats.AvailableBytes and *FsStats.CapacityBytes are
\* taken without a test.
Dereferences(s) == s.memory = "noUsage" \/ s.fs = "noLimits"

\* What is written into target, how many errors there are, and whether it panics.
\* Without a time the target is left as it was; with one every reading is tried.
decodeStats(s, time, target) ==
  IF time = 0
    THEN [point |-> target, errs |-> 1, panic |-> FALSE]
    ELSE LET point == [name |-> s.name, time |-> time,
                       cpu |-> decodeCPU(s), memory |-> decodeMemory(s), fs |-> decodeFs(s)]
         IN  [point |-> point,
              errs  |-> Cardinality({r \in {"cpu", "memory", "fs"} : point[r] = Absent}),
              panic |-> Dereferences(s)]

decodeNodeStats(s, target) == decodeStats(s, getScrapeTimeNode(s), target)
decodePodStats(s, target)  == decodeStats(s, getScrapeTimePod(s), target)

-----------------------------------------------------------------------------
\* The loop over the pods: the slots, how many hold a pod, the errors so far.  A pod
\* advances to the next slot when its number of errors is in errs.

decodeNextWith(sofar, s, errs) ==
  LET pod == decodePodStats(s, sofar.slots[sofar.num + 1])
  IN  [slots |-> [sofar.slots EXCEPT ![sofar.num + 1] = pod.point],
       num   |-> IF pod.errs \in errs THEN sofar.num + 1 ELSE sofar.num,
       errs  |-> sofar.errs + pod.errs,
       panic |-> sofar.panic \/ pod.panic]

decodeNext_Always(sofar, s) == decodeNextWith(sofar, s, Nat)

\* A pod with an error does not advance, so that the next overwrites its slot.
decodeNext(sofar, s) == decodeNextWith(sofar, s, {0})

\* A node with errors keeps its point: the branch that would discard it is empty.
DecodeBatch(summary) ==
  LET node == decodeNodeStats(summary.node, Zero)
      pods == FoldLeft(decodeNext,
                       [slots |-> [k \in DOMAIN summary.pods |-> Zero], num |-> 0,
                        errs  |-> node.errs, panic |-> node.panic],
                       summary.pods)
  IN  [node |-> node.point, pods |-> SubSeq(pods.slots, 1, pods.num),
       errs |-> pods.errs, panic |-> pods.panic]

-----------------------------------------------------------------------------
\* The reference: what a batch should be, without the loop and its slots.

\* All three readings are there, and a time among those that are asked for one.
Whole(s, timed) == /\ s.cpu = "whole" /\ s.memory = "whole" /\ s.fs \in {"noUsed", "whole"}
                   /\ \E r \in timed : s.time[r] > 0
WholePod(s)  == Whole(s, {"cpu", "memory"})
WholeNode(s) == Whole(s, {"cpu", "memory", "network", "fs"})

\* The quantity is the value, less its last digit where it does not fit.
Close(q, val) ==
  /\ q.int \in 0 .. MaxInt64 /\ q.scale \in {0, 1}
  /\ val - (IF q.scale = 0 THEN q.int ELSE 10 * q.int) \in IF val <= MaxInt64 THEN {0} ELSE 0 .. 9

\* The point is the pod's own: its name, its readings, and the earlier of the times.
PointOf(point, s) ==
  /\ point.name = s.name
  /\ \A r \in {"cpu", "memory", "fs"} : point[r] # Absent /\ Close(point[r], s.val)
  /\ \E r \in {"cpu", "memory"} : point.time = s.time[r] /\ point.time > 0
  /\ \A r \in {"cpu", "memory"} : s.time[r] > 0 => point.time <= s.time[r]

\* Without a panic the batch has exactly the pods with all their readings, in
\* their order, each with its own readings though an incomplete pod was in its
\* slot before; every incomplete record has an error, and a batch without an
\* error is complete.
Complete(summary) ==
  LET batch == DecodeBatch(summary)
      pods  == summary.pods
      whole == {i \in DOMAIN pods : WholePod(pods[i])}
  IN  ~batch.panic =>
        /\ \E at \in [DOMAIN batch.pods -> whole] :
             /\ \A k, l \in DOMAIN at : k < l => at[k] < at[l]
             /\ \A i \in whole : \E k \in DOMAIN at : at[k] = i
             /\ \A k \in DOMAIN at : PointOf(batch.pods[k], pods[at[k]])
        /\ Cardinality(DOMAIN pods \ whole) <= batch.errs
        /\ (batch.errs = 0) <=> (WholeNode(summary.node) /\ whole = DOMAIN pods)

=============================================================================
