------------------------------ MODULE Collector ------------------------------
(***************************************************************************)
(* The collection cycles of the metric collector: main's loop spawns a     *)
(* Gpumetric goroutine every period without waiting for the previous one,  *)
(* each walks the GPUs, maps GPU processes to pods (Gpumpsmetric), updates *)
(* the tracking list podmap and the shared GrpcGPU records, writes its     *)
(* rows to InfluxDB and spawns the analyzer.                               *)
(*                                                                         *)
(* Every goroutine of the process shares its memory without a lock.  A     *)
(* step of a cycle is one iteration of a loop of the source or one         *)
(* statement on shared memory; a read-modify-write of podmap, TotalPodnum  *)
(* or GPUAssingment is a load and a store, between which others may store. *)
(* A panic or log.Fatal in any goroutine ends the process and the          *)
(* DaemonSet restarts it with empty memory.                                *)
(*                                                                         *)
(* A definition X_Why is a faulty variant of X: it is no part of the       *)
(* specification and serves to show that a property can fail.              *)
(***************************************************************************)
EXTENDS Integers, Sequences, FiniteSets, Functions

CONSTANTS
  Cycle,        \* Gpumetric goroutines that may be running at once
  NumGPU,       \* GPUs of the node
  Container,    \* container ids
  Snapshots,    \* <<process list, pod list>> pairs two successive reads return
  Slots,        \* size of gpumpsmap, 48 in the code
  MaxTries,     \* attempts to match the two lists, 20 in the code
  MaxSpawns     \* bound: cycles spawned by one process

\* A GPU process is in the cgroup of a container, outside kubepods or no longer
\* readable (Host), in a kubepods cgroup above the pods (Shallow), or in one
\* whose path has exactly four parts (Depth4).
Host    == "host"
Shallow == "shallow"
Depth4  == "depth4"
Process == Container \cup {Host, Shallow, Depth4}

\* A pod of the list that names the GPU is its first container's id, or
\* NotRunning when that container is not in the running state.
NotRunning == "not running"
Pod == Container \cup {NotRunning}

ASSUME ConstantsAssumption ==
  /\ Cycle # {} /\ IsFiniteSet(Cycle)
  /\ NumGPU \in Nat \ {0}
  /\ Slots \in Nat /\ MaxTries \in Nat \ {0} /\ MaxSpawns \in Nat
  /\ Container \cap {Host, Shallow, Depth4, NotRunning, "none"} = {}
  /\ Snapshots \subseteq Seq(Process) \X Seq(Pod)

GPU == 1 .. NumGPU

\* A PodMetric of GPUPod: the container it is for and the process whose pid,
\* name and memory it carries.
PodMetric == [cid : Container \cup {"none"}, owner : Process \cup {"none"}]
Blank == [cid |-> "none", owner |-> "none"]

VARIABLES
  proc,            \* "up", or why the process is down
  gpus,            \* len(Node.NodeGPU): the GPUs main counted when it started
  spawned,         \* cycles spawned by this process
  pc, loc,         \* control and local variables of each cycle
  podmap,          \* the slice header: its backing array and length
  arrays,          \* the backing arrays made so far, each up to its capacity;
                   \* a cell is the container ids of one GPU's PodMetric slice
  GPUPod, GPUAssingment, GrpcGPUmpscount, \* fields of the shared GrpcGPU records
  TotalPodnum,     \* field of the shared GrpcNode
  analyzers,       \* analyzer goroutines spawned and not finished
  nodeRow,         \* the database holds a nodemetric row
  gpuRow,          \* Podnum of the last gpumetric row this process gave to its client
  overtaken,       \* history: a header of podmap was stored over one stored since its load
  collided         \* history: TotalPodnum was last zeroed while another was adding to it

cluster == <<proc, gpus, spawned>>
control == <<pc, loc>>
tracked == <<podmap, arrays>>
records == <<GPUPod, GPUAssingment, GrpcGPUmpscount, TotalPodnum>>
db      == <<nodeRow, gpuRow>>
history == <<overtaken, collided>>
vars    == <<cluster, control, tracked, records, analyzers, db, history>>

\* The nil slice.
Nil == [arr |-> 1, len |-> 0]

\* header and arr: what an append has loaded and where it stores, then arr the array
\* of the cell a cycle points to; value: a number read that it has not yet stored.
NoLoc == [gpu |-> 0, count |-> 0, header |-> Nil, arr |-> 1, tries |-> 0,
          procs |-> <<>>, pods |-> <<>>, j |-> 0, value |-> 0]

Init ==
  /\ proc = "killed" /\ gpus = 0 /\ spawned = 0
  /\ pc = [c \in Cycle |-> "idle"] /\ loc = [c \in Cycle |-> NoLoc]
  /\ podmap = Nil /\ arrays = << <<>> >>
  /\ GPUPod = [g \in GPU |-> <<>>] /\ GPUAssingment = [g \in GPU |-> 0]
  /\ GrpcGPUmpscount = [g \in GPU |-> 0] /\ TotalPodnum = 0
  /\ analyzers = 0
  /\ nodeRow = FALSE /\ gpuRow = [g \in GPU |-> 0]
  /\ overtaken = FALSE /\ collided = FALSE

\* The process ends and its memory with it; the rows stay.
Die(why) ==
  /\ proc' = why /\ gpus' = 0 /\ spawned' = 0
  /\ pc' = [c \in Cycle |-> "idle"] /\ loc' = [c \in Cycle |-> NoLoc]
  /\ podmap' = Nil /\ arrays' = << <<>> >>
  /\ GPUPod' = [g \in GPU |-> <<>>] /\ GPUAssingment' = [g \in GPU |-> 0]
  /\ GrpcGPUmpscount' = [g \in GPU |-> 0] /\ TotalPodnum' = 0
  /\ analyzers' = 0
  /\ gpuRow' = [g \in GPU |-> 0]
  /\ UNCHANGED <<nodeRow, history>>

-----------------------------------------------------------------------------
\* main

\* main from its start to its loop: it counts the GPUs (none when NVML does not
\* initialise), then drops and creates the database, ignoring any error.
Boot ==
  /\ proc # "up"
  /\ \E n \in {0, NumGPU} : gpus' = n
  /\ proc' = "up"
  /\ nodeRow' \in {nodeRow, FALSE}
  /\ overtaken' = FALSE /\ collided' = FALSE
  /\ UNCHANGED <<spawned, control, tracked, records, analyzers, gpuRow>>

\* One turn of main's loop starts a cycle; nothing waits for an earlier one.
Spawn(c) ==
  /\ proc = "up"
  /\ pc[c] = "idle"
  /\ spawned < MaxSpawns
  /\ spawned' = spawned + 1
  /\ pc' = [pc EXCEPT ![c] = "init"]
  /\ UNCHANGED <<proc, gpus, loc, tracked, records, analyzers, db, history>>

\* The process may be killed at any time: by the kernel, the kubelet or a
\* failed request of MemberMetricCollector.
Kill == proc = "up" /\ Die("killed")

-----------------------------------------------------------------------------
\* Gpumetric, up to the call of Gpumpsmetric

Goto(c, label, l) ==
  /\ pc' = [pc EXCEPT ![c] = label]
  /\ loc' = [loc EXCEPT ![c] = l]

Local(c) ==
  /\ UNCHANGED <<cluster, tracked, records, analyzers, db, history>>

\* The error of a write is printed and the row lost.
WriteNodeRow == nodeRow' \in {nodeRow, TRUE}

\* nvml.Init fails: a nodemetric row with Count 0 and nothing else.
InitFails(c) ==
  /\ pc[c] = "init"
  /\ Goto(c, "idle", NoLoc)
  /\ WriteNodeRow
  /\ UNCHANGED <<cluster, tracked, records, analyzers, gpuRow, history>>

\* nvml.Init succeeds; DeviceGetCount may still fail, which counts as no GPU.
InitCounts(c) ==
  /\ pc[c] = "init"
  /\ \E n \in {0, NumGPU} :
       Goto(c, "loop", [NoLoc EXCEPT !.gpu = 1, !.count = n])
  /\ Local(c)

CheckPodmapAgainst(c, limit) ==
  /\ pc[c] = "loop"
  /\ loc[c].gpu <= loc[c].count
  /\ Goto(c, IF podmap.len < limit THEN "append" ELSE "enter", loc[c])
  /\ Local(c)

CheckPodmap_OnlyWhenEmpty(c) == CheckPodmapAgainst(c, 1)
CheckPodmap_Always(c) == CheckPodmapAgainst(c, podmap.len + 1)

\* The test before the append: `if len(podmap) < int(count)`.
CheckPodmap(c) == CheckPodmapAgainst(c, loc[c].count)

\* podmap = append(podmap, GPUMAP{}): loads the header; when the array is full copies it
\* into one of twice the capacity; stores the header, whatever it is by now; and
\* stores an empty entry in the cell behind the length it loaded.
LoadPodmap(c) ==
  /\ pc[c] = "append"
  /\ Goto(c, IF podmap.len < Len(arrays[podmap.arr]) THEN "store" ELSE "grow",
             [loc[c] EXCEPT !.header = podmap, !.arr = podmap.arr])
  /\ Local(c)

GrowPodmap(c) ==
  /\ pc[c] = "grow"
  /\ LET full == arrays[loc[c].arr]
         room == IF full = <<>> THEN 1 ELSE Len(full)
     IN  arrays' = Append(arrays, full \o [k \in 1 .. room |-> <<>>])
  /\ Goto(c, "store", [loc[c] EXCEPT !.arr = Len(arrays')])
  /\ UNCHANGED <<cluster, podmap, records, analyzers, db, history>>

StorePodmap(c) ==
  /\ pc[c] = "store"
  /\ podmap' = [arr |-> loc[c].arr, len |-> loc[c].header.len + 1]
  /\ overtaken' = (overtaken \/ podmap # loc[c].header)
  /\ Goto(c, "clear", loc[c])
  /\ UNCHANGED <<cluster, arrays, records, analyzers, db, collided>>

ClearEntry(c) ==
  /\ pc[c] = "clear"
  /\ arrays' = [arrays EXCEPT ![loc[c].arr][loc[c].header.len + 1] = <<>>]
  /\ Goto(c, "enter", loc[c])
  /\ UNCHANGED <<cluster, podmap, records, analyzers, db, history>>

EnterGPUWith(c, pods) ==
  /\ pc[c] = "enter"
  /\ \/ Die("fatal")                              \* DeviceGetHandleByIndex fails
     \/ loc[c].gpu > podmap.len /\ Die("podmap")  \* podmap[i]
     \/ loc[c].gpu > gpus /\ Die("boot")          \* Node.NodeGPU[i]
     \/ /\ loc[c].gpu <= podmap.len /\ loc[c].gpu <= gpus
        /\ GPUPod' = [GPUPod EXCEPT ![loc[c].gpu] = pods]
        /\ Goto(c, "point", loc[c])
        /\ UNCHANGED <<cluster, tracked, GPUAssingment, GrpcGPUmpscount,
                       TotalPodnum, analyzers, db, history>>

EnterGPU_NoReset(c) == EnterGPUWith(c, GPUPod[loc[c].gpu])

\* The GPU's handle, its UUID stored in podmap[i] and the reset of its GPUPod.
EnterGPU(c) == EnterGPUWith(c, <<>>)

\* The argument &podmap[i].PodMetric: the cell stays the cycle's, wherever podmap goes.
PointToEntry(c) ==
  /\ pc[c] = "point"
  /\ \/ loc[c].gpu > podmap.len /\ Die("podmap")
     \/ /\ loc[c].gpu <= podmap.len
        /\ Goto(c, "read", [loc[c] EXCEPT !.header = Nil, !.arr = podmap.arr, !.tries = 0])
        /\ Local(c)

-----------------------------------------------------------------------------
\* Gpumpsmetric: matching the process list against the pod list

\* getgpuprocess collects no container id for a process outside kubepods, and
\* the empty string (Shallow) for one above the pods.
InKubepods(p) == p # Host
mpscount(ps) == Cardinality({k \in DOMAIN ps : ps[k] \in Container})

ReadProcessesAt(c, tries) ==
  /\ pc[c] = "read"
  /\ \E s \in Snapshots :
       IF Depth4 \in Range(s[1])
         THEN Die("index")
         ELSE /\ Goto(c, "list", [loc[c] EXCEPT !.tries = tries, !.procs = s[1]])
              /\ Local(c)

ReadProcesses_Uncounted(c) == ReadProcessesAt(c, loc[c].tries)

\* getgpuprocess: NVML's list, then each process's cgroup.  A path of exactly
\* four parts passes the test len > 3 and is indexed at 4.
ReadProcesses(c) == ReadProcessesAt(c, loc[c].tries + 1)

\* The two lists are taken: as many pods as processes.
Accepted(pods, n) == Len(pods) = n /\ n # 0

\* getpodlist and the comparison of the two lists: accepted lists are taken,
\* none of either ends the search, anything else is tried again and after the
\* last attempt given up with no pod at all.
ListPods(c) ==
  /\ pc[c] = "list"
  /\ \/ Die("fatal")                             \* the API server kept failing
     \/ \E s \in Snapshots :
          /\ s[1] = loc[c].procs
          /\ LET n == mpscount(s[1])
                 pods == s[2]
             IN  IF Accepted(pods, n)
                   THEN IF Len(pods) > Slots \/ NotRunning \in Range(pods)
                          THEN Die("index")      \* filling gpumpsmap
                          ELSE /\ Goto(c, "map", [loc[c] EXCEPT !.pods = pods, !.j = 1])
                               /\ Local(c)
                   ELSE /\ IF (Len(pods) = 0 /\ n = 0) \/ loc[c].tries = MaxTries
                             THEN Goto(c, "map", [loc[c] EXCEPT !.pods = <<>>, !.j = 1])
                             ELSE Goto(c, "read", loc[c])
                        /\ Local(c)

Matches_FromOwnPlace(c) ==
  {m \in DOMAIN loc[c].procs : m >= loc[c].j /\ loc[c].procs[m] = loc[c].pods[loc[c].j]}

\* The processes of pod i's container.
Matches(c) == {m \in DOMAIN loc[c].procs : loc[c].procs[m] = loc[c].pods[loc[c].j]}

FirstMatch(c) == CHOOSE m \in Matches(c) : \A n \in Matches(c) : m <= n

Position_OfPod(c) == loc[c].j

\* The k of the mapping loop: where the container first stands in ContainerID,
\* which has an entry for each process in kubepods.
Position(c) == Cardinality({m \in 1 .. FirstMatch(c) : InKubepods(loc[c].procs[m])})

SetGPUPod(c, s) ==
  /\ GPUPod' = [GPUPod EXCEPT ![loc[c].gpu] = s]
  /\ UNCHANGED <<GPUAssingment, GrpcGPUmpscount, TotalPodnum>>

\* Pod i's container is in mps.ContainerID: a blank entry is appended to the
\* shared GPUPod, then GPUPod[i] is filled from nvmlprocess[k].
MapPod(c) ==
  /\ pc[c] = "map"
  /\ loc[c].j <= Len(loc[c].pods)
  /\ Matches(c) # {}
  /\ LET grown == Append(GPUPod[loc[c].gpu], Blank)
         j     == loc[c].j
     IN  IF j > Len(grown)
           THEN Die("index")
           ELSE /\ SetGPUPod(c, [grown EXCEPT ![j] =
                     [cid |-> loc[c].pods[j], owner |-> loc[c].procs[Position(c)]]])
                /\ Goto(c, "map", [loc[c] EXCEPT !.j = @ + 1])
                /\ UNCHANGED <<cluster, tracked, analyzers, db, history>>

\* Pod i's container is not in the process list: nothing is appended for it.
SkipPod(c) ==
  /\ pc[c] = "map"
  /\ loc[c].j <= Len(loc[c].pods)
  /\ Matches(c) = {}
  /\ Goto(c, "map", [loc[c] EXCEPT !.j = @ + 1])
  /\ Local(c)

MapDone(c) ==
  /\ pc[c] = "map"
  /\ loc[c].j > Len(loc[c].pods)
  /\ Goto(c, "track", [loc[c] EXCEPT !.j = 1])
  /\ Local(c)

-----------------------------------------------------------------------------
\* Gpumpsmetric: tracking the containers seen on a GPU.  HealthCheck is never
\* set, so RunningCheck and GPUReturn have no effect and are left out, and no
\* container is ever removed.

Cell(c)   == arrays[loc[c].arr][loc[c].gpu]
Listed(c) == GPUPod[loc[c].gpu]

\* The containers the lookup compares with.
Known(c) == Range(Cell(c))

\* A container already in the cell is left alone; for a new one the counter is
\* read here and written by TrackNew.
TrackLookup(c) ==
  /\ pc[c] = "track"
  /\ loc[c].j <= Len(Listed(c))
  /\ IF Listed(c)[loc[c].j].cid \in Known(c)
       THEN Goto(c, "track", [loc[c] EXCEPT !.j = @ + 1])
       ELSE Goto(c, "count", [loc[c] EXCEPT !.value = GPUAssingment[loc[c].gpu]])
  /\ Local(c)

TrackNewWith(c, cids) ==
  /\ pc[c] = "count"
  /\ IF loc[c].j > Len(Listed(c))
       THEN Die("index")
       ELSE /\ GPUAssingment' = [GPUAssingment EXCEPT ![loc[c].gpu] = loc[c].value + 1]
            /\ arrays' = [arrays EXCEPT ![loc[c].arr][loc[c].gpu] = @ \o cids]
            /\ Goto(c, "track", [loc[c] EXCEPT !.j = @ + 1])
            /\ UNCHANGED <<cluster, podmap, GPUPod, GrpcGPUmpscount,
                           TotalPodnum, analyzers, db, history>>

TrackNew_NotKept(c) == TrackNewWith(c, <<>>)

\* The counter's write and the append of the container to the cell.
TrackNew(c) == TrackNewWith(c, << Listed(c)[loc[c].j].cid >>)

TrackDoneAfter(c, n) ==
  /\ pc[c] = "track"
  /\ loc[c].j > n
  /\ Goto(c, "rows", [loc[c] EXCEPT !.j = 1])
  /\ Local(c)

TrackDone(c) == TrackDoneAfter(c, Len(Listed(c)))

\* One podmetric row for each of the podnum pods of gpumpsmap, read from GPUPod.
WritePodRow(c) ==
  /\ pc[c] = "rows"
  /\ loc[c].j <= Len(loc[c].pods)
  /\ IF loc[c].j > Len(Listed(c))
       THEN Die("index")
       ELSE /\ Goto(c, "rows", [loc[c] EXCEPT !.j = @ + 1])
            /\ Local(c)

-----------------------------------------------------------------------------
\* Gpumetric, after Gpumpsmetric returned podnum

PublishCountOf(c, podnum) ==
  /\ pc[c] = "rows"
  /\ loc[c].j > Len(loc[c].pods)
  /\ GrpcGPUmpscount' = [GrpcGPUmpscount EXCEPT ![loc[c].gpu] = podnum]
  /\ Goto(c, "podnum", loc[c])
  /\ UNCHANGED <<cluster, tracked, GPUPod, GPUAssingment, TotalPodnum, analyzers, db, history>>

PublishCount_MinusServer(c) == PublishCountOf(c, Len(loc[c].pods) - 1)

\* The GPU's record.
PublishCount(c) == PublishCountOf(c, Len(loc[c].pods))

\* The fields of its gpumetric row, then the write.
ReadPodnum(c) ==
  /\ pc[c] = "podnum"
  /\ Goto(c, "gpurow", [loc[c] EXCEPT !.value = Len(Listed(c))])
  /\ Local(c)

WriteGpuRow(c) ==
  /\ pc[c] = "gpurow"
  /\ gpuRow' = [gpuRow EXCEPT ![loc[c].gpu] = loc[c].value]
  /\ Goto(c, "loop", [NoLoc EXCEPT !.gpu = loc[c].gpu + 1, !.count = loc[c].count])
  /\ UNCHANGED <<cluster, tracked, records, analyzers, nodeRow, history>>

\* `go analyzer.Analyzer(*Node, c)`.
SpawnAnalyzer(c) ==
  /\ pc[c] = "loop"
  /\ loc[c].gpu > loc[c].count
  /\ analyzers' = analyzers + 1
  /\ Goto(c, "zero", NoLoc)
  /\ UNCHANGED <<cluster, tracked, records, db, history>>

\* The cycle has additions to TotalPodnum before it.
Summing(c) == pc[c] \in {"load", "add"} /\ loc[c].gpu <= gpus

ZeroTotalTo(c, start) ==
  /\ pc[c] = "zero"
  /\ TotalPodnum' = start
  /\ collided' = (\E d \in Cycle \ {c} : Summing(d))
  /\ Goto(c, "load", [loc[c] EXCEPT !.gpu = 1])
  /\ UNCHANGED <<cluster, tracked, GPUPod, GPUAssingment, GrpcGPUmpscount, analyzers, db, overtaken>>

ZeroTotal_Not(c) == ZeroTotalTo(c, TotalPodnum)

ZeroTotal(c) == ZeroTotalTo(c, 0)

\* Node.TotalPodnum += len(Node.NodeGPU[i].GPUPod).
LoadTotal(c) ==
  /\ pc[c] = "load"
  /\ loc[c].gpu <= gpus
  /\ Goto(c, "add", [loc[c] EXCEPT !.value = TotalPodnum])
  /\ Local(c)

AddPods(c) ==
  /\ pc[c] = "add"
  /\ TotalPodnum' = loc[c].value + Len(Listed(c))
  /\ Goto(c, "load", [loc[c] EXCEPT !.gpu = @ + 1, !.value = 0])
  /\ UNCHANGED <<cluster, tracked, GPUPod, GPUAssingment, GrpcGPUmpscount, analyzers, db, history>>

\* The nodemetric row, and the cycle's end.
EndCycle(c) ==
  /\ pc[c] = "load"
  /\ loc[c].gpu > gpus
  /\ WriteNodeRow
  /\ Goto(c, "idle", NoLoc)
  /\ UNCHANGED <<cluster, tracked, records, analyzers, gpuRow, history>>

\* An analyzer: with a GPU it indexes the list of results that is never filled;
\* with none it queries nodemetric.  After a failed query the answer is nil and
\* its Error is called, an answer without series is indexed, and any other answer
\* ends in a verdict.
Analyzer ==
  /\ analyzers > 0
  /\ IF gpus > 0
       THEN Die("analyzer")
       ELSE \/ Die("query")
            \/ ~nodeRow /\ Die("series")
            \/ /\ analyzers' = analyzers - 1
               /\ UNCHANGED <<cluster, control, tracked, records, db, history>>

-----------------------------------------------------------------------------
Step(c) ==
  \/ InitFails(c) \/ InitCounts(c) \/ CheckPodmap(c)
  \/ LoadPodmap(c) \/ GrowPodmap(c) \/ StorePodmap(c) \/ ClearEntry(c)
  \/ EnterGPU(c) \/ PointToEntry(c) \/ ReadProcesses(c) \/ ListPods(c)
  \/ MapPod(c) \/ SkipPod(c) \/ MapDone(c)
  \/ TrackLookup(c) \/ TrackNew(c) \/ TrackDone(c) \/ WritePodRow(c)
  \/ PublishCount(c) \/ ReadPodnum(c) \/ WriteGpuRow(c) \/ SpawnAnalyzer(c)
  \/ ZeroTotal(c) \/ LoadTotal(c) \/ AddPods(c) \/ EndCycle(c)

Next ==
  \/ Boot \/ Kill \/ Analyzer
  \/ \E c \in Cycle : Spawn(c) \/ Step(c)

Spec == Init /\ [][Next]_vars

\* The Go scheduler runs every runnable goroutine, the kubelet restarts the
\* container.  Nothing forces a crash, or a spawn: main's loop may hang in a scrape.
Fairness ==
  /\ WF_vars(Boot)
  /\ WF_vars(Analyzer)
  /\ \A c \in Cycle : WF_vars(Step(c))

FairSpec == Spec /\ Fairness

-----------------------------------------------------------------------------
Exits == {"killed", "fatal", "index", "podmap", "boot", "query", "series", "analyzer"}
Labels == {"idle", "init", "loop", "append", "grow", "store", "clear", "enter", "point",
           "read", "list", "map", "track", "count", "rows", "podnum", "gpurow",
           "zero", "load", "add"}
Header == [arr : Nat, len : Nat]
Locals == [gpu : 0 .. NumGPU + 1, count : {0, NumGPU}, header : Header, arr : Nat,
           tries : 0 .. MaxTries, procs : Seq(Process), pods : Seq(Pod), j : Nat, value : Nat]

\* The types of the variables; podmap is within an array.
TypeOK ==
  /\ proc \in Exits \cup {"up"}
  /\ gpus \in {0, NumGPU}
  /\ spawned \in 0 .. MaxSpawns
  /\ pc \in [Cycle -> Labels]
  /\ loc \in [Cycle -> Locals]
  /\ arrays \in Seq(Seq(Seq(Container \cup {"none"})))
  /\ podmap \in Header /\ podmap.arr \in DOMAIN arrays /\ podmap.len <= Len(arrays[podmap.arr])
  /\ GPUPod \in [GPU -> Seq(PodMetric)]
  /\ GPUAssingment \in [GPU -> Nat]
  /\ GrpcGPUmpscount \in [GPU -> Nat]
  /\ TotalPodnum \in Nat
  /\ analyzers \in Nat
  /\ nodeRow \in BOOLEAN
  /\ gpuRow \in [GPU -> Nat]
  /\ overtaken \in BOOLEAN /\ collided \in BOOLEAN

-----------------------------------------------------------------------------
\* Properties of cycles that do not overlap (one goroutine in Cycle): the
\* period is longer than the slowest cycle.

Tracked(g) == IF g <= podmap.len THEN arrays[podmap.arr][g] ELSE <<>>
Matching(c, g) == loc[c].gpu = g /\ pc[c] \in {"map", "track", "count"}

\* The pod count served over gRPC (GrpcGPUmpscount, what Gpumpsmetric returned)
\* and the Podnum written to the gpumetric row (the length of GPUPod) are
\* computed from different lists and agree whenever no cycle is between the two.
PodnumAgrees ==
  \A g \in GPU :
    (\A c \in Cycle : ~(loc[c].gpu = g /\ pc[c] \in {"podnum", "gpurow"})) =>
      gpuRow[g] = GrpcGPUmpscount[g]

\* Every container reported on a GPU is counted as an assignment exactly once,
\* however often its pod is listed, in this cycle or in later ones: podmap tracks
\* it once, GPUAssingment counts what podmap tracks, and what a cycle has reported
\* is tracked when it has left the matching of that GPU.
AssignmentsTracked ==
  \A g \in GPU :
    /\ IsInjective(Tracked(g))
    /\ GPUAssingment[g] = Len(Tracked(g))
    /\ (\A c \in Cycle : ~Matching(c, g)) =>
         {GPUPod[g][k].cid : k \in DOMAIN GPUPod[g]} \subseteq Range(Tracked(g))

\* When every process of the list is in a pod, each entry of GPUPod carries the
\* pid, name and memory of a process of its own container.
AlignedMapping ==
  \A c \in Cycle :
    (pc[c] \in {"map", "track", "count", "rows"} /\ Host \notin Range(loc[c].procs)) =>
       \A k \in DOMAIN Listed(c) : Listed(c)[k].owner = Listed(c)[k].cid

\* When every pod taken has a process in the list taken with it, whatever their
\* orders and repetitions, no loop over the pods, the entries of GPUPod or the
\* rows ever indexes beyond the end.
NoIndexPanic ==
  \A c \in Cycle :
    (/\ pc[c] \in {"map", "track", "count", "rows"}
     /\ Range(loc[c].pods) \subseteq Range(loc[c].procs)) => proc' # "index"

ListedNeverPanics == [][NoIndexPanic]_vars

-----------------------------------------------------------------------------
\* Properties of cycles that overlap.

\* Once podmap has an entry for every GPU while no append is under way, it stays as it
\* is until the process ends and no podmap[i] is missing, however cycles overlap.
Appending(c) == pc[c] \in {"append", "grow", "store", "clear"}
Settled == proc = "up" /\ podmap.len >= NumGPU /\ \A c \in Cycle : ~Appending(c)
StaysSettled == Settled => (Settled' /\ podmap' = podmap) \/ proc' \notin {"up", "podmap"}

PodmapSettles == [][StaysSettled]_vars

\* As long as no append is lost, podmap[i] exists when a cycle indexes it; and though
\* tests and appends interleave, podmap outgrows the GPUs by no more than one entry
\* for each other cycle.
PodmapBounded ==
  ~overtaken => /\ proc # "podmap"
                /\ podmap.len <= NumGPU + Cardinality(Cycle) - 1

\* Each cycle adds up lists that others may be filling, but once all have ended, and
\* the last to zero the node's total had it for itself from then on, it is the sum of
\* what the GPUs' lists hold.
TotalAgrees ==
  ((\A c \in Cycle : pc[c] = "idle") /\ ~collided) =>
     TotalPodnum = FoldFunctionOnSet(+, 0, [g \in GPU |-> Len(GPUPod[g])], 1 .. gpus)

-----------------------------------------------------------------------------
\* What a comment of the code says and its behaviour does not bear out.

\* The entry of a container carries the pid and memory of a process of that
\* container, as the comment on the mapping says.
MappingCorrect ==
  \A g \in GPU : \A k \in DOMAIN GPUPod[g] : GPUPod[g][k].owner = GPUPod[g][k].cid

-----------------------------------------------------------------------------
\* Liveness under FairSpec.

\* A cycle that starts comes to its end (or the process does): the matching
\* gives up after MaxTries attempts.
CycleEnds == \A c \in Cycle : pc[c] = "init" ~> pc[c] = "idle"

=============================================================================
