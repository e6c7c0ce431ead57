# Verification of GPU-Metric-Collector

The metric collector runs as a DaemonSet pod on every node of a Kubernetes cluster. It asks
the kubelet for node and pod usage, NVML for the GPUs and their processes, maps GPU processes
to pods, writes rows to InfluxDB, serves the current values over gRPC and starts an analyzer.
A Go package around NVIDIA's DCGM (`pkg/dcgm`) comes with it.

This directory holds TLA+ modules translated from that code, TLC configurations that check
them on small instances, and theorems that TLAPS checks for every instance. Paths below are
relative to the repository. A comment line above every definition, property and theorem says
which behaviour of the code it is about; `PROJECT.json` maps each definition that models code to its lines.

## 1. Inventory

### Components

| Component | Source | State | Operations | Module |
|---|---|---|---|---|
| Main loop | `cmd/main.go` | `Node`, `GPU`, `NodeGPU`, the database client | start (count GPUs, recreate database), one scrape and one spawned cycle per period | `Collector` (start, spawn, crash, restart), `GpuRecord` (a turn's take of the counters) |
| Collection cycle | `gpumetric/gpumetric.go` | package variable `podmap`; fields of the shared `GrpcGPU`, `GrpcNode` | `Gpumetric`: loop over GPUs, rows, totals, `go Analyzer` | `Collector`, `GpuRecord` (the stores of a GPU's readings) |
| Process to pod matching | `gpumpsmetric/gpumpsmetric.go` | process list, pod list, `GPUPod`, the GPU's cell of `podmap` | `Gpumpsmetric`, `getgpuprocess`, `getpodlist` | `Collector` |
| PCIe sampling | `cmd/main.go:203-241` | `tmprx`, `tmptx` | `Get_GPUPci` adds, `Get_RXTX_Data` takes and zeroes | `GpuRecord` |
| gRPC service | `cmd/main.go:375-540` | `prevNodeStorage`, fields of `Node[0]` | `GetNode`, `GetGPU`, `GetInitData` | `NodeService` (total storage), `GpuRecord` (`GetGPU`) |
| Scraping | `scrap/scrap.go` | two buffered channels | `Scrap`, `CollectNode` | `Scrap`, which implements `Gather` |
| Decoding | `decode/decode.go` | none | `DecodeBatch` and helpers | `Decode` |
| NVLink discovery | `cmd/main.go:553-618` | none | `GetNvlinkInfo` at start | `NvLink` |
| Custom metrics | `customMetrics/customMetrics.go` | previous network counters per replica set | `AddToPodCustomMetricServer`, `AddToDeployCustomMetricServer` | not modelled (an empty batch is `Kill` in `Collector`) |
| Analyzer | `analyzer/analysis.go` | counters under a mutex | thresholds, confidence interval, trend | in `Collector`: how it ends |
| DCGM start and stop | `pkg/dcgm/api.go`, `admin.go` | `dcgmInitCounter`, `stopMode`, library, engine handle, child process | `Init`, `Shutdown`, three modes | `DcgmInit`, which implements `Lease` |
| DCGM policy | `pkg/dcgm/policy.go`, `callback.c` | callback channels of capacity 1 | register, callback, forward, merge | `Policy` |
| DCGM publisher | `pkg/dcgm/bcast.go` | subscriber slice, close flag | add, remove, send, broadcast, close | `Publisher`; its use by a registration in `Policy` |
| DCGM groups and fields | `pkg/dcgm/gpu_group.go`, `fields.go`, `health.go`, `process_info.go`, `device_status.go` | groups inside DCGM | create, use, destroy | `DcgmGroups` |
| DCGM queries | other files of `pkg/dcgm` | none | one library call each, conversions | not modelled |
| Types, protobuf, vendor, deployments | `storage`, `grpcs`, `stats`, `clock`, `protos`, `vendor`, `internal`, `deployments`, `build` | none | declarations, generated and third-party code, manifests | not modelled |

### How they interact

* `main` calls `Scrap` once per period and hands the batch to a `Gpumetric` goroutine. It does
  not wait for the goroutine, sleeps for the period, and starts the next one.
* Cycles, the gRPC handlers, the PCIe sampler and the printer share `Node[0]` and the `GPU`
  records by pointer. No lock protects them.
* `Gpumetric` owns `podmap` in name, but every cycle in flight uses the same package variable;
  `Gpumpsmetric` gets a pointer into its backing array, which an append of another cycle may
  have replaced. An append loads and stores the variable; two of them at once can lose entries.
* A cycle that ends starts an analyzer on the same records and the same database.
* A panic or `log.Fatal` in any goroutine ends the whole process. The DaemonSet starts a new
  one, which drops the database before its first cycle.
* `main` does not import `pkg/dcgm`. Its callers are programs around it: everything in it counts
  on `Init` having been called, and the last `Shutdown` stops the engine.

### What is hard here

* **Interleaving without locks.** Check, load, append and store of `podmap`, read-modify-write of
  `GPUAssingment` and of the node's `TotalPodnum`, reset and refill of `GPUPod`, compare-send-remember of `prevNodeStorage`,
  `tmprx +=` next to copy and reset, a record stored and copied field by field.
* **Two lists read at different moments.** NVML's processes and the API server's pods are
  accepted as soon as their counts agree; afterwards one is indexed with positions of the
  other.
* **Long runs.** Tracking must survive that pods are seen again every period, are listed
  twice, change places, disappear and come back, and that the process restarts.
* **Partial failure.** Partial kubelet batches, lost rows, a start of DCGM that stops half way,
  a stop that returns at its first error, a group whose call failed.
* **Channels with two kinds of receivers.** The library's thread sends on global channels of
  capacity one; two goroutines of every registration compete for what is in them.
* **A slice that changes under a loop.** The publisher goes through its subscribers outside the
  lock under which they are added and removed in the same array, cell by cell.
* **Waiting without a limit.** The kubelet client has no timeout; main's loop waits for every answer.
* **Sending only what changed.** One remembered value for all callers, remembered before the
  reply has arrived.
* **Handles of someone else.** The groups of a library that holds 64 of them, whose handles come
  back, in the hands of several goroutines and of the application.

### What makes each component correct

* Cycle: what is counted, tracked, served and written agrees; no index beyond a list where the
  lists allow it; every cycle ends; `podmap` is bounded and long enough as long as no append is
  lost, and settles once it is complete; the node's total is right again after any overlap.
* Matching: an entry carries the data of a process of its own container; the search gives up.
* Service: a change reaches somebody, a sole client catches up, `GetInitData` repairs the rest; a
  copied record is at most one storing cycle apart.
* PCIe sampling: a round of readings that met no take is reported, both halves first by the same
  take, or still counted; a reading is repeated only while every take in between met a round.
* Scraping: no send after close, nothing lost or returned twice, returns once every kubelet answered.
* Decoding, NVLink: the result equals a reference definition.
* DCGM: counter equals callers, the engine is usable for those who hold it, and with the last of them
  everything is gone, the process started for it included, unless stopping it failed.
* Policy: a caller gets what it asked for, in its order, once each; the library's thread is never
  held; a caller whose conditions go on being violated gets them all.
* Publisher: without a removal each subscriber gets each value exactly once; with removals those
  before every gap still do, and nobody gets it more than once for each removal and once again;
  who never reads holds nobody back.
* Groups: a failed call leaves at most one group behind; a call works on its own group.

The hazards, each at its line and with the properties that would catch it, are in
`PROJECT.json` under `hazards`.

## 2. Modules

A definition named `X_Why` next to `X` is a faulty variant of `X`. It is not part of any
specification; replacing `X` by it shows that a property can fail. Each is listed with the
property it breaks under `mutants` in `PROJECT.json`.

### Collector (MCCollector, CollectorProof)

The cycles of one process and the process's own life. State and code:

| Variable | Code |
|---|---|
| `proc`, `gpus`, `spawned` | the process, `len(NodeGPU)` as counted at its start, turns of main's loop |
| `pc`, `loc` | where each `Gpumetric` goroutine stands, and its locals: GPU index, device count, the header an append has loaded and the array it stores into, later the array of the cell it points to, attempts, both lists, loop index, a number read but not yet written |
| `podmap` | `gpumetric.go:17`, the slice header: which array, and the length |
| `arrays` | every backing array made so far, because a cycle may still write through a pointer into an old one. Growth copies the cells into a new one of twice the capacity |
| `GPUPod`, `GPUAssingment`, `GrpcGPUmpscount`, `TotalPodnum` | fields of the shared records |
| `analyzers` | running analyzer goroutines |
| `nodeRow`, `gpuRow` | whether the database holds a row of `nodemetric`; `Podnum` of the last `gpumetric` row |
| `overtaken`, `collided` | history: a header of `podmap` was stored over one stored since its load; the last zeroing of the total met another cycle's additions |

`Boot`, `Spawn` and `Kill` are main. `InitFails`, `InitCounts`, `CheckPodmap`, `EnterGPU`,
`PointToEntry`, `PublishCount`, `ReadPodnum`, `WriteGpuRow`, `SpawnAnalyzer`, `EndCycle` are `Gpumetric`;
so are `LoadPodmap`, `GrowPodmap`, `StorePodmap` and `ClearEntry`, the steps of
`podmap = append(podmap, ...)`, and `ZeroTotal`, `LoadTotal` and `AddPods`, which reset the node's total
and add to it per GPU. `ReadProcesses`, `ListPods`, `MapPod`, `SkipPod`, `MapDone`, `TrackLookup`,
`TrackNew`, `TrackDone` and `WritePodRow` are `Gpumpsmetric`. A step is an iteration of a loop or one
statement on shared memory; what reads and writes a shared number or `podmap` is at least two
steps. Every index expression of the code is a conjunct or an alternative of its action: out of
range, the action is `Die` with the reason.

Data is reduced to what matching distinguishes. A process is the container it runs in, or
`Host` (outside kubepods: an entry of NVML's list without an entry in `ContainerID`),
`Shallow` (an empty container id) or `Depth4` (the cgroup path of four parts that is indexed
at 4). A pod is its first container, or `NotRunning`. `Snapshots` says which list of processes
can be followed by which list of pods.

### GpuRecord (MCGpuRecord, ServiceProof)

The record of one GPU as the goroutines around it see it; records of different GPUs have nothing
in common. `LoadRX`, `StoreRX`, `LoadTX`, `StoreTX` are the two additions of `Get_GPUPci`, each a
load and a store. `Spawn`, `CopyRX`, `CopyTX`, `ResetRX`, `ResetTX` are a turn of main with
`Get_RXTX_Data`; `SpawnWithoutNvml` starts a cycle that stores nothing, because `nvml.Init` fails
(`gpumetric.go:23-50`) or the count of the GPUs does (59-64). `Store` is one assignment of a cycle to the record, `GetGPU` and `CopyField` the
handler that copies the record into its reply.

A counter is the set of the rounds whose readings it sums, and a field the number of the cycle
that stored it, counting those that store at all (`storing`): sums tell losses from repetitions only when it is known what they are sums of. The
history variables say when the properties apply: `windows` what each take reported, `struck`
the takes and rounds that met, `mixed` and `overlapped` whether cycles overlapped.

### NodeService (MCNodeService, ServiceProof)

`GetNode` and `GetInitData` for the one field whose value in a reply depends on what was sent
before. Compare, fill and remember are separate steps, as the handler reads the fields again
for each. The client (`known`) and the connection (`Lose`) are external. `disturbed` is a
history variable: main wrote into an open call or a reply was lost since the process started.
`SomebodyKnows` and `SoleClientCatchesUp` are conditional on it; dropping the condition makes
them false, since the value is remembered before the reply arrives.

### Gather and Scrap (MCScrap, ScrapProof)

`Gather` is what the caller of `Scrap` may count on, without channels or goroutines: every node
answers once, then one reply holds each batch and each error exactly once, in any order. `Scrap`
has one goroutine per node with its two sends, and the caller's loop with its two receives and
the deferred closes. `CollectNode` ends with a full batch, a partial one and an error, only an
error, or an index panic. The queues are the channels' buffers; a send on a closed channel ends
the process. The refinement mapping (`G` in `Scrap`): a node has answered when its `CollectNode` has
ended, and there is no reply before the caller has returned; then it is what the caller stored.

### Decode, NvLink, Algorithms (MCAlgorithms, AlgorithmsProof)

Two pure algorithms as operators of their input, without recursion, each beside a reference
definition that knows nothing of the algorithm's loop. `Decode` is a kubelet's summary turned into
the points of a batch: which readings are there, which parts of them are nil pointers, when they
were taken, and their value. The loop over the pods writes into slots of one array, and a pod with
an error leaves its slot, with whatever is in it, to the next one. `NvLink` is the search for
peers: a wiring of the GPUs' lanes turned into `NvLinkInfo`. The loops are folds. `Algorithms` makes
the input the only variable, an element of the constants `Summaries` and `Wirings`, which may be any
sets of summaries and wirings; `MCAlgorithms` gives them every one of a bounded set.

### Lease and DcgmInit (MCDcgmInit, DcgmProof)

`Init` and `Shutdown` hold one mutex from start to end, so a call is one step; what is left
after each failure of a call into C or the system is an alternative of `initDcgm` or
`shutdown`. `children` counts the `nv-hostengine` processes this one has forked and nothing has
stopped; `hostengineAsChildPid` is the variable of that name, zero after a fork that failed. The
end of `stopHostengine` (`Terminate`) ends the process of that number, and `--term` one engine that may be
another; with number zero the signal goes to the caller's own process group. `faults` (what has
failed so far) and `stray` are history variables.

`Lease` is what a caller may count on: whoever holds the engine can use it, and when the last has
given it back nothing of it is left, unless stopping it has failed. It promises nothing after a
start that failed or a cleanup too many or too few. The refinement mapping (`L` in `DcgmInit`) says what
these words mean: a caller holds the engine from an `Init` without an error to its cleanup; it can
use it (`usable`) when the handle is live and the library open; something is `left` as long as there
is a library, a handle, an agent or a child process; stopping is `botched` when a stop has failed. A
child that goes on after a failed stop is thus left behind, and `Lease` allows it only then.

### Policy (MCPolicy, PolicyProof)

`registerPolicy` step by step (`Create`, `Prepare`, `Register`, `StartGoroutines`, `Finish`),
with an error return after each call into the library, any number of calls at once. `callbacks`
holds the number of values in the global channel of each condition, `notifier` the library's
thread inside `ViolationRegistration`. Each registration has three goroutines: the `forwarder`
(its `select` over all channels, then the send to the publisher), the publisher's `broadcast`,
and the `merger` with the channel `violation` that the caller reads. What the forwarder takes is
handed to two subscribers that `registerPolicy` throws away, each in a goroutine of its own, so
`Publish` always ends and the value is gone. Violations themselves (`Violate`) and the caller
(`Read`) are external. Of a violation only the condition is kept.

### Publisher (MCPublisher, PublisherProof)

`p.subscribers` as Go has it: a length and a backing array up to its capacity. `add` appends in
place or moves to an array of twice the capacity, one step under the lock. `remove` takes the lock
(`leaving`) and closes the gap in place: `Move` stores one cell of the copy (`pending`), in any order,
as the runtime's copy may go either way and in words or blocks, and `Removed` shortens the slice and
gives the lock back. `add`, `remove` and the list of a broadcast wait for the lock; the loop of the
broadcast does not. `Take` is the
`select` of `broadcast`, where a value and the list of the moment arrive; `Hand` starts a
goroutine for the subscriber in the next cell of that list, as the cell is by then (`shares`: the
list is of the array that `add` and `remove` change). `waiting` counts the goroutines in their send to
a subscriber, `got` what an external subscriber has read. `present`, `removals` and `spared` (those
before every gap) are history.

### DcgmGroups (MCDcgmGroups, DcgmProof)

The groups and field groups in the library, and the calls that make one, work on it and destroy
it: `healthCheckByGpuId`, `registerPolicy`, `latestValuesForDevice`, `getPciBandwidth`,
`watchPidFields`, `getProcessInfo`. A call is a goroutine that goes through the calls of the library
one by one; each may fail, and `Abandon` is what the Go code does then. The library is external,
modelled from the header (`dcgm_agent.h`): a limited number of handles, given out again once free,
and an error for a group that does not exist. `maker` (who made the group of a handle last),
`failures`, `fieldFailures` and `misused` (the application passed a handle on again) are history.

### FoldTheorems

What a fold over a finite set yields, without a model of its own: the loops and sums of `Collector`,
`Publisher`, `Decode` and `NvLink` are folds, and the proofs about them cite it.

## 3. What is checked

| Run | Instance | Shows |
|---|---|---|
| `collector_serial` | 1 cycle at a time, 2 GPUs, 2 containers, 9 process lists x 6 pod lists, 2 attempts, 3 cycles per process, crashes and restarts | `TypeOK`; the count served over gRPC equals the row's (`PodnumAgrees`); every container reported is tracked and counted as an assignment exactly once (`AssignmentsTracked`); entries carry their own container's process when none is outside the pods (`AlignedMapping`); no index beyond a list when every pod has a process (`ListedNeverPanics`); every cycle ends (`CycleEnds`) |
| `collector_overlap` | 2 cycles at once, 2 GPUs, a pod on each, 2 spawned per process | as long as no append is lost, `podmap[i]` exists when indexed and `podmap` outgrows the GPUs by one at most (`PodmapBounded`); once it is complete and nobody appends it stays as it is, also after lost appends (`PodmapSettles`); once all cycles have ended the node's total is the sum of the lists, unless the last zeroing met another cycle's additions (`TotalAgrees`) |
| `gpu_record` | 3 cycles, 1 handler, 3 fields, 4 rounds, 3 turns | no reading is lost but to a take it met (`NothingLost`) or repeated but through an unbroken row of them (`NothingRepeated`); how far apart the fields of a reply (`ReplyAlmostWhole`) and of a record (`RecordWhole`) can be |
| `node_clients` | 2 clients, 3 values, restarts, lost replies, writes into calls | `SomebodyKnows`, `SoleClientCatchesUp`, `InitRepairs` |
| `scrap` | 3 nodes, all outcomes | `AllSentBeforeClose`; nobody waits for somebody who has ended (`NobodyLeftWaiting`); `Scrap` implements `Gather` (`Gathers`); it returns if every kubelet answers or fails some time (`Returns`) |
| `algorithms` | 3 GPUs and 3 lanes, all consistent wirings; nodes and up to two pods of any shape | a batch has exactly the complete pods, each with its own readings, and an error for all else (`BatchComplete`); which links are listed and with how many lanes (`LinksCounted`) |
| `dcgm_callers` | 3 callers, 3 modes, every failure, stray calls; counter and open agents bounded by 3 | `CounterMatches`, `CounterDecides`; `DcgmInit` implements `Lease`, no process left behind by a stop that did not fail (`Leases`) |
| `dcgm_groups` | 2 goroutines, 3 groups, 2 field groups, 3 failures of each kind | a failed call leaves one group at most, the others none (`OneGroupPerFailure`); field groups only if their destruction failed (`FieldGroupsFreed`); the group a call works on is its own (`OwnGroup`) |
| `policy_calls` | 2 calls, 2 conditions, requests of one and of both, every failure | `ReportsInOrder`; a callback has somebody who receives what it sends (`CallbackHasReceiver`); `CallbackReturns`, `MergeEnds` |
| `publisher` | 3 subscribers that come and go, 1 of them reading on, 2 values | `ExactlyOnce`; those before every gap served exactly once, nobody more than once and once again per removal (`HarmBounded`); `SlowHoldsNobody` |
| `collector_mapping` | as `collector_serial` | violated: `MappingCorrect` |
| `dcgm_failed_start` | 2 callers, any part of a start failing | violated: `InitStarts` |

The two violated runs are disagreements between a comment and the code:

* **Mapping** (`gpumpsmetric.go:304`). pid, memory and name come from `nvmlprocess[k]` with `k` a
  position in `ContainerID`. A process outside kubepods is in the first list and not in the
  second, and shifts every later container to an earlier process.
* **Start** (`api.go:29`). `api.go:14` says that `Init` starts DCGM. A failed `Init` is counted, so the
  next one finds a positive counter and reports success without an engine. `Lease` promises nothing
  after it.

The models follow the code in these places as well, where a comment says something else and no
run of its own is spent on it:

* **Verdict** (`analysis.go:155`). The list indexed for each GPU is never filled, the append is
  commented out; `analysis.go:137` lists three outcomes. With a GPU the first analyzer panics, and the
  process with it (`Analyzer`).
* **Append** (`gpumetric.go:69-70`). The comment says that entries are created the first time only.
  A cycle that has loaded `podmap` and stores it after others have appended puts the shorter list
  back: entries are gone and are created again. Another cycle may meanwhile index one of them and
  panic, and with three cycles and a longer list still to be stored `podmap` can also outgrow its bound;
  `PodmapBounded` is conditional on `~overtaken` for this reason, and `PodmapSettles` is what holds
  without a condition.
* **Hostengine** (`admin.go:231`). After a fork without connection, or when the disconnect fails,
  `stopHostengine` returns at the disconnect and never terminates the child, which `api.go:19`
  promises. `CounterDecides` is about runs without a failure, and `Lease` lets something be left
  after a failed stop, for this reason.
* **Total** (`gpumetric.go:264-267`). Two cycles that zero the node's total and then both add to it
  leave a sum that is too large after both have ended, until a later cycle zeroes it alone.
  `TotalAgrees` is conditional on `~collided` for this reason.
* **Notification** (`policy.go:360`). The forwarder of any registration, the caller's own
  included, may take the violation a merger waits for, and nobody reads the publisher it goes to;
  `api.go:95` promises a notification. `MergeEnds` therefore assumes violations without end.
* **Node errors** (`decode.go:39-42`). The branch that would discard a node with errors is empty; its
  partial point stays in the batch. `BatchComplete` demands completeness only of a batch without
  errors.
* **Health** (`health.go:54`). Every check makes a new group, and the first `dcgmHealthCheck` of a
  group gives no errors according to `dcgm_agent.h:1385-1387`. What the library answers is not modelled.

### Bounds and why they are enough

* Collector: two GPUs give one cell before and one after an append, and an append that copies
  (capacity 1 to 2) as well as one in place. Two containers: one known and one new. The pod
  lists repeat a container, change its place, name one without a process and exceed `Slots`; the
  process lists have one, several and no process per container, and one of each irregular kind.
* `Slots` is 2 instead of 48 and `MaxTries` 2 instead of 20, so that both limits are met. Only
  comparisons with them appear in the code.
* `MaxSpawns` bounds the cycles of one process, not of the run: crashes and restarts are
  unlimited. Three cycles see a container for the first time, again, and after it was away.
* `collector_overlap`: the races are between one cycle's test, loads and stores and another's. Two
  cycles with two GPUs have them, growth included, and lose entries and additions; a pod on each
  GPU is enough for the lists to be filled by one cycle while the other adds them up. That every process
  has two cycles only is what TLC can go through in time (three million states); that later cycles
  repair a total, and that nothing changes with more cycles, is in the theorems.
* `dcgm_failed_start`: two callers, one whose start fails and one after it.
* `gpu_record`: three takes let a reading be reported once, by two takes in a row, and by two with
  one between them; four rounds put a round before, into and between them. Three cycles
  overlap in pairs and one after the other. The counters and the fields have only the turn in
  common, so the constraint `OneHalf` explores each with the other at rest; the theorems about the
  same properties have no such constraint and no bounds.
* `scrap`: three nodes, one for each outcome that returns, so that every mix and every order of the
  three meets in the channels.
* `algorithms`: `MaxInt64` is 40 and the values are 37 and 81, one below and one above it, as the
  code only compares with it and divides by ten. Two pods, since a slot is left over to the next
  one only. Three GPUs and three lanes let a peer's index be below, at and above the lane's.
* `dcgm_callers`: `Bound = 3` lets the counter pass below zero and above the number of callers.
* `dcgm_groups`: three handles instead of 64 and two goroutines, so that the limit is met, with
  groups that leaked and with groups in use, and a handle comes back while another call runs.
* Two policy calls and two conditions: `<<dbe>>` and `<<xid, dbe>>` give calls that share a
  channel, one of which waits for another condition first. More calls are more competitors of the
  same two kinds; the theorem covers them.
* `publisher`: three subscribers let an append be in place and with a copy (capacities 1, 2, 4), and
  a removal be before, at and after the cell a broadcast has come to; two values let goroutines of
  an earlier broadcast still wait during the next.

### Fairness

* Collector: weak fairness of each goroutine's step, of the analyzer and of the restart. The Go
  scheduler runs every runnable goroutine and the kubelet restarts the container; that NVML, InfluxDB
  and the API server answer or fail some time is assumed, as none of their clients has a time limit.
  Nothing forces a failure, nor main to start a cycle (`Spawn`): its loop may hang in a scrape.
  `CycleEnds` needs the attempts to be counted.
* NodeService: weak fairness of a call that was accepted. Nothing forces clients to call or
  main to write; `SoleClientCatchesUp` and `InitRepairs` assume the calls in their premise.
* Scrap: weak fairness of the caller and of the sends of each goroutine, none of `CollectNode`. The
  kubelet client has no timeout (`kubeletClient.go:39-41`) and its request no deadline (72), so a kubelet that stays
  silent holds `Scrap` for ever; `Returns` has as its premise that every request ends.
* Policy: weak fairness of the callback's send, of `StartGoroutines` (straight-line code) and of the
  goroutines. `Merge` has strong fairness: receivers wait on a Go channel in the order in which
  they came, and a forwarder that has taken a value queues again behind the merger, so a channel
  filled again and again serves the merger too. `MergeEnds` assumes the violations in its premise;
  no fairness forces one, nor the caller to read.
* Publisher: weak fairness of the loop of `broadcast` and of the reads of the subscribers in
  `Prompt`. The others need never read, and nothing forces a send.
* DcgmInit, DcgmGroups, GpuRecord: none, no liveness is claimed.

Deadlock is checked in the two passing `collector` runs, in `node_clients` and in `dcgm_groups`. It
is not where a run may stop: `Scrap` returns, every call of `Policy` may fail, a failed
shutdown in `DcgmInit` may end the process, and `gpu_record`, `publisher` and `algorithms` end at
their bounds.

## 4. What is proved

All theorems are of the form `Spec => []P` (`Spec => G!Spec`, `Spec => L!Spec` for the refinements)
for every value of the constants under the assumption named.

* `CollectorProof`, any number of cycles (`ConstantsAssumption`: finite set of cycles, at least one
  GPU and one attempt, distinct values), GPUs, containers and lists: `TypeCorrect`,
  `PodmapStaysSettled` (`PodmapSettles`) and `PodmapStaysBounded` (`PodmapBounded`).
  The inductive invariant `IInv` adds to the types what `CyclesOK` says for every label of a
  cycle: the array it points to exists and its place is within it, the header it has loaded fits the
  array it will store into. That is true of lost appends too. `PodmapSettles` needs no more: while
  nobody appends, a cycle can only test, find enough entries and index them.
  `PodmapBounded` rests on `Unlost`: as long as every header was stored over the one that had been
  loaded, the entries reach to the GPU before the cycle's own, and to its own after the append
  (`Within`), and the length plus the cycles between test and store (`Makers`) stays at most
  `NumGPU + Cardinality(Cycle) - 1` (`Room`). Such a store makes `podmap` one longer, and no other step
  changes its length while the process lives.
* `CollectorProof`, any number of cycles: `TotalsAgree` (`TotalAgrees`). `TotalPodnum` is a sum over lists
  that other cycles may be filling, with additions that may be lost or made twice, so little is known
  of it while cycles run. `Totals` says that when the last zeroing met nobody's additions and no cycle
  has yet to zero the total (`ToZero`), then either one cycle is adding and is right up to the GPU it
  has come to (`Partial`), or none is and the total is the whole sum (`Summed`). A list is refilled only by
  a cycle that has yet to zero the total itself. The sums are folds, and one addition is one step of the fold
  (`FoldGrows`, from `FoldTheorems`).
* `CollectorProof`, cycles that do not overlap (`ASSUME NEW c, Cycle = {c}`), any number of GPUs and
  any lists: `PodnumsAgree` (`PodnumAgrees`), `MappingAligned` (`AlignedMapping`),
  `AssignmentsAreTracked` (`AssignmentsTracked`), `ListedNeverPanic` (`ListedNeverPanics`). They rest on
  `Listing` (`GPUPod` starts empty and has one entry for each pod passed that has a process), and each
  on a strengthening of its own. `Aligned`: while every process is in a pod, the entries
  written so far carry their own container's process, since a position in one list is then the
  same position in the other (`PositionOfMatch`). `Counted` and `Followed`: the tracked containers are without repetition and as many as
  were counted, the entries behind the cycle are among them, and the container about to be counted
  is not. `Filled`: while every pod has a process there are as many entries as pods passed.
  With overlapping cycles these properties are false of the code, which is why the theorems are
  about a single cycle.
* `ServiceProof`, `GpuRecord` (`RecordAssumption`: at least one field): `TypeCorrect`; `RecordsWhole`
  (`RecordWhole`) from `Whole`, which says of a cycle storing alone that the fields behind it are
  its own; `RepliesAlmostWhole` (`ReplyAlmostWhole`) from `OnTurn`, which counts
  the cycles that store and no others, so that one that fails in between makes no difference; `NeverRepeated`
  (`NothingRepeated`) and `NeverLost` (`NothingLost`). The last two are about what a take may yet report
  of a counter (`Kept`), which is more than the counter: a load not yet stored and a copy not yet
  reset belong to it. `Cleared` says that a take that met no round leaves nothing of what it
  reported in it, `Lossless` that a round that met no take is in it until it is reported.
* `ServiceProof`, `NodeService` (`ServiceAssumption`: totals are natural numbers, 0 among them):
  the types (`ServiceTyped`) and `ChangesReachSomebody` (`SomebodyKnows`) for any set of clients and values.
  The invariant `Held` says that the remembered value is held by a client or on its way to one.
* `ScrapProof` (`ScrapAssumption`: finite set of nodes): `SendsBeforeClose` (`AllSentBeforeClose`) by
  counting: goroutines that are done = errors waiting + errors received (`ErrorsCounted`), and the
  caller closes after as many rounds as there are nodes (`LoopComplete`). `NobodyHangs`
  (`NobodyLeftWaiting`) from the same counts for both channels: a value not yet sent leaves room
  for it, and a value still to be received was sent or has a sender left. That is the safety half
  of `Returns`: no state is stuck, for any number of nodes. `ImplementsGather`
  (`Gathers`): initial states map to initial states and each step to a step of `Gather` or a
  stutter. It rests on the books of both channels (`Books`): what was sent and is to be kept is in
  the channel or with the caller, once, so when all rounds are over it is all with the caller.
* `DcgmProof`, `DcgmInit` (`InitAssumption`: finite set of callers): `TypeCorrect` (with `EngineHasAgent`: a
  live engine has an open agent, so `dcgmShutdown` is never called more often than `dcgmInit`
  succeeded), `CounterCorrect`, `EngineFollowsCounter` (`CounterDecides`: with no fault the counter
  decides between a complete engine and nothing at all). `ImplementsLease` (`Leases`) is the refinement,
  step by step. It needs `CounterMatches`, `CounterDecides` (without a fault the last cleanup leaves
  nothing, no child either), and `CountedRuns` (a positive counter means a live handle in an open library, also
  after stops that failed): while the promise holds nobody's `Init` has returned an error
  (`NoneFailed`), so those who hold the engine are those who are counted; an `Init` takes it
  (`InitHolds`), a cleanup gives it back and finds the counter at one exactly when no other holder is
  left (`CleanupReleases`), and then the engine is there to be stopped, so that neither the call into an
  unopened library nor the signal to process zero can happen.
* `DcgmProof`, `DcgmGroups` (`GroupsAssumption`: finite sets of handles): `GroupsTyped`, `GroupsAreOwn`,
  `FieldGroupsReturned` and `LeaksCounted`. `GroupsTypeOK` is inductive with `FieldsOwn` and `Places`, which
  say at which steps a call has which handle; the leaks are counted by the cardinality of the
  groups nobody holds, which a step raises by one at most and only with a failure.
* `PolicyProof` (`PolicyAssumption`): `TypeCorrect` and `InOrder` (`ReportsInOrder`) for any set of
  calls and conditions and any lists. `ReportsInOrder` needs `Fresh`: a call that has not begun has
  got nothing and has no merger, so that the list it is given is compared with an empty
  sequence. The rest is sequence algebra: appending to the buffer extends the prefix by one
  (`AppendToBuffer`, `LongerPrefix`), reading moves its head (`ReadFromBuffer`). `CallbacksAreReceived`
  (`CallbackHasReceiver`), the safety half of `CallbackReturns`, from `Served`: the library watches
  only for calls that will return no error any more, a forwarder and its publisher are started in
  one stroke and never end, and a callback is on behalf of such a call.
* `PublisherProof` (`PublisherAssumption`): `TypeCorrect` and `SentExactlyOnce` (`ExactlyOnce`). `Slice`:
  each subscriber is in one cell; `Walk`: a list that shares the array shows its cells; `Steady`: while
  nobody is removed the cells of the list stay within the subscribers' slice, where `add` does not
  write, and those before the next cell have been sent the value. `HarmStaysBounded` (`HarmBounded`),
  with removals whose cells move while the loop goes on: `Spared` says that a subscriber before every gap
  keeps its one cell and gets the value from it; `Served` that the sends to a subscriber and the cells
  still to come in which it stands, or will when the copy under way is over (`Ahead`), are no more than
  one for each removal and one. A subscriber stands in two cells at once only while it is being moved,
  and a removal moves it by one.
* `AlgorithmsProof` (`DecodeAssumption`, `NvLinkAssumption`, `InputAssumption`: the inputs are summaries and
  wirings, of any number of pods, GPUs and lanes): `BatchIsComplete` (`BatchComplete`) and
  `LinksAreCounted` (`LinksCounted`). Each has the invariant of its loop: `Found` says what `lanes` and
  `peers` hold after `k` lanes, and `Holds` which pods are in the batch after `k` of them, what is in
  the slot left over, and how many errors there are at least. Each loop is a fold over the cells of
  a sequence, so that an induction over the number of cells gives the invariant for all of them.
* `FoldTheorems`, what the sums and loops rest on. The folds of the community modules are defined by
  a recursive function on the subsets of a set, chosen by `CHOOSE`. That there is one, and only one,
  on the subsets of a finite set is `RecursionExists` and `RecursionUnique`; then a fold of
  nothing is the base (`FoldEmpty`), a fold of a set one element and the fold of the others
  (`FoldStep`), of any element when the order does not matter to the operator (`FoldAny`), and a
  fold over `1 .. k + 1` one step after that over `1 .. k` (`FoldNext`). The induction on natural
  numbers is derived from the well-founded order (`Least`, `Induction`) in a form that takes a set
  and not an operator.

Only model-checked: every liveness property (`CycleEnds`, `SoleClientCatchesUp`, `InitRepairs`,
`Returns`, `CallbackReturns`, `MergeEnds`, `SlowHoldsNobody`), which is beyond this prover; the deadlock
freedom of the runs that check it, which is a statement about `ENABLED`; and the two violated properties.

## 5. What is left out

* In `Collector`: the wording of rows, and the copies of a pod's usage from the batch. cgroup v1,
  where the loop over the lines of a cgroup file can add a container several times, is not
  modelled; neither are torn slice headers, which Go's memory model allows when two cycles assign
  `podmap` at the same moment. The append of an entry to `GPUPod` (`gpumpsmetric.go:300`) and of a
  container to a cell (`TrackNew`) is one step, as are the last two steps of `AddPods`, which reads the
  length of a list as it stores the sum: the properties of `GPUPod` and of the cells are about cycles that do not
  overlap, and what `TotalAgrees` says holds when the lists are at rest. `RunningCheck` and `GPUReturn` have no effect because `HealthCheck`
  is never set. The panics of main on an empty batch are `Kill`.
* In `GpuRecord`: the values of readings, and torn words. Whether a cycle that stores nothing does so
  early or late makes no difference to the record, so `SpawnWithoutNvml` has no further steps. A process whose sampler counts other GPUs
  than main did (its own `nvml.Init` at another moment) indexes beyond its list; the record here is
  of a GPU both know. The negative `mpscount` that `GetGPU` would set to zero cannot occur.
* In `NodeService`: the fields that are copied as they are.
* In `Decode`: the network, whose decoding nothing calls; the conversions of names and labels. In
  `NvLink`: the bus id of the GPU itself, which is built and never read.
* In the analyzer: thresholds and trends. They cannot be reached: `GetNodeMetric` compares a
  `json.Number` with an `int`, which are never equal, and so answers 2 for any row; the loop over the
  GPUs panics before them.
* In `Policy`: the contents of a violation, the thresholds, and `unregisterPolicy`, which nothing calls.
* In `DcgmInit`: `checkHostengineVersion`, which nothing calls, and the texts of errors. A child that
  ends by itself, or with the process, is not modelled.
* In `Publisher`: the goroutine that `remove` leaves waiting on `leaving.close`, which nothing reads;
  it touches nothing of the slice.
* In `DcgmGroups`: `NewDefaultGroup`, `AddEntityToGroup`, `WatchFieldsWithGroup` and
  `EntityGetLatestValues`, which only an application could call; the error of `UpdateAllFields`, which
  is ignored; the conversions of values, blank ones included.
* Custom metrics: `AddToPodCustomMetricServer` only unpacks the first batch;
  `AddToDeployCustomMetricServer`, with the differences of network counters, is called by nothing.
* Parts without state of their own: device queries, type declarations, generated, vendored and
  deployment files. The C headers under `internal/include` declare the interface of a library that
  is not in the repository, and `callback.c` is one forwarding function: the program is Go, and nearly
  all definitions map to Go. The headers are used only for what they say of groups.

## 6. Plan

Open, in order of what they would add:

1. `Lifecycle`: the scraped batch through main's loop with its indexing panics, composed of the
   outcomes of `Gather` and the start of `Collector`.
2. `Policy` with `Publisher` in the place of its `Publish` step, and with the group of each
   registration from `DcgmGroups`.
3. Overlapping cycles on one `GPUPod`: which of the panics they cause a period can bring about, under
   a bound on the cycles in flight.
4. An abstract publisher that hands each value to a set of subscribers at once, implemented by
   `Publisher` as long as nobody is removed.
5. The network differences of custom metrics, if something comes to call them.
