-------------------------------- MODULE NvLink --------------------------------
(***************************************************************************)
(* The NVLink connections main finds when it starts, as a function of the  *)
(* wiring: for each GPU, in the order of NVML, the remote end of each      *)
(* lane.  A remote end is the index of a GPU, Switch (a device NVML knows  *)
(* by no GPU handle), or Down (NVML answers with an error).                *)
(*                                                                         *)
(* A definition X_Why is a faulty variant of X: it is no part of the       *)
(* specification and serves to show that a property can fail.              *)
(***************************************************************************)
EXTENDS Integers, SequencesExt

CONSTANTS
  NumGPU,        \* GPUs, of index 0 .. NumGPU - 1
  MaxLanes,      \* lanes asked of each GPU
  Switch, Down   \* what else a lane may lead to

ASSUME NvLinkAssumption ==
  /\ NumGPU \in Nat /\ MaxLanes \in Nat
  /\ Switch # Down /\ {Switch, Down} \cap (0 .. NumGPU - 1) = {}

GPU  == 0 .. NumGPU - 1
Lane == 0 .. MaxLanes - 1

\* The remote ends of a GPU's lanes; lane j is the (j + 1)st.
Ends   == [1 .. MaxLanes -> GPU \cup {Switch, Down}]
Wiring == [GPU -> Ends]

-----------------------------------------------------------------------------
\* The loop over the lanes of one GPU: whether it goes on, the lanes counted
\* for each remote end, and the peers found, in order.

laneAs(sofar, j, end, on) ==
  IF ~on
    THEN [sofar EXCEPT !.on = FALSE]
  ELSE IF end \in GPU /\ sofar.lanes[end] > 0
    THEN [sofar EXCEPT !.lanes[end] = @ + 1]
  ELSE IF end \in GPU /\ end > j
    THEN [sofar EXCEPT !.lanes[end] = 1, !.peers = Append(@, end)]
    ELSE sofar

lane_PastDown(sofar, j, end) == laneAs(sofar, j, end, TRUE)

\* A lane that does not answer ends the loop.  A remote end in the map gets one
\* more lane; a new one is entered only if its index is above the lane's.
lane(sofar, j, end) == laneAs(sofar, j, end, sofar.on /\ end # Down)

Lanes(ends) ==
  FoldLeft(LAMBDA sofar, asked : lane(sofar, asked.lane, asked.end),
           [on |-> TRUE, lanes |-> [p \in GPU |-> 0], peers |-> <<>>],
           [k \in 1 .. MaxLanes |-> [lane |-> k - 1, end |-> ends[k]]])

\* One entry for each peer of GPU i.
links(i, found) ==
  [k \in DOMAIN found.peers |->
     [gpu1 |-> i, gpu2 |-> found.peers[k], countLink |-> found.lanes[found.peers[k]]]]

\* The entries of each GPU are appended to those of the ones before.
GetNvlinkInfo(wiring) ==
  FoldLeft(LAMBDA info, more : info \o more, <<>>,
           [i \in 1 .. NumGPU |-> links(i - 1, Lanes(wiring[i - 1]))])

-----------------------------------------------------------------------------
\* The reference, without the loop and its map.

\* The lanes of a GPU that are asked: those before the first that is down.
Answering(ends) == {j \in Lane : \A k \in 0 .. j : ends[k + 1] # Down}

\* The lanes to p from the first on that is numbered below p.
Counted(ends, p) ==
  LET to == {j \in Answering(ends) : ends[j + 1] = p}
  IN  {j \in to : \E k \in to : k <= j /\ k < p}

\* A GPU lists a peer iff one of its lanes to it is numbered below the peer's
\* index, once, with the lanes from the first such lane on: no lane is counted for
\* another peer, none twice, and none after a lane that is down.
Linked(wiring) ==
  LET info == GetNvlinkInfo(wiring)
      of(i, p) == {k \in DOMAIN info : info[k].gpu1 = i /\ info[k].gpu2 = p}
  IN  \A i, p \in GPU :
        LET count == Cardinality(Counted(wiring[i], p))
        IN  IF count = 0
              THEN of(i, p) = {}
              ELSE \E k \in DOMAIN info : of(i, p) = {k} /\ info[k].countLink = count

=============================================================================
