---------------------------- MODULE AlgorithmsProof ----------------------------
(***************************************************************************)
(* What the pure algorithms yield for every input: the loops are folds,    *)
(* and a fold over the first k + 1 cells is one step behind that over the  *)
(* first k.                                                                *)
(***************************************************************************)
EXTENDS Algorithms, FiniteSetTheorems, SequenceTheorems, TLAPS

Largest(S) == Max(S)

-----------------------------------------------------------------------------
\* The lanes of one GPU.

LaneLoop(asked, sofar) == lane(sofar, asked.lane, asked.end)
Walk == INSTANCE FoldTheorems WITH op <- LaneLoop, pick <- Largest

Asked(ends) == [k \in 1 .. MaxLanes |-> [lane |-> k - 1, end |-> ends[k]]]
NoneFound == [on |-> TRUE, lanes |-> [p \in GPU |-> 0], peers |-> <<>>]

\* The counted lanes among the first k.
Below(ends, p, k) == {j \in Counted(ends, p) : j < k}

\* What is found after k lanes.
Found(ends, k, f) ==
  /\ f \in [on : BOOLEAN, lanes : [GPU -> Nat], peers : Seq(GPU)]
  /\ f.on <=> \A j \in 0 .. k - 1 : ends[j + 1] # Down
  /\ \A p \in GPU : f.lanes[p] = Cardinality(Below(ends, p, k))
  /\ \A a, b \in DOMAIN f.peers : f.peers[a] = f.peers[b] => a = b
  /\ \A p \in GPU : f.lanes[p] > 0 <=> \E a \in DOMAIN f.peers : f.peers[a] = p

LEMMA Numbers ==
  /\ NumGPU \in Nat /\ MaxLanes \in Nat /\ MaxInt64 \in Nat /\ MaxInt64 >= 2
  /\ Switch # Down /\ Switch \notin GPU /\ Down \notin GPU
  /\ \A i \in GPU : i \in Nat
  BY NvLinkAssumption, DecodeAssumption DEF NvLinkAssumption, DecodeAssumption, GPU

\* The community module's fold is the one the theorems are about, from the first cell on.
LEMMA LanesIsFold ==
  ASSUME NEW ends
  PROVE  Lanes(ends) = Walk!Fold(NoneFound, Asked(ends), 1 .. MaxLanes)
<1>1. ASSUME NEW base, NEW seq
      PROVE  FoldLeft(LAMBDA sofar, asked : lane(sofar, asked.lane, asked.end), base, seq)
               = Walk!Fold(base, seq, DOMAIN seq)
  BY DEF FoldLeft, MapThenFoldSet, Walk!Fold, Walk!MapThenFoldSet, LaneLoop, Largest
<1>2. DOMAIN Asked(ends) = 1 .. MaxLanes
  BY DEF Asked
<1> QED BY <1>1, <1>2 DEF Lanes, Asked, NoneFound

LEMMA WalkLast == Walk!LargestLast(MaxLanes)
  BY Numbers, Walk!MaxIs DEF Walk!LargestLast, Largest, Max, Walk!Max

\* A lane more.
LEMMA WalkOn ==
  ASSUME NEW ends, NEW k \in 1 .. MaxLanes
  PROVE  Walk!Fold(NoneFound, Asked(ends), 1 .. k)
           = lane(Walk!Fold(NoneFound, Asked(ends), 1 .. k - 1), k - 1, ends[k])
<1>1. Walk!Fold(NoneFound, Asked(ends), 1 .. k)
        = LaneLoop(Asked(ends)[k], Walk!Fold(NoneFound, Asked(ends), 1 .. k - 1))
  BY Numbers, WalkLast, Walk!FoldNext
<1>2. Asked(ends)[k].lane = k - 1 /\ Asked(ends)[k].end = ends[k]
  BY DEF Asked
<1> QED BY <1>1, <1>2 DEF LaneLoop

LEMMA BelowIsFinite ==
  ASSUME NEW ends, NEW p, NEW k
  PROVE  IsFiniteSet(Below(ends, p, k)) /\ Cardinality(Below(ends, p, k)) \in Nat
<1>1. Below(ends, p, k) \in SUBSET Lane
  BY DEF Below, Counted, Answering
<1>2. IsFiniteSet(Lane)
  BY Numbers, FS_Interval DEF Lane
<1> QED BY <1>1, <1>2, FS_Subset, FS_CardinalityType

\* The lane behind k lanes counts once if it is to be counted.
LEMMA OneMoreLane ==
  ASSUME NEW ends, NEW p, NEW k \in Lane
  PROVE  Cardinality(Below(ends, p, k + 1))
           = Cardinality(Below(ends, p, k)) + (IF k \in Counted(ends, p) THEN 1 ELSE 0)
<1>1. Counted(ends, p) \subseteq Nat /\ k \in Nat
  BY Numbers DEF Counted, Answering, Lane
<1>2. k \notin Below(ends, p, k)
  BY <1>1 DEF Below
<1>3. Below(ends, p, k + 1) = Below(ends, p, k) \cup (IF k \in Counted(ends, p) THEN {k} ELSE {})
  BY <1>1 DEF Below
<1>4. CASE k \in Counted(ends, p)
  <2>1. Below(ends, p, k + 1) = Below(ends, p, k) \cup {k}
    BY <1>3, <1>4
  <2> QED BY <1>2, <1>4, <2>1, BelowIsFinite, FS_AddElement
<1>5. CASE k \notin Counted(ends, p)
  <2>1. Below(ends, p, k + 1) = Below(ends, p, k)
    BY <1>3, <1>5
  <2> QED BY <1>5, <2>1, BelowIsFinite
<1> QED BY <1>4, <1>5

\* A lane counts for a peer when it leads there, none before it is down, and either it
\* is numbered below the peer or one before it counts.
LEMMA CountedWhen ==
  ASSUME NEW ends, NEW p \in GPU, NEW k \in Lane
  PROVE  k \in Counted(ends, p) <=>
           /\ \A j \in 0 .. k : ends[j + 1] # Down
           /\ ends[k + 1] = p
           /\ k < p \/ Below(ends, p, k) # {}
<1>0. Lane \subseteq Nat /\ p \in Nat
  BY Numbers DEF Lane
<1> DEFINE to == {j \in Answering(ends) : ends[j + 1] = p}
<1>1. to \subseteq Lane /\ \A j \in to : j < p => j \in Counted(ends, p)
  BY <1>0 DEF Answering, Counted
<1>2. k \in to <=> (\A j \in 0 .. k : ends[j + 1] # Down) /\ ends[k + 1] = p
  BY DEF Answering
<1>3. k \in Counted(ends, p) <=> k \in to /\ \E j \in to : j <= k /\ j < p
  BY DEF Counted
<1>4. (\E j \in to : j <= k /\ j < p) => k < p \/ Below(ends, p, k) # {}
  <2> HIDE DEF to
  <2> SUFFICES ASSUME NEW j \in to, j <= k, j < p PROVE k < p \/ j \in Below(ends, p, k)
    OBVIOUS
  <2>1. j \in Counted(ends, p) /\ j \in Nat /\ k \in Nat
    BY <1>0, <1>1
  <2> QED BY <2>1 DEF Below
<1>5. Below(ends, p, k) # {} => \E j \in to : j <= k /\ j < p
  <2> SUFFICES ASSUME NEW i \in Below(ends, p, k) PROVE \E j \in to : j <= k /\ j < p
    OBVIOUS
  <2>1. i < k /\ i \in to /\ \E j \in to : j <= i /\ j < p
    BY DEF Below, Counted
  <2> HIDE DEF to
  <2>2. PICK j \in to : j <= i /\ j < p
    BY <2>1
  <2>3. i \in Nat /\ j \in Nat /\ k \in Nat
    BY <1>0, <1>1, <2>1
  <2> QED BY <2>1, <2>2, <2>3
<1> HIDE DEF to
<1>6. k \in to /\ k < p => \E j \in to : j <= k /\ j < p
  BY <1>0
<1> QED BY <1>2, <1>3, <1>4, <1>5, <1>6

LEMMA LaneFinds ==
  ASSUME NEW ends \in Ends, NEW k \in Lane, NEW f, Found(ends, k, f)
  PROVE  Found(ends, k + 1, lane(f, k, ends[k + 1]))
<1> SUFFICES ASSUME NEW end, end = ends[k + 1] PROVE Found(ends, k + 1, lane(f, k, end))
  OBVIOUS
<1> DEFINE g == lane(f, k, end)
<1> SUFFICES Found(ends, k + 1, g)
  OBVIOUS
<1>0. /\ k \in Nat /\ k + 1 \in 1 .. MaxLanes /\ end \in GPU \cup {Switch, Down}
      /\ f \in [on : BOOLEAN, lanes : [GPU -> Nat], peers : Seq(GPU)]
      /\ GPU \subseteq Nat
  <2>1. k \in Nat /\ k + 1 \in 1 .. MaxLanes
    BY Numbers DEF Lane
  <2>2. end \in GPU \cup {Switch, Down}
    BY <2>1 DEF Ends
  <2>3. f \in [on : BOOLEAN, lanes : [GPU -> Nat], peers : Seq(GPU)]
    BY DEF Found
  <2> QED BY <2>1, <2>2, <2>3, Numbers
<1>1. (\A j \in 0 .. k : ends[j + 1] # Down) <=> f.on /\ end # Down
  <2>1. 0 .. k = (0 .. k - 1) \cup {k}
    BY <1>0
  <2> QED BY <2>1 DEF Found
<1>2. (k + 1) - 1 = k
  BY <1>0
<1>3. ASSUME NEW p \in GPU
      PROVE  /\ Cardinality(Below(ends, p, k + 1))
                  = f.lanes[p] + (IF k \in Counted(ends, p) THEN 1 ELSE 0)
             /\ f.lanes[p] \in Nat
             /\ k \in Counted(ends, p) <=> f.on /\ end = p /\ (k < p \/ f.lanes[p] > 0)
  <2>1. f.lanes[p] = Cardinality(Below(ends, p, k)) /\ f.lanes[p] \in Nat
    BY <1>0 DEF Found
  <2>2. Below(ends, p, k) # {} <=> f.lanes[p] > 0
    BY <2>1, BelowIsFinite, FS_EmptySet
  <2>3. end = p => end # Down
    BY Numbers
  <2> QED BY <1>1, <2>1, <2>2, <2>3, OneMoreLane, CountedWhen
<1>4. /\ \A a, b \in DOMAIN f.peers : f.peers[a] = f.peers[b] => a = b
      /\ \A p \in GPU : f.lanes[p] > 0 <=> \E a \in DOMAIN f.peers : f.peers[a] = p
  BY DEF Found
<1>5. ASSUME NEW h \in [on : BOOLEAN, lanes : [GPU -> Nat], peers : Seq(GPU)],
             h.on <=> f.on /\ end # Down,
             \A p \in GPU : h.lanes[p] = Cardinality(Below(ends, p, k + 1)),
             \A a, b \in DOMAIN h.peers : h.peers[a] = h.peers[b] => a = b,
             \A p \in GPU : h.lanes[p] > 0 <=> \E a \in DOMAIN h.peers : h.peers[a] = p
      PROVE  Found(ends, k + 1, h)
  <2>1. h.on <=> \A j \in 0 .. (k + 1) - 1 : ends[j + 1] # Down
    BY <1>1, <1>2, <1>5
  <2> QED BY <1>5, <2>1, Zenon DEF Found
<1>6. CASE ~(f.on /\ end # Down)
  <2>1. g = [f EXCEPT !.on = FALSE]
    BY <1>6 DEF lane, laneAs
  <2>2. /\ g \in [on : BOOLEAN, lanes : [GPU -> Nat], peers : Seq(GPU)]
        /\ g.on = FALSE /\ g.lanes = f.lanes /\ g.peers = f.peers
    BY <1>0, <2>1
  <2>3. \A p \in GPU : ~(f.on /\ end = p)
    BY <1>6, Numbers
  <2>4. \A p \in GPU : g.lanes[p] = Cardinality(Below(ends, p, k + 1))
    BY <1>3, <2>2, <2>3
  <2> HIDE DEF g
  <2>5. g.on <=> f.on /\ end # Down
    BY <1>6, <2>2
  <2>6. /\ \A a, b \in DOMAIN g.peers : g.peers[a] = g.peers[b] => a = b
        /\ \A p \in GPU : g.lanes[p] > 0 <=> \E a \in DOMAIN g.peers : g.peers[a] = p
    BY <1>4, <2>2, Zenon
  <2> QED BY <1>5, <2>2, <2>4, <2>5, <2>6
<1>7. CASE f.on /\ end # Down
  <2>1. CASE end \in GPU /\ f.lanes[end] > 0
    <3>1. g = [f EXCEPT !.lanes[end] = f.lanes[end] + 1]
      BY <1>7, <2>1 DEF lane, laneAs
    <3>2. /\ g \in [on : BOOLEAN, lanes : [GPU -> Nat], peers : Seq(GPU)]
          /\ g.on = f.on /\ g.peers = f.peers
          /\ \A p \in GPU : g.lanes[p] = IF p = end THEN f.lanes[p] + 1 ELSE f.lanes[p]
      <4> DEFINE h == [f.lanes EXCEPT ![end] = f.lanes[end] + 1]
      <4>1. h \in [GPU -> Nat] /\ \A p \in GPU : h[p] = IF p = end THEN f.lanes[p] + 1 ELSE f.lanes[p]
        BY <1>0, <2>1
      <4>2. g = [f EXCEPT !.lanes = h]
        BY <3>1
      <4> HIDE DEF h, g
      <4> QED BY <1>0, <4>1, <4>2
    <3> HIDE DEF g
    <3>3. \A p \in GPU : g.lanes[p] = Cardinality(Below(ends, p, k + 1))
      BY <1>3, <1>7, <2>1, <3>2
    <3>4. \A p \in GPU : g.lanes[p] > 0 <=> f.lanes[p] > 0
      <4> TAKE p \in GPU
      <4>1. f.lanes[p] \in Nat
        BY <1>3
      <4>2. g.lanes[p] = IF p = end THEN f.lanes[p] + 1 ELSE f.lanes[p]
        BY <3>2
      <4>3. p = end => f.lanes[p] > 0
        BY <2>1
      <4> QED BY <4>1, <4>2, <4>3
    <3>5. /\ \A a, b \in DOMAIN g.peers : g.peers[a] = g.peers[b] => a = b
          /\ \A p \in GPU : g.lanes[p] > 0 <=> \E a \in DOMAIN g.peers : g.peers[a] = p
      <4>1. g.peers = f.peers
        BY <3>2
      <4> QED BY <1>4, <3>4, <4>1
    <3>6. g.on <=> f.on /\ end # Down
      BY <1>7, <3>2
    <3> QED BY <1>5, <3>2, <3>3, <3>5, <3>6
  <2>2. CASE end \in GPU /\ ~(f.lanes[end] > 0) /\ end > k
    <3>1. g = [f EXCEPT !.lanes[end] = 1, !.peers = Append(f.peers, end)]
      BY <1>7, <2>2 DEF lane, laneAs
    <3>2. f.lanes[end] = 0
      BY <1>3, <2>2
    <3>3. /\ g \in [on : BOOLEAN, lanes : [GPU -> Nat], peers : Seq(GPU)]
          /\ g.on = f.on /\ g.peers = Append(f.peers, end)
          /\ \A p \in GPU : g.lanes[p] = IF p = end THEN 1 ELSE f.lanes[p]
      <4> DEFINE h == [f.lanes EXCEPT ![end] = 1]
                 e == Append(f.peers, end)
      <4>1. h \in [GPU -> Nat] /\ \A p \in GPU : h[p] = IF p = end THEN 1 ELSE f.lanes[p]
        BY <1>0, <2>2
      <4>2. g = [f EXCEPT !.lanes = h, !.peers = e] /\ e \in Seq(GPU)
        BY <1>0, <2>2, <3>1
      <4> HIDE DEF h, g
      <4> QED BY <1>0, <4>1, <4>2
    <3> HIDE DEF g
    <3>4. \A p \in GPU : g.lanes[p] = Cardinality(Below(ends, p, k + 1))
      BY <1>0, <1>3, <1>7, <2>2, <3>2, <3>3
    <3>5. /\ f.peers \in Seq(GPU) /\ DOMAIN f.peers = 1 .. Len(f.peers) /\ Len(f.peers) \in Nat
          /\ DOMAIN g.peers = 1 .. Len(f.peers) + 1
          /\ Len(f.peers) + 1 \in DOMAIN g.peers /\ g.peers[Len(f.peers) + 1] = end
          /\ \A a \in DOMAIN f.peers : a \in DOMAIN g.peers /\ g.peers[a] = f.peers[a]
      BY <1>0, <2>2, <3>3
    <3>6. \A a \in DOMAIN g.peers : a \in DOMAIN f.peers \/ a = Len(f.peers) + 1
      BY <3>5
    <3>7. \A a \in DOMAIN f.peers : f.peers[a] # end
      BY <1>4, <2>2
    <3>8. \A a, b \in DOMAIN g.peers : g.peers[a] = g.peers[b] => a = b
      BY <1>4, <3>5, <3>6, <3>7
    <3>9. \A p \in GPU : g.lanes[p] > 0 <=> \E a \in DOMAIN g.peers : g.peers[a] = p
      <4> TAKE p \in GPU
      <4>1. CASE p = end
        <5>1. g.lanes[p] > 0
          <6>1. g.lanes[p] = 1
            BY <3>3, <4>1
          <6> QED BY <6>1
        <5>2. \E a \in DOMAIN g.peers : g.peers[a] = p
          BY <3>5, <4>1, Zenon
        <5> QED BY <5>1, <5>2
      <4>2. CASE p # end
        <5>1. (\E a \in DOMAIN g.peers : g.peers[a] = p) <=> \E a \in DOMAIN f.peers : f.peers[a] = p
          BY <3>5, <3>6, <4>2, Zenon
        <5>2. g.lanes[p] = f.lanes[p]
          BY <3>3, <4>2
        <5> QED BY <1>4, <5>1, <5>2, Zenon
      <4> QED BY <4>1, <4>2
    <3>10. g.on <=> f.on /\ end # Down
      BY <1>7, <3>3
    <3> QED BY <1>5, <3>3, <3>4, <3>8, <3>9, <3>10
  <2>3. CASE ~(end \in GPU /\ f.lanes[end] > 0) /\ ~(end \in GPU /\ end > k)
    <3>1. g = f
      BY <1>7, <2>3, Zenon DEF lane, laneAs
    <3> HIDE DEF g
    <3>2. \A p \in GPU : k \notin Counted(ends, p)
      BY <1>0, <1>3, <2>3
    <3>3. \A p \in GPU : f.lanes[p] = Cardinality(Below(ends, p, k + 1))
      BY <1>3, <3>2
    <3>4. Found(ends, k + 1, f)
      BY <1>0, <1>4, <1>5, <1>7, <3>3
    <3> QED BY <3>1, <3>4
  <2> QED BY <2>1, <2>2, <2>3
<1> QED BY <1>6, <1>7

\* For each GPU: as many lanes as are to be counted, each peer once.
LEMMA LanesFound ==
  ASSUME NEW ends \in Ends
  PROVE  Found(ends, MaxLanes, Lanes(ends))
<1> DEFINE F(k) == Walk!Fold(NoneFound, Asked(ends), 1 .. k)
           P == {k \in Nat : k <= MaxLanes => Found(ends, k, F(k))}
<1>1. 0 \in P
  <2>1. F(0) = NoneFound
    <3>1. 1 .. 0 = {}
      OBVIOUS
    <3> QED BY <3>1, Walk!FoldEmpty
  <2>2. \A p \in GPU : Below(ends, p, 0) = {}
    BY DEF Below, Counted, Answering, Lane
  <2>3. Found(ends, 0, NoneFound)
    <3>1. <<>> \in Seq(GPU) /\ DOMAIN <<>> = {}
      OBVIOUS
    <3>2. NoneFound \in [on : BOOLEAN, lanes : [GPU -> Nat], peers : Seq(GPU)]
      BY <3>1 DEF NoneFound
    <3>3. \A p \in GPU : NoneFound.lanes[p] = 0 /\ Cardinality(Below(ends, p, 0)) = 0
      BY <2>2, FS_EmptySet DEF NoneFound
    <3> QED BY <3>1, <3>2, <3>3 DEF Found, NoneFound
  <2> QED BY <2>1, <2>3
<1>2. \A k \in Nat : k \in P => k + 1 \in P
  <2> SUFFICES ASSUME NEW k \in Nat, Found(ends, k, F(k)), k + 1 <= MaxLanes
               PROVE  Found(ends, k + 1, F(k + 1))
    BY Numbers
  <2>1. k \in Lane /\ k + 1 \in 1 .. MaxLanes /\ k + 1 - 1 = k
    BY Numbers DEF Lane
  <2>2. F(k + 1) = lane(F(k), k, ends[k + 1])
    BY <2>1, WalkOn
  <2> HIDE DEF F
  <2> QED BY <2>1, <2>2, LaneFinds
<1>3. MaxLanes \in P
  <2> HIDE DEF P
  <2> QED BY <1>1, <1>2, Numbers, Walk!Induction
<1> QED BY <1>3, Numbers, LanesIsFold

-----------------------------------------------------------------------------
\* The entries of the GPUs, one after the other.

Behind(more, info) == info \o more
Join == INSTANCE FoldTheorems WITH op <- Behind, pick <- Largest

EachLinks(wiring) == [i \in 1 .. NumGPU |-> links(i - 1, Lanes(wiring[i - 1]))]

Entry == [gpu1 : GPU, gpu2 : GPU, countLink : Nat]

Of(info, i, p) == {k \in DOMAIN info : info[k].gpu1 = i /\ info[k].gpu2 = p}

\* What Linked says of a GPU and a peer.
Lists(wiring, i, p, info) ==
  LET count == Cardinality(Counted(wiring[i], p))
  IN  IF count = 0
        THEN Of(info, i, p) = {}
        ELSE \E k \in DOMAIN info : Of(info, i, p) = {k} /\ info[k].countLink = count

\* After n GPUs it holds of each of them.
Joined(wiring, n, info) ==
  /\ info \in Seq(Entry)
  /\ \A k \in DOMAIN info : info[k].gpu1 < n
  /\ \A i, p \in GPU : i < n => Lists(wiring, i, p, info)

LEMMA InfoIsFold ==
  ASSUME NEW wiring
  PROVE  GetNvlinkInfo(wiring) = Join!Fold(<<>>, EachLinks(wiring), 1 .. NumGPU)
<1>1. ASSUME NEW base, NEW seq
      PROVE  FoldLeft(LAMBDA info, more : info \o more, base, seq)
               = Join!Fold(base, seq, DOMAIN seq)
  BY DEF FoldLeft, MapThenFoldSet, Join!Fold, Join!MapThenFoldSet, Behind, Largest
<1>2. DOMAIN EachLinks(wiring) = 1 .. NumGPU
  BY DEF EachLinks
<1> QED BY <1>1, <1>2 DEF GetNvlinkInfo, EachLinks

LEMMA JoinLast == Join!LargestLast(NumGPU)
  BY Numbers, Join!MaxIs DEF Join!LargestLast, Largest, Max, Join!Max

\* A GPU more.
LEMMA JoinOn ==
  ASSUME NEW wiring, NEW n \in 1 .. NumGPU
  PROVE  Join!Fold(<<>>, EachLinks(wiring), 1 .. n)
           = Join!Fold(<<>>, EachLinks(wiring), 1 .. n - 1) \o links(n - 1, Lanes(wiring[n - 1]))
<1>1. Join!Fold(<<>>, EachLinks(wiring), 1 .. n)
        = Behind(EachLinks(wiring)[n], Join!Fold(<<>>, EachLinks(wiring), 1 .. n - 1))
  BY Numbers, JoinLast, Join!FoldNext
<1>2. EachLinks(wiring)[n] = links(n - 1, Lanes(wiring[n - 1]))
  BY DEF EachLinks
<1> QED BY <1>1, <1>2 DEF Behind

\* The entries of one GPU.
LEMMA LinksOf ==
  ASSUME NEW wiring \in Wiring, NEW n \in GPU
  PROVE  LET more == links(n, Lanes(wiring[n]))
         IN  /\ more \in Seq(Entry)
             /\ \A k \in DOMAIN more : more[k].gpu1 = n
             /\ \A p \in GPU : Lists(wiring, n, p, more)
<1> DEFINE f == Lanes(wiring[n])
           more == links(n, f)
<1>1. wiring[n] \in Ends
  BY DEF Wiring
<1>2. Found(wiring[n], MaxLanes, f)
  BY <1>1, LanesFound
<1> HIDE DEF f
<1>3. /\ f \in [on : BOOLEAN, lanes : [GPU -> Nat], peers : Seq(GPU)]
      /\ \A a, b \in DOMAIN f.peers : f.peers[a] = f.peers[b] => a = b
      /\ \A p \in GPU : f.lanes[p] > 0 <=> \E a \in DOMAIN f.peers : f.peers[a] = p
      /\ \A p \in GPU : f.lanes[p] = Cardinality(Below(wiring[n], p, MaxLanes))
  BY <1>2 DEF Found
<1>4. /\ f.lanes \in [GPU -> Nat] /\ f.peers \in Seq(GPU)
      /\ Len(f.peers) \in Nat /\ DOMAIN f.peers = 1 .. Len(f.peers)
      /\ \A a \in DOMAIN f.peers : f.peers[a] \in GPU
  BY <1>3
<1>5. \A p \in GPU : f.lanes[p] = Cardinality(Counted(wiring[n], p))
  <2> TAKE p \in GPU
  <2>1. \A j \in Counted(wiring[n], p) : j < MaxLanes
    BY Numbers DEF Counted, Answering, Lane
  <2>2. Below(wiring[n], p, MaxLanes) = Counted(wiring[n], p)
    BY <2>1 DEF Below
  <2> QED BY <1>3, <2>2
<1>6. /\ DOMAIN more = DOMAIN f.peers
      /\ \A a \in DOMAIN more : /\ more[a].gpu1 = n /\ more[a].gpu2 = f.peers[a]
                                /\ more[a].countLink = f.lanes[f.peers[a]]
                                /\ more[a] \in Entry
  BY <1>4 DEF links, Entry
<1>7. more \in Seq(Entry)
  <2>1. more = [a \in 1 .. Len(f.peers) |-> more[a]]
    BY <1>4 DEF links
  <2>2. DOMAIN more = 1 .. Len(f.peers) /\ \A a \in 1 .. Len(f.peers) : more[a] \in Entry
    BY <1>4, <1>6
  <2> HIDE DEF more
  <2>3. more \in [1 .. Len(f.peers) -> Entry]
    BY <2>1, <2>2
  <2> QED BY <1>4, <2>3
<1> HIDE DEF more
<1>8. ASSUME NEW p \in GPU PROVE Lists(wiring, n, p, more)
  <2>1. f.lanes[p] = Cardinality(Counted(wiring[n], p)) /\ f.lanes[p] \in Nat
    BY <1>4, <1>5
  <2>2. CASE f.lanes[p] = 0
    <3>1. \A a \in DOMAIN f.peers : f.peers[a] # p
      BY <1>3, <2>2
    <3>2. Of(more, n, p) = {}
      BY <1>6, <3>1 DEF Of
    <3> QED BY <2>1, <2>2, <3>2 DEF Lists
  <2>3. CASE f.lanes[p] # 0
    <3>1. f.lanes[p] > 0
      BY <2>1, <2>3
    <3>2. PICK a \in DOMAIN f.peers : f.peers[a] = p
      BY <1>3, <3>1
    <3>3. \A b \in DOMAIN f.peers : f.peers[b] = p => b = a
      BY <1>3, <3>2
    <3>4. Of(more, n, p) = {a}
      BY <1>6, <3>2, <3>3 DEF Of
    <3>5. a \in DOMAIN more /\ more[a].countLink = f.lanes[p]
      BY <1>6, <3>2
    <3> QED BY <2>1, <2>3, <3>4, <3>5 DEF Lists
  <2> QED BY <2>2, <2>3
<1> QED BY <1>6, <1>7, <1>8 DEF more, f

LEMMA JoinStep ==
  ASSUME NEW wiring \in Wiring, NEW n \in GPU, NEW info, Joined(wiring, n, info)
  PROVE  Joined(wiring, n + 1, info \o links(n, Lanes(wiring[n])))
<1> SUFFICES ASSUME NEW more, more \in Seq(Entry), \A k \in DOMAIN more : more[k].gpu1 = n,
                    \A p \in GPU : Lists(wiring, n, p, more)
             PROVE  Joined(wiring, n + 1, info \o more)
  BY LinksOf
<1> DEFINE all == info \o more
<1>0. n \in Nat /\ GPU \subseteq Nat
  BY Numbers
<1>1. /\ info \in Seq(Entry) /\ Len(info) \in Nat /\ Len(more) \in Nat
      /\ DOMAIN info = 1 .. Len(info) /\ DOMAIN more = 1 .. Len(more)
      /\ \A k \in DOMAIN info : info[k].gpu1 \in Nat /\ info[k].gpu1 < n
  <2>1. info \in Seq(Entry) /\ \A k \in DOMAIN info : info[k].gpu1 < n
    BY DEF Joined
  <2>2. \A k \in DOMAIN info : info[k] \in Entry
    BY <2>1
  <2>3. \A e \in Entry : e.gpu1 \in Nat
    BY <1>0 DEF Entry
  <2> QED BY <2>1, <2>2, <2>3
<1>2. /\ all \in Seq(Entry)
      /\ DOMAIN all = 1 .. Len(info) + Len(more)
      /\ \A k \in DOMAIN info : all[k] = info[k]
      /\ \A k \in DOMAIN more : all[Len(info) + k] = more[k]
  BY <1>1
<1> HIDE DEF all
<1>3. /\ \A k \in DOMAIN info : k \in DOMAIN all
      /\ \A k \in DOMAIN more : Len(info) + k \in DOMAIN all
      /\ \A k \in DOMAIN all : k \in DOMAIN info \/ k - Len(info) \in DOMAIN more
  BY <1>1, <1>2
<1>4. \A k \in DOMAIN all :
        \/ k \in DOMAIN info /\ all[k] = info[k]
        \/ k - Len(info) \in DOMAIN more /\ all[k] = more[k - Len(info)]
  <2> TAKE k \in DOMAIN all
  <2>1. CASE k \in DOMAIN info
    BY <1>2, <2>1
  <2>2. CASE k - Len(info) \in DOMAIN more
    <3>1. Len(info) + (k - Len(info)) = k
      BY <1>1, <1>2
    <3> QED BY <1>2, <2>2, <3>1
  <2> QED BY <1>3, <2>1, <2>2
<1>5. \A k \in DOMAIN all : all[k].gpu1 < n + 1
  <2> TAKE k \in DOMAIN all
  <2>1. all[k].gpu1 \in Nat /\ (all[k].gpu1 < n \/ all[k].gpu1 = n)
    BY <1>0, <1>1, <1>4
  <2> QED BY <1>0, <2>1
<1>6. ASSUME NEW i \in GPU, NEW p \in GPU, i < n
      PROVE  Lists(wiring, i, p, all)
  <2>0. \A k \in DOMAIN more : more[k].gpu1 # i
    BY <1>0, <1>6
  <2>1. Of(all, i, p) = Of(info, i, p)
    BY <1>2, <1>3, <1>4, <2>0 DEF Of
  <2>2. Lists(wiring, i, p, info)
    BY <1>6 DEF Joined
  <2> QED BY <1>2, <1>3, <2>1, <2>2 DEF Lists
<1>7. ASSUME NEW p \in GPU PROVE Lists(wiring, n, p, all)
  <2>0. \A k \in DOMAIN info : info[k].gpu1 # n
    BY <1>0, <1>1
  <2>1. CASE Cardinality(Counted(wiring[n], p)) = 0
    <3>1. Of(more, n, p) = {}
      BY <2>1 DEF Lists
    <3>2. Of(all, n, p) = {}
      BY <1>4, <2>0, <3>1 DEF Of
    <3> QED BY <2>1, <3>2 DEF Lists
  <2>2. CASE Cardinality(Counted(wiring[n], p)) # 0
    <3>1. PICK a \in DOMAIN more : /\ Of(more, n, p) = {a}
                                   /\ more[a].countLink = Cardinality(Counted(wiring[n], p))
      BY <2>2 DEF Lists
    <3>2. Len(info) + a \in DOMAIN all /\ all[Len(info) + a] = more[a]
      BY <1>2, <1>3
    <3>3. more[a].gpu1 = n /\ more[a].gpu2 = p
      BY <3>1 DEF Of
    <3>4. \A k \in DOMAIN all : all[k].gpu1 = n /\ all[k].gpu2 = p => k = Len(info) + a
      <4> SUFFICES ASSUME NEW k \in DOMAIN all, all[k].gpu1 = n, all[k].gpu2 = p
                   PROVE  k = Len(info) + a
        OBVIOUS
      <4>1. k - Len(info) \in DOMAIN more /\ all[k] = more[k - Len(info)]
        BY <1>4, <2>0
      <4>2. k - Len(info) = a
        BY <3>1, <4>1 DEF Of
      <4> QED BY <1>1, <1>2, <4>2
    <3>5. Of(all, n, p) = {Len(info) + a}
      BY <3>2, <3>3, <3>4 DEF Of
    <3> QED BY <2>2, <3>1, <3>2, <3>5 DEF Lists
  <2> QED BY <2>1, <2>2
<1>8. \A i \in GPU : i < n + 1 => i < n \/ i = n
  BY <1>0
<1> QED BY <1>2, <1>5, <1>6, <1>7, <1>8 DEF Joined, all

LEMMA AllLinked ==
  ASSUME NEW wiring \in Wiring
  PROVE  Linked(wiring)
<1> DEFINE F(n) == Join!Fold(<<>>, EachLinks(wiring), 1 .. n)
           P == {n \in Nat : n <= NumGPU => Joined(wiring, n, F(n))}
<1>1. 0 \in P
  <2>1. F(0) = <<>>
    <3>1. 1 .. 0 = {}
      OBVIOUS
    <3> QED BY <3>1, Join!FoldEmpty
  <2>2. <<>> \in Seq(Entry) /\ DOMAIN <<>> = {}
    OBVIOUS
  <2>3. \A i \in GPU : ~(i < 0)
    BY Numbers
  <2>4. Joined(wiring, 0, <<>>)
    BY <2>2, <2>3 DEF Joined
  <2> HIDE DEF F
  <2> QED BY <2>1, <2>4
<1>2. \A n \in Nat : n \in P => n + 1 \in P
  <2> SUFFICES ASSUME NEW n \in Nat, Joined(wiring, n, F(n)), n + 1 <= NumGPU
               PROVE  Joined(wiring, n + 1, F(n + 1))
    BY Numbers
  <2>1. n \in GPU /\ n + 1 \in 1 .. NumGPU /\ (n + 1) - 1 = n
    BY Numbers DEF GPU
  <2>2. F(n + 1) = F(n) \o links(n, Lanes(wiring[n]))
    BY <2>1, JoinOn
  <2> HIDE DEF F
  <2> QED BY <2>1, <2>2, JoinStep
<1>3. NumGPU \in P
  <2> HIDE DEF P
  <2> QED BY <1>1, <1>2, Numbers, Join!Induction
<1>4. Joined(wiring, NumGPU, GetNvlinkInfo(wiring))
  BY <1>3, Numbers, InfoIsFold
<1>5. \A i \in GPU : i < NumGPU
  BY Numbers DEF GPU
<1>6. \A i, p \in GPU : Lists(wiring, i, p, GetNvlinkInfo(wiring))
  BY <1>4, <1>5 DEF Joined
<1> QED BY <1>6 DEF Linked, Lists, Of

-----------------------------------------------------------------------------
\* One stats record.

LEMMA SummaryType ==
  ASSUME NEW s \in Record
  PROVE  /\ s.val \in 0 .. 2 * MaxInt64 + 1
         /\ s.cpu \in CPUShapes /\ s.memory \in MemoryShapes /\ s.fs \in FsShapes
         /\ \A r \in {"cpu", "memory", "network", "fs"} : s.time[r] \in Nat
  BY DEF Record

OfPods(s, sofar) == decodeNext(sofar, s)
Pods == INSTANCE FoldTheorems WITH op <- OfPods, pick <- Largest

Quantity == [int : 0 .. MaxInt64, scale : {0, 1}]

\* A reading that is there is a quantity close to its value.
LEMMA QuantityOf ==
  ASSUME NEW val \in 0 .. 2 * MaxInt64 + 1
  PROVE  uint64Quantity(val) # Absent /\ Close(uint64Quantity(val), val)
<1>0. MaxInt64 \in Nat /\ MaxInt64 >= 2 /\ val \in Nat /\ Absent \notin Quantity
  BY DecodeAssumption DEF DecodeAssumption, Quantity
<1>1. CASE val <= MaxInt64
  <2>1. uint64Quantity(val) = [int |-> val, scale |-> 0]
    BY <1>1 DEF uint64Quantity
  <2>2. val - val = 0 /\ val \in 0 .. MaxInt64
    BY <1>0, <1>1
  <2>3. uint64Quantity(val) \in Quantity
    BY <2>1, <2>2 DEF Quantity
  <2> QED BY <1>0, <1>1, <2>1, <2>2, <2>3 DEF Close
<1>2. CASE ~(val <= MaxInt64)
  <2>0. /\ val \div 10 \in Nat
        /\ val - 10 * (val \div 10) \in 0 .. 9
    BY <1>0
  <2>1. val \div 10 \in 0 .. MaxInt64
    BY <1>0, <2>0
  <2>2. uint64Quantity(val) = [int |-> val \div 10, scale |-> 1]
    BY <1>2 DEF uint64Quantity
  <2>3. uint64Quantity(val) \in Quantity
    BY <2>1, <2>2 DEF Quantity
  <2>4. uint64Quantity(val).int = val \div 10 /\ uint64Quantity(val).scale = 1
    BY <2>2
  <2> HIDE DEF Quantity
  <2> QED BY <1>0, <1>2, <2>0, <2>1, <2>3, <2>4 DEF Close
<1> QED BY <1>1, <1>2

\* The time is the earliest there is.
LEMMA TimeOf ==
  ASSUME NEW s \in Record, NEW R, R \subseteq {"cpu", "memory", "network", "fs"}
  PROVE  LET time == getScrapeTime({s.time[r] : r \in R})
         IN  /\ time \in Nat
             /\ time > 0 <=> \E r \in R : s.time[r] > 0
             /\ time > 0 => \E r \in R : time = s.time[r]
             /\ \A r \in R : s.time[r] > 0 => time <= s.time[r]
<1> DEFINE times == {s.time[r] : r \in R}
           T == times \ {0}
           time == getScrapeTime(times)
<1>1. \A r \in R : s.time[r] \in Nat /\ s.time[r] \in times
  BY SummaryType
<1>2. T \subseteq Nat /\ (\A t \in T : t > 0 /\ \E r \in R : t = s.time[r])
  BY <1>1
<1>3. \A r \in R : s.time[r] > 0 => s.time[r] \in T
  BY <1>1
<1>4. CASE T = {}
  <2>1. time = 0
    BY <1>4 DEF getScrapeTime
  <2>2. \A r \in R : ~(s.time[r] > 0)
    BY <1>3, <1>4
  <2> HIDE DEF time
  <2>3. time \in Nat /\ ~(time > 0)
    BY <2>1
  <2> QED BY <2>2, <2>3 DEF time
<1>5. CASE T # {}
  <2>1. time = Min(T)
    BY <1>5 DEF getScrapeTime
  <2> HIDE DEF T, time
  <2>2. \E m \in T : \A k \in T : m <= k
    BY <1>2, <1>5, Pods!Least
  <2>3. time \in T /\ \A k \in T : time <= k
    BY <2>1, <2>2 DEF Min
  <2>4. time \in Nat /\ time > 0 /\ \E r \in R : time = s.time[r]
    BY <1>2, <2>3
  <2>5. \A r \in R : s.time[r] > 0 => time <= s.time[r]
    BY <1>3, <2>3
  <2> QED BY <2>4, <2>5 DEF time
<1> QED BY <1>4, <1>5

\* Every reading is there and there is a time.
Readable(s, time) ==
  time > 0 /\ s.cpu = "whole" /\ s.memory = "whole" /\ s.fs \in {"noUsed", "whole"}

\* A record has no error exactly when it is readable; then its point is its own.
LEMMA StatsOf ==
  ASSUME NEW s \in Record, NEW time \in Nat, NEW target
  PROVE  LET d == decodeStats(s, time, target)
         IN  /\ d.errs \in Nat
             /\ d.errs = 0 <=> Readable(s, time)
             /\ Readable(s, time) =>
                  /\ d.point.name = s.name /\ d.point.time = time
                  /\ \A r \in {"cpu", "memory", "fs"} :
                       d.point[r] # Absent /\ Close(d.point[r], s.val)
<1> DEFINE d == decodeStats(s, time, target)
           point == [name |-> s.name, time |-> time,
                     cpu |-> decodeCPU(s), memory |-> decodeMemory(s), fs |-> decodeFs(s)]
           missing == {r \in {"cpu", "memory", "fs"} : point[r] = Absent}
<1>1. CASE time = 0
  <2>1. d.errs = 1
    BY <1>1 DEF decodeStats
  <2>2. ~Readable(s, time)
    BY <1>1 DEF Readable
  <2> HIDE DEF d
  <2> QED BY <2>1, <2>2 DEF d
<1>2. CASE time # 0
  <2>1. d.point = point /\ d.errs = Cardinality(missing)
    BY <1>2 DEF decodeStats
  <2>2. uint64Quantity(s.val) # Absent /\ Close(uint64Quantity(s.val), s.val)
    BY SummaryType, QuantityOf
  <2>3. /\ point["cpu"] = decodeCPU(s) /\ point["memory"] = decodeMemory(s)
        /\ point["fs"] = decodeFs(s) /\ point.name = s.name /\ point.time = time
    OBVIOUS
  <2>4. /\ decodeCPU(s) = IF s.cpu = "whole" THEN uint64Quantity(s.val) ELSE Absent
        /\ decodeMemory(s) = IF s.memory = "whole" THEN uint64Quantity(s.val) ELSE Absent
        /\ decodeFs(s) = IF s.fs \in {"noUsed", "whole"} THEN uint64Quantity(s.val) ELSE Absent
    BY DEF decodeCPU, decodeMemory, decodeFs
  <2> HIDE DEF d, point
  <2>5. IsFiniteSet(missing) /\ Cardinality(missing) \in Nat
    <3>1. IsFiniteSet({"cpu", "memory", "fs"})
      <4>1. IsFiniteSet({"cpu"})
        BY FS_Singleton
      <4>2. IsFiniteSet({"cpu"} \cup {"memory"})
        BY <4>1, FS_AddElement
      <4>3. IsFiniteSet(({"cpu"} \cup {"memory"}) \cup {"fs"})
        BY <4>2, FS_AddElement
      <4>4. {"cpu", "memory", "fs"} = ({"cpu"} \cup {"memory"}) \cup {"fs"}
        OBVIOUS
      <4> QED BY <4>3, <4>4
    <3>2. missing \subseteq {"cpu", "memory", "fs"}
      OBVIOUS
    <3> QED BY <3>1, <3>2, FS_Subset, FS_CardinalityType
  <2>6. Cardinality(missing) = 0 <=> missing = {}
    BY <2>5, FS_EmptySet
  <2>7. missing = {} <=> Readable(s, time)
    <3>1. missing = {} <=> /\ point["cpu"] # Absent /\ point["memory"] # Absent
                           /\ point["fs"] # Absent
      BY Zenon
    <3>2. time > 0
      BY <1>2
    <3> QED BY <2>2, <2>3, <2>4, <3>1, <3>2 DEF Readable
  <2>8. ASSUME Readable(s, time), NEW r \in {"cpu", "memory", "fs"}
        PROVE  point[r] # Absent /\ Close(point[r], s.val)
    <3>1. decodeCPU(s) = uint64Quantity(s.val) /\ decodeMemory(s) = uint64Quantity(s.val)
          /\ decodeFs(s) = uint64Quantity(s.val)
      BY <2>4, <2>8 DEF Readable
    <3>2. point[r] = uint64Quantity(s.val)
      BY <2>3, <2>8, <3>1
    <3> QED BY <2>2, <3>2
  <2> QED BY <2>1, <2>3, <2>5, <2>6, <2>7, <2>8 DEF d
<1> QED BY <1>1, <1>2

\* A pod has no error exactly when it is whole; then its point is its own.
LEMMA PodOf ==
  ASSUME NEW s \in Record, NEW target
  PROVE  LET d == decodePodStats(s, target)
         IN  /\ d.errs \in Nat
             /\ d.errs = 0 <=> WholePod(s)
             /\ WholePod(s) => PointOf(d.point, s)
<1> DEFINE R == {"cpu", "memory"}
           time == getScrapeTimePod(s)
           d == decodePodStats(s, target)
<1>1. /\ time \in Nat
      /\ time > 0 <=> \E r \in R : s.time[r] > 0
      /\ time > 0 => \E r \in R : time = s.time[r]
      /\ \A r \in R : s.time[r] > 0 => time <= s.time[r]
  <2>1. R \subseteq {"cpu", "memory", "network", "fs"}
    OBVIOUS
  <2> QED BY <2>1, TimeOf DEF getScrapeTimePod
<1>2. Readable(s, time) <=> WholePod(s)
  BY <1>1 DEF Readable, WholePod, Whole
<1> HIDE DEF time
<1>3. d = decodeStats(s, time, target)
  BY DEF decodePodStats, time
<1>4. /\ d.errs \in Nat
      /\ d.errs = 0 <=> Readable(s, time)
      /\ Readable(s, time) =>
           /\ d.point.name = s.name /\ d.point.time = time
           /\ \A r \in {"cpu", "memory", "fs"} :
                d.point[r] # Absent /\ Close(d.point[r], s.val)
  BY <1>1, <1>3, StatsOf
<1> HIDE DEF d
<1>5. ASSUME Readable(s, time) PROVE PointOf(d.point, s)
  <2>1. time > 0
    BY <1>5 DEF Readable
  <2>2. PICK r \in R : time = s.time[r]
    BY <1>1, <2>1
  <2>3. d.point.time = time /\ d.point.name = s.name
    BY <1>4, <1>5
  <2>4. \E q \in {"cpu", "memory"} : d.point.time = s.time[q] /\ d.point.time > 0
    BY <2>1, <2>2, <2>3
  <2>5. \A q \in {"cpu", "memory"} : s.time[q] > 0 => d.point.time <= s.time[q]
    BY <1>1, <2>3
  <2> QED BY <1>4, <1>5, <2>3, <2>4, <2>5 DEF PointOf
<1> QED BY <1>2, <1>4, <1>5 DEF d

LEMMA NodeOf ==
  ASSUME NEW s \in Record, NEW target
  PROVE  LET d == decodeNodeStats(s, target)
         IN  d.errs \in Nat /\ (d.errs = 0 <=> WholeNode(s))
<1> DEFINE R == {"cpu", "memory", "network", "fs"}
           time == getScrapeTimeNode(s)
<1>1. time \in Nat /\ (time > 0 <=> \E r \in R : s.time[r] > 0)
  <2>1. R \subseteq {"cpu", "memory", "network", "fs"}
    OBVIOUS
  <2> QED BY <2>1, TimeOf DEF getScrapeTimeNode
<1>2. Readable(s, time) <=> WholeNode(s)
  BY <1>1 DEF Readable, WholeNode, Whole
<1> HIDE DEF time
<1>3. decodeNodeStats(s, target) = decodeStats(s, time, target)
  BY DEF decodeNodeStats, time
<1> QED BY <1>1, <1>2, <1>3, StatsOf

-----------------------------------------------------------------------------
\* The loop over the pods.

WholeTo(pods, k)  == {i \in 1 .. k : WholePod(pods[i])}
BrokenTo(pods, k) == {i \in 1 .. k : ~WholePod(pods[i])}

\* The slots in use hold the points of the whole pods, in their order.
Holds(pods, k, slots, num) ==
  \E at \in [1 .. num -> WholeTo(pods, k)] :
    /\ \A a, b \in 1 .. num : a < b => at[a] < at[b]
    /\ \A i \in WholeTo(pods, k) : \E a \in 1 .. num : at[a] = i
    /\ \A a \in 1 .. num : PointOf(slots[a], pods[at[a]])

\* After k pods.
Decoded(summary, k, d) ==
  LET pods == summary.pods
  IN  /\ \E X : d.slots \in [1 .. Len(pods) -> X]
      /\ d.num \in 0 .. k
      /\ d.errs \in Nat
      /\ Holds(pods, k, d.slots, d.num)
      /\ Cardinality(BrokenTo(pods, k)) <= d.errs
      /\ (d.errs = 0) <=> (WholeNode(summary.node) /\ BrokenTo(pods, k) = {})

AtFirst(summary) ==
  LET node == decodeNodeStats(summary.node, Zero)
  IN  [slots |-> [k \in DOMAIN summary.pods |-> Zero], num |-> 0,
       errs  |-> node.errs, panic |-> node.panic]

LEMMA PodsAre ==
  ASSUME NEW summary \in Summary
  PROVE  /\ summary.node \in Record
         /\ summary.pods \in Seq(Record)
         /\ Len(summary.pods) \in Nat
         /\ DOMAIN summary.pods = 1 .. Len(summary.pods)
         /\ \A i \in 1 .. Len(summary.pods) : summary.pods[i] \in Record
<1>1. summary.node \in Record /\ summary.pods \in Seq(Record)
  BY DEF Summary
<1> QED BY <1>1

LEMMA BrokenIsFinite ==
  ASSUME NEW pods, NEW k \in Nat
  PROVE  IsFiniteSet(BrokenTo(pods, k)) /\ Cardinality(BrokenTo(pods, k)) \in Nat
<1>1. BrokenTo(pods, k) \subseteq 1 .. k
  BY DEF BrokenTo
<1>2. IsFiniteSet(1 .. k)
  BY FS_Interval
<1> QED BY <1>1, <1>2, FS_Subset, FS_CardinalityType

\* A whole pod comes behind the others and has the next slot.
LEMMA HoldsMore ==
  ASSUME NEW pods, NEW k \in Nat, NEW slots, NEW num \in Nat, Holds(pods, k, slots, num),
         WholePod(pods[k + 1]),
         NEW more, \A a \in 1 .. num : more[a] = slots[a],
         PointOf(more[num + 1], pods[k + 1])
  PROVE  Holds(pods, k + 1, more, num + 1)
<1>1. PICK at \in [1 .. num -> WholeTo(pods, k)] :
        /\ \A a, b \in 1 .. num : a < b => at[a] < at[b]
        /\ \A i \in WholeTo(pods, k) : \E a \in 1 .. num : at[a] = i
        /\ \A a \in 1 .. num : PointOf(slots[a], pods[at[a]])
  BY DEF Holds
<1> DEFINE bt == [a \in 1 .. num + 1 |-> IF a = num + 1 THEN k + 1 ELSE at[a]]
<1>2. WholeTo(pods, k + 1) = WholeTo(pods, k) \cup {k + 1} /\ WholeTo(pods, k) \subseteq 1 .. k
  BY DEF WholeTo
<1>3. /\ \A a \in 1 .. num + 1 : a = num + 1 \/ a \in 1 .. num
      /\ \A a \in 1 .. num : a # num + 1 /\ a \in 1 .. num + 1
      /\ num + 1 \in 1 .. num + 1
  OBVIOUS
<1>4. /\ \A a \in 1 .. num : bt[a] = at[a] /\ at[a] \in WholeTo(pods, k) /\ at[a] \in 1 .. k
      /\ bt[num + 1] = k + 1
  BY <1>2, <1>3
<1>5. bt \in [1 .. num + 1 -> WholeTo(pods, k + 1)]
  <2>1. \A a \in 1 .. num + 1 : bt[a] \in WholeTo(pods, k + 1)
    BY <1>2, <1>3, <1>4
  <2> QED BY <2>1
<1> HIDE DEF bt
<1>6. ASSUME NEW a \in 1 .. num + 1, NEW b \in 1 .. num + 1, a < b
      PROVE  bt[a] < bt[b]
  <2>1. a \in 1 .. num
    BY <1>6
  <2>2. CASE b = num + 1
    BY <1>4, <2>1, <2>2
  <2>3. CASE b \in 1 .. num
    BY <1>1, <1>4, <1>6, <2>1, <2>3
  <2> QED BY <1>3, <2>2, <2>3
<1>7. ASSUME NEW i \in WholeTo(pods, k + 1)
      PROVE  \E a \in 1 .. num + 1 : bt[a] = i
  <2>1. CASE i = k + 1
    BY <1>3, <1>4, <2>1
  <2>2. CASE i \in WholeTo(pods, k)
    <3>1. PICK a \in 1 .. num : at[a] = i
      BY <1>1, <2>2
    <3> QED BY <1>3, <1>4, <3>1
  <2> QED BY <1>2, <2>1, <2>2
<1>8. ASSUME NEW a \in 1 .. num + 1
      PROVE  PointOf(more[a], pods[bt[a]])
  <2>1. CASE a = num + 1
    BY <1>4, <2>1
  <2>2. CASE a \in 1 .. num
    BY <1>1, <1>4, <2>2
  <2> QED BY <1>3, <2>1, <2>2
<1> QED BY <1>5, <1>6, <1>7, <1>8 DEF Holds

\* One that is not leaves the slots in use as they were.
LEMMA HoldsStill ==
  ASSUME NEW pods, NEW k \in Nat, NEW slots, NEW num \in Nat, Holds(pods, k, slots, num),
         ~WholePod(pods[k + 1]),
         NEW more, \A a \in 1 .. num : more[a] = slots[a]
  PROVE  Holds(pods, k + 1, more, num)
<1>1. WholeTo(pods, k + 1) = WholeTo(pods, k)
  <2>1. 1 .. k + 1 = (1 .. k) \cup {k + 1}
    OBVIOUS
  <2> QED BY <2>1 DEF WholeTo
<1> QED BY <1>1 DEF Holds

LEMMA DecodeStep ==
  ASSUME NEW summary \in Summary, NEW k \in Nat, k + 1 <= Len(summary.pods),
         NEW d, Decoded(summary, k, d)
  PROVE  Decoded(summary, k + 1, decodeNext(d, summary.pods[k + 1]))
<1> DEFINE pods == summary.pods
           n == Len(pods)
           pod == decodePodStats(pods[k + 1], d.slots[d.num + 1])
           e == decodeNext(d, pods[k + 1])
<1> SUFFICES Decoded(summary, k + 1, e)
  OBVIOUS
<1>0. /\ n \in Nat /\ k + 1 \in 1 .. n /\ pods[k + 1] \in Record
      /\ d.num \in Nat /\ d.num <= k /\ d.num + 1 \in 1 .. n /\ d.errs \in Nat
  BY PodsAre DEF Decoded
<1>1. PICK X : d.slots \in [1 .. n -> X]
  BY DEF Decoded
<1>2. /\ pod.errs \in Nat
      /\ pod.errs = 0 <=> WholePod(pods[k + 1])
      /\ WholePod(pods[k + 1]) => PointOf(pod.point, pods[k + 1])
  BY <1>0, PodOf
<1>3. /\ e.slots = [d.slots EXCEPT ![d.num + 1] = pod.point]
      /\ e.num = IF pod.errs = 0 THEN d.num + 1 ELSE d.num
      /\ e.errs = d.errs + pod.errs
  BY DEF decodeNext, decodeNextWith
<1> HIDE DEF pod, e
<1>4. /\ \E Y : e.slots \in [1 .. n -> Y]
      /\ \A a \in 1 .. d.num : e.slots[a] = d.slots[a]
      /\ e.slots[d.num + 1] = pod.point
  <2>1. e.slots \in [1 .. n -> X \cup {pod.point}]
    BY <1>0, <1>1, <1>3
  <2>2. \A a \in 1 .. d.num : a \in 1 .. n /\ a # d.num + 1
    BY <1>0
  <2> QED BY <1>0, <1>1, <1>3, <2>1, <2>2
<1>5. /\ Holds(pods, k, d.slots, d.num)
      /\ Cardinality(BrokenTo(pods, k)) <= d.errs
      /\ (d.errs = 0) <=> (WholeNode(summary.node) /\ BrokenTo(pods, k) = {})
  BY DEF Decoded
<1>6. IsFiniteSet(BrokenTo(pods, k)) /\ Cardinality(BrokenTo(pods, k)) \in Nat
  BY BrokenIsFinite
<1>7. k + 1 \notin BrokenTo(pods, k) /\ 1 .. k + 1 = (1 .. k) \cup {k + 1}
  BY DEF BrokenTo
<1>8. CASE WholePod(pods[k + 1])
  <2>1. e.num = d.num + 1 /\ e.errs = d.errs
    BY <1>0, <1>2, <1>3, <1>8
  <2>2. BrokenTo(pods, k + 1) = BrokenTo(pods, k)
    BY <1>7, <1>8 DEF BrokenTo
  <2>3. Holds(pods, k + 1, e.slots, e.num)
    BY <1>0, <1>2, <1>4, <1>5, <1>8, <2>1, HoldsMore
  <2>4. e.num \in 0 .. k + 1 /\ e.errs \in Nat
    BY <1>0, <2>1
  <2> QED BY <1>4, <1>5, <2>1, <2>2, <2>3, <2>4 DEF Decoded
<1>9. CASE ~WholePod(pods[k + 1])
  <2>1. e.num = d.num /\ e.errs = d.errs + pod.errs /\ pod.errs >= 1
    BY <1>0, <1>2, <1>3, <1>9
  <2>2. BrokenTo(pods, k + 1) = BrokenTo(pods, k) \cup {k + 1}
    BY <1>7, <1>9 DEF BrokenTo
  <2>3. Holds(pods, k + 1, e.slots, e.num)
    BY <1>0, <1>4, <1>5, <1>9, <2>1, HoldsStill
  <2>4. e.num \in 0 .. k + 1 /\ e.errs \in Nat /\ e.errs > 0
    BY <1>0, <1>2, <2>1
  <2>5. Cardinality(BrokenTo(pods, k + 1)) = Cardinality(BrokenTo(pods, k)) + 1
    BY <1>6, <1>7, <2>2, FS_AddElement
  <2>6. Cardinality(BrokenTo(pods, k + 1)) <= e.errs
    BY <1>0, <1>2, <1>5, <1>6, <2>1, <2>5
  <2>7. BrokenTo(pods, k + 1) # {} /\ e.errs # 0
    <3>1. k + 1 \in BrokenTo(pods, k + 1)
      BY <2>2
    <3> QED BY <2>4, <3>1
  <2> QED BY <1>4, <2>3, <2>4, <2>6, <2>7 DEF Decoded
<1> QED BY <1>8, <1>9

LEMMA PodsLast == ASSUME NEW n \in Nat PROVE Pods!LargestLast(n)
  BY Pods!MaxIs DEF Pods!LargestLast, Largest, Max, Pods!Max

\* After all the pods.
LEMMA AllDecoded ==
  ASSUME NEW summary \in Summary
  PROVE  Decoded(summary, Len(summary.pods),
                 FoldLeft(decodeNext, AtFirst(summary), summary.pods))
<1> DEFINE pods == summary.pods
           F(k) == Pods!Fold(AtFirst(summary), pods, 1 .. k)
           P == {k \in Nat : k <= Len(pods) => Decoded(summary, k, F(k))}
<1>0. Len(pods) \in Nat /\ DOMAIN pods = 1 .. Len(pods)
  BY PodsAre
<1>1. 0 \in P
  <2>0. 1 .. 0 = {}
    OBVIOUS
  <2>1. F(0) = AtFirst(summary)
    BY <2>0, Pods!FoldEmpty
  <2> DEFINE node == decodeNodeStats(summary.node, Zero)
  <2>2. node.errs \in Nat /\ (node.errs = 0 <=> WholeNode(summary.node))
    BY PodsAre, NodeOf
  <2> HIDE DEF node
  <2>3. /\ AtFirst(summary).slots = [k \in DOMAIN pods |-> Zero]
        /\ AtFirst(summary).num = 0 /\ AtFirst(summary).errs = node.errs
    BY DEF AtFirst, node
  <2>4. AtFirst(summary).slots \in [1 .. Len(pods) -> {Zero}]
    BY <1>0, <2>3
  <2>5. WholeTo(pods, 0) = {} /\ BrokenTo(pods, 0) = {}
    BY <2>0 DEF WholeTo, BrokenTo
  <2>6. Holds(pods, 0, AtFirst(summary).slots, 0)
    <3>1. [a \in {} |-> 0] \in [{} -> {}]
      OBVIOUS
    <3> QED BY <2>0, <2>5, <3>1 DEF Holds
  <2>7. Cardinality(BrokenTo(pods, 0)) = 0
    BY <2>5, FS_EmptySet
  <2>8. Decoded(summary, 0, AtFirst(summary))
    <3> DEFINE d == AtFirst(summary)
    <3> HIDE DEF d
    <3>1. d.num \in 0 .. 0 /\ d.errs \in Nat /\ Cardinality(BrokenTo(pods, 0)) <= d.errs
      BY <2>2, <2>3, <2>7 DEF d
    <3>2. (d.errs = 0) <=> (WholeNode(summary.node) /\ BrokenTo(pods, 0) = {})
      BY <2>2, <2>3, <2>5 DEF d
    <3>3. (\E X : d.slots \in [1 .. Len(pods) -> X]) /\ Holds(pods, 0, d.slots, d.num)
      BY <2>3, <2>4, <2>6 DEF d
    <3>4. Decoded(summary, 0, d)
      BY <3>1, <3>2, <3>3 DEF Decoded
    <3> QED BY <3>4 DEF d
  <2> HIDE DEF F
  <2> QED BY <2>1, <2>8
<1>2. \A k \in Nat : k \in P => k + 1 \in P
  <2> SUFFICES ASSUME NEW k \in Nat, Decoded(summary, k, F(k)), k + 1 <= Len(pods)
               PROVE  Decoded(summary, k + 1, F(k + 1))
    BY <1>0
  <2>1. k + 1 \in 1 .. Len(pods) /\ (k + 1) - 1 = k
    BY <1>0
  <2>2. F(k + 1) = OfPods(pods[k + 1], F(k))
    BY <1>0, <2>1, PodsLast, Pods!FoldNext
  <2>3. F(k + 1) = decodeNext(F(k), pods[k + 1])
    BY <2>2 DEF OfPods
  <2> HIDE DEF F
  <2> QED BY <2>3, DecodeStep
<1>3. Len(pods) \in P
  <2> HIDE DEF P
  <2> QED BY <1>0, <1>1, <1>2, Pods!Induction
<1>4. FoldLeft(decodeNext, AtFirst(summary), pods) = F(Len(pods))
  <2>1. ASSUME NEW base, NEW seq
        PROVE  FoldLeft(decodeNext, base, seq) = Pods!Fold(base, seq, DOMAIN seq)
    BY DEF FoldLeft, MapThenFoldSet, Pods!Fold, Pods!MapThenFoldSet, OfPods, Largest
  <2> QED BY <1>0, <2>1
<1> HIDE DEF F
<1> QED BY <1>0, <1>3, <1>4

LEMMA AllComplete ==
  ASSUME NEW summary \in Summary
  PROVE  Complete(summary)
<1> DEFINE pods == summary.pods
           n == Len(pods)
           d == FoldLeft(decodeNext, AtFirst(summary), pods)
           batch == DecodeBatch(summary)
           whole == {i \in DOMAIN pods : WholePod(pods[i])}
<1>0. n \in Nat /\ DOMAIN pods = 1 .. n
  BY PodsAre
<1>1. batch.pods = SubSeq(d.slots, 1, d.num) /\ batch.errs = d.errs
  BY DEF DecodeBatch, AtFirst
<1>2. Decoded(summary, n, d)
  BY AllDecoded
<1> HIDE DEF batch, d
<1>3. PICK X : d.slots \in [1 .. n -> X]
  BY <1>2 DEF Decoded
<1>4. /\ d.num \in 0 .. n
      /\ Holds(pods, n, d.slots, d.num)
      /\ Cardinality(BrokenTo(pods, n)) <= d.errs
      /\ (d.errs = 0) <=> (WholeNode(summary.node) /\ BrokenTo(pods, n) = {})
  BY <1>2 DEF Decoded
<1>5. DOMAIN batch.pods = 1 .. d.num /\ \A a \in 1 .. d.num : batch.pods[a] = d.slots[a]
  <2>1. 1 \in Int /\ d.num \in Int /\ \A i \in 1 .. d.num : d.slots[i] \in X
    BY <1>0, <1>3, <1>4
  <2>2. /\ SubSeq(d.slots, 1, d.num) \in Seq(X)
        /\ Len(SubSeq(d.slots, 1, d.num)) = IF 1 <= d.num THEN (d.num - 1) + 1 ELSE 0
        /\ \A i \in 1 .. (d.num - 1) + 1 : SubSeq(d.slots, 1, d.num)[i] = d.slots[(1 + i) - 1]
    BY <2>1, SubSeqProperties
  <2>3. Len(SubSeq(d.slots, 1, d.num)) = d.num /\ (d.num - 1) + 1 = d.num
    BY <1>0, <1>4, <2>2
  <2>4. DOMAIN SubSeq(d.slots, 1, d.num) = 1 .. d.num
    BY <2>2, <2>3
  <2>5. \A i \in 1 .. d.num : (1 + i) - 1 = i
    OBVIOUS
  <2> QED BY <1>1, <2>2, <2>3, <2>4, <2>5
<1>6. WholeTo(pods, n) = whole /\ BrokenTo(pods, n) = DOMAIN pods \ whole
  BY <1>0 DEF WholeTo, BrokenTo
<1>7. \E at \in [DOMAIN batch.pods -> whole] :
        /\ \A k, l \in DOMAIN at : k < l => at[k] < at[l]
        /\ \A i \in whole : \E k \in DOMAIN at : at[k] = i
        /\ \A k \in DOMAIN at : PointOf(batch.pods[k], pods[at[k]])
  <2> HIDE DEF whole
  <2>1. PICK at \in [1 .. d.num -> whole] :
          /\ \A a, b \in 1 .. d.num : a < b => at[a] < at[b]
          /\ \A i \in whole : \E a \in 1 .. d.num : at[a] = i
          /\ \A a \in 1 .. d.num : PointOf(d.slots[a], pods[at[a]])
    BY <1>4, <1>6 DEF Holds
  <2>2. DOMAIN at = 1 .. d.num /\ at \in [DOMAIN batch.pods -> whole]
    BY <1>5, <2>1
  <2>3. /\ \A k, l \in DOMAIN at : k < l => at[k] < at[l]
        /\ \A i \in whole : \E k \in DOMAIN at : at[k] = i
        /\ \A k \in DOMAIN at : PointOf(batch.pods[k], pods[at[k]])
    BY <1>5, <2>1, <2>2
  <2> QED BY <2>2, <2>3
<1>8. Cardinality(DOMAIN pods \ whole) <= batch.errs
  <2> HIDE DEF whole
  <2> QED BY <1>1, <1>4, <1>6
<1>9. (batch.errs = 0) <=> (WholeNode(summary.node) /\ whole = DOMAIN pods)
  <2>1. DOMAIN pods \ whole = {} <=> whole = DOMAIN pods
    BY Zenon
  <2> HIDE DEF whole
  <2> QED BY <1>1, <1>4, <1>6, <2>1
<1> QED BY <1>7, <1>8, <1>9 DEF Complete, batch

-----------------------------------------------------------------------------
\* The input is one of those that may be given.
Given ==
  \/ input = None
  \/ \E s \in Summaries : input = [summary |-> s]
  \/ \E w \in Wirings : input = [wiring |-> w]

LEMMA IsGiven == Spec => []Given
<1>1. Init => Given
  BY DEF Init, Given
<1>2. Given /\ [Next]_input => Given'
  BY DEF Given, Next, ASummary, AWiring
<1> QED BY <1>1, <1>2, PTL DEF Spec

\* decode.go:29-65: whatever the kubelet answers, the batch holds exactly the pods with
\* all their readings, in order, each with its own; and it is without error only if it
\* is complete.
THEOREM BatchIsComplete == Spec => []BatchComplete
<1>1. Given => BatchComplete
  <2> SUFFICES ASSUME NEW s \in Summaries, input = [summary |-> s] PROVE Complete(input.summary)
    BY DEF Given, BatchComplete, given
  <2>1. input.summary = s /\ s \in Summary
    BY InputAssumption DEF InputAssumption
  <2> QED BY <2>1, AllComplete
<1> QED BY <1>1, IsGiven, PTL

\* main.go:553-618: whatever the wiring, a GPU's entries are the peers with a lane
\* numbered below their index, each once and with the lanes from that one on.
THEOREM LinksAreCounted == Spec => []LinksCounted
<1>1. Given => LinksCounted
  <2> SUFFICES ASSUME NEW w \in Wirings, input = [wiring |-> w] PROVE Linked(input.wiring)
    BY DEF Given, LinksCounted, given
  <2>1. input.wiring = w /\ w \in Wiring
    BY InputAssumption DEF InputAssumption
  <2> QED BY <2>1, AllLinked
<1> QED BY <1>1, IsGiven, PTL

=============================================================================
