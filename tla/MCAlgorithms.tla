----------------------------- MODULE MCAlgorithms -----------------------------
\* The pure algorithms on every input of a bounded set.
EXTENDS Algorithms

CONSTANT Values

-----------------------------------------------------------------------------
\* Summaries: any node without pods, and a complete node with up to two pods.

\* A record that is absent has no time.
Records(names, fsTimes) ==
  { s \in [name : names, val : Values,
           cpu : CPUShapes, memory : MemoryShapes, fs : FsShapes,
           time : [cpu : {0, 2}, memory : {0, 1, 3}, network : fsTimes, fs : fsTimes]] :
      /\ s.cpu = Absent => s.time.cpu = 0
      /\ s.memory = Absent => s.time.memory = 0
      /\ s.fs = Absent => s.time.fs = 0 }

Nodes == Records({"node"}, {0, 1})

Pod(name) == Records({name}, {0})

wholeNode == CHOOSE s \in Nodes : WholeNode(s)

\* Two pods of different values, so that one's cannot pass for the other's.
pairs == {s \in Pod("a") \X Pod("b") : s[1].val # s[2].val}

MCSummaries ==
  [node : Nodes, pods : {<<>>}]
    \cup [node : {wholeNode}, pods : {<<p>> : p \in Pod("a")}]
    \cup [node : {wholeNode}, pods : pairs]

-----------------------------------------------------------------------------
\* Wirings: two GPUs have the same number of lanes to each other, no GPU has one to
\* itself.

EndsOf(i) == [1 .. MaxLanes -> (GPU \ {i}) \cup {Switch, Down}]

lanesTo(ends, p) == Cardinality({k \in DOMAIN ends : ends[k] = p})

MCWirings ==
  { w \in {[i \in GPU |-> t[i + 1]] : t \in EndsOf(0) \X EndsOf(1) \X EndsOf(2)} :
      \A i, p \in GPU : lanesTo(w[i], p) = lanesTo(w[p], i) }

=============================================================================
