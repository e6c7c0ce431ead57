---------------------------- MODULE PublisherProof ----------------------------
(***************************************************************************)
(* What the publisher does with a value, for any number of subscribers and *)
(* values and however subscribers come and go.                             *)
(***************************************************************************)
EXTENDS Publisher, FiniteSetTheorems, TLAPS

\* What will be in a cell when the removal that goes on is over, and how many cells
\* will be left.
Target(i) == IF i \in DOMAIN pending THEN pending[i] ELSE array[i]
Live == IF Unlocked THEN len ELSE len - 1

\* The subscribers' slice: its cells are subscribers add has returned, and once what
\* is pending is stored each is in one cell.
Slice ==
  /\ known \subseteq Sub
  /\ array \in Seq(Sub \cup {NULL}) /\ \A i \in DOMAIN array : array[i] \in known \cup {NULL}
  /\ len \in 0 .. Len(array)
  /\ \A i \in 1 .. len : array[i] \in Sub
  /\ leaving \in Sub \cup {NULL} /\ (~Unlocked => len > 0)
  /\ DOMAIN pending \subseteq 1 .. len - 1 /\ (Unlocked => DOMAIN pending = {})
  /\ \A i \in DOMAIN pending : pending[i] \in known
  /\ \A i, j \in 1 .. Live : Target(i) = Target(j) => i = j

\* The slice broadcast goes through: as long as it shares the array, its cells are
\* the array's, and there is always a subscriber in them.
Walk ==
  /\ broadcast \in {"select", "loop", "ended"}
  /\ publishing \in 0 .. MaxValue
  /\ list \in Seq(Sub) /\ \A i \in DOMAIN list : list[i] \in known
  /\ next \in 1 .. Len(list) + 1
  /\ shares \in BOOLEAN
  /\ shares => Len(list) <= Len(array) /\ \A i \in 1 .. Len(list) : array[i] = list[i]
  /\ broadcast = "loop" => publishing \in Value

Counts ==
  /\ waiting \in [Sub -> [Value -> Nat]] /\ got \in [Sub -> [Value -> Nat]]
  /\ present \in [Value -> SUBSET Sub]
  /\ removals \in [Value -> Nat]
  /\ spared \in [Value -> SUBSET Sub]

Typed == Slice /\ Walk /\ Counts

LEMMA Bounds == MaxValue \in Nat /\ NULL \notin Sub
  BY PublisherAssumption DEF PublisherAssumption

LEMMA CellsType ==
  ASSUME Slice
  PROVE  /\ Cells(len) \in Seq(Sub) /\ Len(Cells(len)) = len
         /\ \A i \in 1 .. len : Cells(len)[i] = array[i]
  BY DEF Slice, Cells

LEMMA SubscribersAre ==
  ASSUME Slice
  PROVE  Subscribers = {array[i] : i \in 1 .. len}
<1>1. /\ Cells(len) \in Seq(Sub) /\ Len(Cells(len)) = len
      /\ \A i \in 1 .. len : Cells(len)[i] = array[i]
  BY CellsType
<1>2. DOMAIN Cells(len) = 1 .. len
  BY <1>1
<1> QED
  BY <1>1, <1>2 DEF Subscribers, ToSet

-----------------------------------------------------------------------------
\* What a step does to the slice.

\* An append leaves the cells there are and adds one behind them.
LEMMA AddSays ==
  ASSUME Slice, Walk, NEW s \in Sub, add(s)
  PROVE  /\ array' \in Seq(Sub \cup {NULL}) /\ len' = len + 1 /\ len' \in 0 .. Len(array')
         /\ \A i \in DOMAIN array' : array'[i] \in known \cup {s, NULL}
         /\ array'[len'] = s
         /\ \A i \in 1 .. len : array'[i] = array[i]
         /\ shares' => shares /\ Len(array') = Len(array)
                       /\ \A i \in DOMAIN array \ {len'} : array'[i] = array[i]
         /\ list' = IF shares' THEN SubSeq(array', 1, Len(list)) ELSE list
<1>0. len' = len + 1 /\ append(s)
  BY DEF add
<1>1. CASE len < Len(array)
  <2>1. /\ array' = [array EXCEPT ![len + 1] = s] /\ shares' = shares
        /\ list' = IF shares THEN SubSeq(array', 1, Len(list)) ELSE list
    BY <1>0, <1>1 DEF append, appendAs, Seen
  <2>2. /\ array' \in Seq(Sub \cup {NULL}) /\ Len(array') = Len(array) /\ array'[len + 1] = s
        /\ \A i \in DOMAIN array \ {len + 1} : array'[i] = array[i]
    BY <1>1, <2>1 DEF Slice
  <2>3. \A i \in 1 .. len : i \in DOMAIN array \ {len + 1}
    BY DEF Slice
  <2>4. len + 1 \in 0 .. Len(array)
    BY <1>1 DEF Slice
  <2>5. \A i \in DOMAIN array' : array'[i] \in known \cup {s, NULL}
    BY <2>2 DEF Slice
  <2> QED
    BY <1>0, <2>1, <2>2, <2>3, <2>4, <2>5 DEF Walk
<1>2. CASE ~(len < Len(array))
  <2> DEFINE spare == [k \in 1 .. Max({len - 1, 0}) |-> NULL]
  <2>1. array' = array \o <<s>> \o spare /\ shares' = FALSE /\ list' = list
    BY <1>0, <1>2 DEF append, appendAs
  <2>2. len = Len(array) /\ len \in Nat
    BY <1>2 DEF Slice
  <2>3. Max({len - 1, 0}) \in Nat
    <3>1. PICK m \in {len - 1, 0} : \A y \in {len - 1, 0} : m >= y
      BY <2>2
    <3>2. Max({len - 1, 0}) \in {len - 1, 0} /\ \A y \in {len - 1, 0} : Max({len - 1, 0}) >= y
      BY <3>1 DEF Max
    <3> QED
      BY <2>2, <3>2
  <2>4. spare \in Seq(Sub \cup {NULL}) /\ \A k \in 1 .. Len(spare) : spare[k] = NULL
    <3>1. \A n \in Nat : LET e == [k \in 1 .. n |-> NULL] IN
            e \in Seq(Sub \cup {NULL}) /\ Len(e) = n /\ \A k \in 1 .. n : e[k] = NULL
      OBVIOUS
    <3> HIDE DEF spare
    <3>2. PICK n \in Nat : n = Max({len - 1, 0})
      BY <2>3
    <3>3. spare = [k \in 1 .. n |-> NULL]
      BY <3>2 DEF spare
    <3> QED
      BY <3>1, <3>3
  <2> HIDE DEF spare
  <2>5. array \o <<s>> \in Seq(Sub \cup {NULL}) /\ Len(array \o <<s>>) = len + 1
        /\ (array \o <<s>>)[len + 1] = s /\ \A i \in 1 .. len : (array \o <<s>>)[i] = array[i]
    BY <2>2 DEF Slice
  <2>6. /\ array' \in Seq(Sub \cup {NULL}) /\ len + 1 \in 0 .. Len(array')
        /\ \A i \in 1 .. len + 1 : array'[i] = (array \o <<s>>)[i]
        /\ \A i \in DOMAIN array' \ (1 .. len + 1) : array'[i] = NULL
    <3>1. PICK b \in Seq(Sub \cup {NULL}) : b = array \o <<s>>
      BY <2>5
    <3>2. /\ b \o spare \in Seq(Sub \cup {NULL}) /\ Len(b \o spare) = Len(b) + Len(spare)
          /\ \A i \in 1 .. Len(b) : (b \o spare)[i] = b[i]
          /\ \A k \in 1 .. Len(spare) : (b \o spare)[Len(b) + k] = spare[k]
      BY <2>4
    <3>3. array' = b \o spare /\ Len(b) = len + 1 /\ Len(spare) \in Nat
      BY <2>1, <2>4, <2>5, <3>1
    <3>4. array' \in Seq(Sub \cup {NULL}) /\ Len(array') = len + 1 + Len(spare)
      BY <3>2, <3>3
    <3>5. \A i \in 1 .. len + 1 : array'[i] = b[i]
      BY <3>2, <3>3
    <3>6. len + 1 \in 0 .. Len(array')
      BY <2>2, <3>3, <3>4
    <3>7. ASSUME NEW i \in DOMAIN array' \ (1 .. len + 1) PROVE array'[i] = NULL
      <4>1. i - (len + 1) \in 1 .. Len(spare)
        BY <2>2, <3>3, <3>4
      <4>2. i = Len(b) + (i - (len + 1))
        BY <2>2, <3>3, <3>4
      <4> QED
        BY <2>4, <3>2, <3>3, <4>1, <4>2
    <3> QED
      BY <3>1, <3>4, <3>5, <3>6, <3>7
  <2>7. \A i \in DOMAIN array' : array'[i] \in known \cup {s, NULL}
    <3> SUFFICES ASSUME NEW i \in DOMAIN array', i \in 1 .. len + 1
                 PROVE  array'[i] \in known \cup {s, NULL}
      BY <2>6
    <3>1. i \in DOMAIN array \/ i = len + 1
      BY <2>2 DEF Slice
    <3> QED
      BY <2>2, <2>5, <2>6, <3>1 DEF Slice
  <2> QED
    BY <1>0, <2>1, <2>2, <2>5, <2>6, <2>7
<1> QED
  BY <1>1, <1>2

\* A removal has a gap to close and moves nothing yet.
LEMMA RemoveSays ==
  ASSUME Slice, NEW s \in Sub, remove(s)
  PROVE  \E k \in 1 .. len :
           /\ array[k] = s /\ Unlocked /\ ~Unlocked'
           /\ pending' = [i \in k .. len - 1 |-> array[i + 1]]
           /\ \A i \in 1 .. len - 1 : Target(i)' = IF i < k THEN array[i] ELSE array[i + 1]
           /\ Disturb(k)
<1>1. PICK k \in 1 .. len : array[k] = s /\ removeAt(s, k) /\ Disturb(k)
  BY DEF remove
<1>2. /\ Unlocked /\ leaving' = s /\ pending' = [i \in k .. len - 1 |-> array[i + 1]]
      /\ array' = array
  BY <1>1 DEF removeAt
<1>3. ~Unlocked'
  BY <1>2, Bounds DEF Unlocked
<1>4. ASSUME NEW i \in 1 .. len - 1
      PROVE  Target(i)' = IF i < k THEN array[i] ELSE array[i + 1]
  <2>1. i \in k .. len - 1 <=> ~(i < k)
    BY DEF Slice
  <2> QED
    BY <1>2, <2>1 DEF Target
<1> QED
  BY <1>1, <1>2, <1>3, <1>4

\* A cell stored changes what is in the array but not what will be.
LEMMA MoveSays ==
  ASSUME Slice, Move
  PROVE  \E i \in DOMAIN pending :
           /\ array' \in Seq(Sub \cup {NULL}) /\ Len(array') = Len(array)
           /\ array'[i] = pending[i] /\ pending[i] \in Sub \cap known
           /\ \A j \in DOMAIN array \ {i} : array'[j] = array[j]
           /\ DOMAIN pending' = DOMAIN pending \ {i}
           /\ \A j \in DOMAIN pending' : pending'[j] = pending[j]
           /\ \A j \in 1 .. Live : Target(j)' = Target(j)
           /\ i \in 1 .. len - 1 /\ i \in DOMAIN array
           /\ ~Unlocked /\ list' = Seen(array')
<1>1. PICK i \in DOMAIN pending : /\ array' = [array EXCEPT ![i] = pending[i]]
                                  /\ pending' = [j \in DOMAIN pending \ {i} |-> pending[j]]
  BY DEF Move
<1>2. /\ i \in 1 .. len - 1 /\ i \in DOMAIN array /\ pending[i] \in known
      /\ ~Unlocked /\ len \in Nat /\ len <= Len(array)
  BY DEF Slice
<1>3. pending[i] \in Sub
  BY <1>2 DEF Slice
<1>4. array' \in Seq(Sub \cup {NULL}) /\ Len(array') = Len(array) /\ array'[i] = pending[i]
      /\ \A j \in DOMAIN array \ {i} : array'[j] = array[j]
  BY <1>1, <1>2, <1>3 DEF Slice
<1>5. DOMAIN pending' = DOMAIN pending \ {i} /\ \A j \in DOMAIN pending' : pending'[j] = pending[j]
  BY <1>1
<1>6. ASSUME NEW j \in 1 .. Live PROVE Target(j)' = Target(j)
  <2>1. j \in DOMAIN array
    BY <1>2 DEF Live
  <2> QED
    BY <1>4, <1>5, <2>1 DEF Target
<1> QED
  BY <1>1, <1>2, <1>3, <1>4, <1>5, <1>6 DEF Move

LEMMA SliceStep == Slice /\ Walk /\ Counts /\ [Next]_vars => Slice'
<1> SUFFICES ASSUME Slice, Walk, Counts, [Next]_vars PROVE Slice'
  OBVIOUS
<1>0. len \in Nat /\ Len(array) \in Nat /\ len <= Len(array) /\ DOMAIN array = 1 .. Len(array)
  BY DEF Slice
<1>1. ASSUME NEW s \in Sub, add(s) PROVE Slice'
  <2>0. /\ Unlocked /\ UNCHANGED <<leaving, pending>> /\ s \notin known
        /\ known' = known \cup {s} /\ DOMAIN pending = {} /\ Live = len
    BY <1>1 DEF add, Slice, Live
  <2>1. \A i \in 1 .. len : array[i] # s
    BY <1>0, <2>0, Bounds DEF Slice
  <2>2. /\ array' \in Seq(Sub \cup {NULL}) /\ len' = len + 1 /\ len' \in 0 .. Len(array')
        /\ array'[len'] = s /\ \A i \in 1 .. len : array'[i] = array[i]
        /\ \A i \in DOMAIN array' : array'[i] \in known' \cup {NULL}
    BY <1>1, <2>0, AddSays
  <2>3. \A i \in 1 .. len' : i \in 1 .. len \/ i = len'
    BY <2>2 DEF Slice
  <2>4. \A i \in 1 .. len' : array'[i] \in Sub
    BY <2>2, <2>3 DEF Slice
  <2>5. \A i, j \in 1 .. len : array[i] = array[j] => i = j
    BY <2>0 DEF Slice, Target
  <2>6. \A i, j \in 1 .. len' : array'[i] = array'[j] => i = j
    BY <2>1, <2>2, <2>3, <2>5
  <2>7. Live' = len' /\ \A i \in 1 .. len' : Target(i)' = array'[i]
    BY <2>0 DEF Live, Unlocked, Target
  <2> QED
    BY <2>0, <2>2, <2>4, <2>6, <2>7 DEF Slice, Unlocked
<1>2. ASSUME NEW s \in Sub, remove(s) PROVE Slice'
  <2>1. PICK k \in 1 .. len :
          /\ array[k] = s /\ Unlocked /\ ~Unlocked'
          /\ pending' = [i \in k .. len - 1 |-> array[i + 1]]
          /\ \A i \in 1 .. len - 1 : Target(i)' = IF i < k THEN array[i] ELSE array[i + 1]
    BY <1>2, RemoveSays
  <2>2. UNCHANGED <<array, len, known>> /\ leaving' = s
    BY <1>2 DEF remove, removeAt
  <2> DEFINE from(i) == IF i < k THEN i ELSE i + 1
  <2>3. Live' = len - 1 /\ Live = len /\ DOMAIN pending = {}
    BY <2>1, <2>2 DEF Live, Slice
  <2>4. \A i, j \in 1 .. len : array[i] = array[j] => i = j
    BY <2>3 DEF Slice, Target
  <2>5. ASSUME NEW i \in 1 .. len - 1 PROVE from(i) \in 1 .. len /\ Target(i)' = array[from(i)]
    BY <1>0, <2>1
  <2>6. ASSUME NEW i \in 1 .. len - 1, NEW j \in 1 .. len - 1, Target(i)' = Target(j)' PROVE i = j
    <3>1. from(i) = from(j)
      BY <2>4, <2>5, <2>6
    <3> QED
      BY <1>0, <3>1
  <2>7. /\ DOMAIN pending' \subseteq 1 .. len - 1
        /\ \A i \in DOMAIN pending' : pending'[i] \in known
    <3>1. \A i \in k .. len - 1 : i \in 1 .. len - 1 /\ i + 1 \in 1 .. len /\ i + 1 \in DOMAIN array
      BY <1>0
    <3> QED
      BY <2>1, <3>1, Bounds DEF Slice
  <2> QED
    BY <1>0, <2>1, <2>2, <2>3, <2>6, <2>7 DEF Slice
<1>3. CASE Move
  <2>1. PICK i \in DOMAIN pending :
           /\ array' \in Seq(Sub \cup {NULL}) /\ Len(array') = Len(array)
           /\ array'[i] = pending[i] /\ pending[i] \in Sub \cap known
           /\ \A j \in DOMAIN array \ {i} : array'[j] = array[j]
           /\ DOMAIN pending' = DOMAIN pending \ {i}
           /\ \A j \in DOMAIN pending' : pending'[j] = pending[j]
           /\ \A j \in 1 .. Live : Target(j)' = Target(j)
           /\ i \in 1 .. len - 1 /\ i \in DOMAIN array
           /\ ~Unlocked
    BY <1>3, MoveSays
  <2>2. UNCHANGED <<len, leaving, known>>
    BY <1>3 DEF Move
  <2>3. Live' = Live /\ (Unlocked' <=> Unlocked)
    BY <2>2 DEF Live, Unlocked
  <2>4. DOMAIN array' = DOMAIN array /\ \A j \in DOMAIN array : array'[j] \in known \cup {NULL}
    BY <1>0, <2>1 DEF Slice
  <2>5. \A j \in 1 .. len : array'[j] \in Sub
    BY <1>0, <2>1 DEF Slice
  <2> QED
    BY <1>0, <2>1, <2>2, <2>3, <2>4, <2>5 DEF Slice
<1>4. CASE Removed
  <2>1. /\ UNCHANGED <<array, pending, known>> /\ len' = len - 1 /\ leaving' = NULL
        /\ ~Unlocked /\ DOMAIN pending = {}
    BY <1>4 DEF Removed
  <2>2. Live' = len - 1 /\ Live = len - 1 /\ Unlocked'
    BY <2>1 DEF Live, Unlocked
  <2>3. \A i \in 1 .. len - 1 : Target(i)' = Target(i) /\ i \in 1 .. len
    BY <1>0, <2>1 DEF Target
  <2>4. len - 1 \in 0 .. Len(array)
    BY <1>0, <2>1 DEF Slice
  <2> QED
    BY <2>1, <2>2, <2>3, <2>4 DEF Slice
<1>5. CASE UNCHANGED <<slice, known>>
  BY <1>5 DEF slice, Slice, Live, Target, Unlocked
<1> QED
  BY <1>1, <1>2, <1>3, <1>4, <1>5
  DEF Next, Take, Hand, HandWhen, Done, DoneWhen, Close, Read, vars

\* The cells of a shared slice hold what broadcast will find there.
LEMMA SharedCells ==
  ASSUME array \in Seq(Sub \cup {NULL}), list \in Seq(Sub), Len(list) <= Len(array),
         \A i \in 1 .. Len(list) : array[i] \in Sub
  PROVE  /\ SubSeq(array, 1, Len(list)) \in Seq(Sub)
         /\ Len(SubSeq(array, 1, Len(list))) = Len(list)
         /\ \A i \in 1 .. Len(list) : SubSeq(array, 1, Len(list))[i] = array[i]
  OBVIOUS

LEMMA WalkStep == Slice /\ Walk /\ Counts /\ [Next]_vars => Walk'
<1> SUFFICES ASSUME Slice, Walk, Counts, [Next]_vars PROVE Walk'
  OBVIOUS
<1>0. Len(list) \in Nat /\ DOMAIN list = 1 .. Len(list) /\ \A i \in 1 .. Len(list) : list[i] \in Sub
  BY DEF Walk
<1>1. ASSUME NEW s \in Sub, add(s) PROVE Walk'
  <2>1. UNCHANGED <<broadcast, publishing, next>>
    BY <1>1 DEF add
  <2>0. known' = known \cup {s} /\ s # NULL
    BY <1>1, Bounds DEF add
  <2>2. CASE shares'
    <3>1. /\ shares /\ Len(array') = Len(array) /\ array' \in Seq(Sub \cup {NULL})
          /\ \A i \in DOMAIN array \ {len'} : array'[i] = array[i]
          /\ array'[len'] = s /\ list' = SubSeq(array', 1, Len(list))
      BY <1>1, <2>2, AddSays
    <3>2. \A i \in 1 .. Len(list) : i \in DOMAIN array /\ array[i] = list[i] /\ list[i] \in Sub
      BY <1>0, <3>1 DEF Walk, Slice
    <3>3. \A i \in 1 .. Len(list) : array'[i] \in Sub
      BY <3>1, <3>2
    <3>4. Len(list) <= Len(array')
      BY <3>1 DEF Walk
    <3>5. /\ list' \in Seq(Sub) /\ Len(list') = Len(list)
          /\ \A i \in 1 .. Len(list) : list'[i] = array'[i]
      BY <1>0, <3>1, <3>3, <3>4
    <3>6. \A i \in 1 .. Len(list) : list'[i] \in known'
      BY <1>1, <2>0, <3>1, <3>2, <3>5 DEF Walk
    <3>7. DOMAIN list' = 1 .. Len(list)
      BY <3>5
    <3> QED
      BY <2>1, <2>2, <3>4, <3>5, <3>6, <3>7 DEF Walk
  <2>3. CASE ~shares'
    <3>1. list' = list /\ shares' \in BOOLEAN
      BY <1>1, <2>3, AddSays DEF add, append, appendAs, Walk
    <3> QED
      BY <2>0, <2>1, <2>3, <3>1 DEF Walk
  <2> QED
    BY <2>2, <2>3
<1>2. CASE Move
  <2>1. UNCHANGED <<broadcast, publishing, next, shares, known>> /\ list' = Seen(array')
    BY <1>2 DEF Move
  <2>2. PICK i \in DOMAIN pending :
           /\ array' \in Seq(Sub \cup {NULL}) /\ Len(array') = Len(array)
           /\ array'[i] = pending[i] /\ pending[i] \in Sub \cap known
           /\ \A j \in DOMAIN array \ {i} : array'[j] = array[j]
    BY <1>2, MoveSays
  <2>3. CASE shares
    <3>1. \A j \in 1 .. Len(list) : j \in DOMAIN array /\ array[j] \in Sub \cap known
      BY <1>0, <2>3 DEF Walk, Slice
    <3>3. \A j \in 1 .. Len(list) : array'[j] \in Sub \cap known
      BY <2>2, <3>1
    <3>4. Len(list) <= Len(array')
      BY <2>2, <2>3 DEF Walk
    <3>5. /\ list' \in Seq(Sub) /\ Len(list') = Len(list)
          /\ \A j \in 1 .. Len(list) : list'[j] = array'[j]
      BY <1>0, <2>1, <2>2, <2>3, <3>3, <3>4 DEF Seen
    <3>6. DOMAIN list' = 1 .. Len(list)
      BY <3>5
    <3> QED
      BY <2>1, <2>3, <3>3, <3>4, <3>5, <3>6 DEF Walk
  <2>4. CASE ~shares
    BY <2>1, <2>4 DEF Walk, Seen
  <2> QED
    BY <2>3, <2>4
<1>3. CASE Take
  <2>1. /\ list' = Cells(len) /\ next' = 1 /\ shares' = TRUE /\ array' = array
        /\ broadcast' = "loop" /\ publishing' = publishing + 1 /\ publishing < MaxValue
    BY <1>3 DEF Take, slice
  <2>2. len <= Len(array)
    BY DEF Slice
  <2>3. publishing' \in Value /\ publishing' \in 0 .. MaxValue
    BY <2>1, Bounds DEF Walk, Value
  <2>4. /\ list' \in Seq(Sub) /\ Len(list') = len
        /\ \A i \in 1 .. len : list'[i] = array[i]
    BY <2>1, CellsType
  <2>5. next' \in 1 .. Len(list') + 1
    BY <2>1, <2>4 DEF Slice
  <2>6. \A i \in DOMAIN list' : list'[i] \in known'
    <3>1. known' = known /\ DOMAIN list' = 1 .. len /\ \A i \in 1 .. len : i \in DOMAIN array
      BY <1>3, <2>2, <2>4 DEF Take, Slice
    <3> QED
      BY <2>4, <3>1, Bounds DEF Slice
  <2> QED
    BY <2>1, <2>2, <2>3, <2>4, <2>5, <2>6 DEF Walk
<1>4. CASE Hand
  BY <1>0, <1>4 DEF Hand, HandWhen, slice, Walk
<1>5. CASE Done
  <2>1. /\ broadcast' = "select" /\ list' = <<>> /\ next' = 1 /\ shares' = FALSE
        /\ publishing' = publishing
    BY <1>5 DEF Done, DoneWhen
  <2>2. list' \in Seq(Sub) /\ Len(list') = 0 /\ DOMAIN list' = {} /\ next' \in 1 .. Len(list') + 1
    BY <2>1
  <2> QED
    BY <2>1, <2>2 DEF Walk
<1>6. CASE Close
  BY <1>6 DEF Close, slice, Walk
<1>7. CASE UNCHANGED <<array, loop, known>>
  BY <1>7 DEF loop, Walk
<1> QED
  BY <1>1, <1>2, <1>3, <1>4, <1>5, <1>6, <1>7 DEF Next, Read, remove, removeAt, Removed, slice, vars

LEMMA CountsStep == Slice /\ Walk /\ Counts /\ [Next]_vars => Counts'
<1> SUFFICES ASSUME Slice, Walk, Counts, [Next]_vars PROVE Counts'
  OBVIOUS
<1> USE DEF Counts
<1>1. ASSUME NEW s \in Sub, add(s) PROVE Counts'
  BY <1>1 DEF add, handed, history
<1>2. ASSUME NEW s \in Sub, remove(s) PROVE Counts'
  <2>1. UNCHANGED <<waiting, got, present>>
    BY <1>2 DEF remove, removeAt, handed
  <2>2. PICK k : Disturb(k)
    BY <1>2 DEF remove
  <2>3. CASE broadcast = "loop"
    <3>1. /\ publishing \in Value /\ removals' = [removals EXCEPT ![publishing] = @ + 1]
          /\ spared' = [spared EXCEPT ![publishing] = @ \cap {array[i] : i \in 1 .. k - 1}]
      BY <2>2, <2>3 DEF Disturb, Walk
    <3>2. removals' \in [Value -> Nat]
      BY <3>1
    <3>3. spared' \in [Value -> SUBSET Sub]
      BY <3>1
    <3> QED
      BY <2>1, <3>2, <3>3
  <2>4. CASE broadcast # "loop"
    BY <2>1, <2>2, <2>4 DEF Disturb
  <2> QED
    BY <2>3, <2>4
<1>3. CASE Take
  <2>0. Subscribers = {array[i] : i \in 1 .. len}
    BY SubscribersAre
  <2>1. Subscribers \in SUBSET Sub
    BY <2>0 DEF Slice
  <2>2. present' = [present EXCEPT ![publishing'] = Subscribers]
    BY <1>3 DEF Take
  <2>3. present' \in [Value -> SUBSET Sub]
    BY <2>1, <2>2
  <2>4. UNCHANGED <<waiting, got, removals>>
    BY <1>3 DEF Take, handed
  <2>5. spared' = [spared EXCEPT ![publishing'] = Subscribers]
    BY <1>3 DEF Take
  <2>6. spared' \in [Value -> SUBSET Sub]
    BY <2>1, <2>5
  <2> QED
    BY <2>3, <2>4, <2>6
<1>4. CASE Hand
  <2>1. /\ waiting' = [waiting EXCEPT ![list[next]][publishing] = @ + 1] /\ publishing \in Value
        /\ UNCHANGED <<got, history>> /\ next \in 1 .. Len(list)
    BY <1>4 DEF Hand, HandWhen, Walk
  <2>2. list[next] \in Sub
    BY <2>1 DEF Walk
  <2>3. [waiting[list[next]] EXCEPT ![publishing] = @ + 1] \in [Value -> Nat]
    BY <2>1, <2>2
  <2>4. waiting' \in [Sub -> [Value -> Nat]]
    <3> DEFINE w == [waiting[list[next]] EXCEPT ![publishing] = @ + 1]
    <3>1. waiting' = [waiting EXCEPT ![list[next]] = w]
      BY <2>1
    <3> HIDE DEF w
    <3> QED
      BY <2>2, <2>3, <3>1 DEF w
  <2> QED
    BY <2>1, <2>4 DEF history
<1>5. CASE Done \/ Close \/ Move \/ Removed
  BY <1>5 DEF Done, DoneWhen, Close, Move, Removed, handed, history
<1>6. ASSUME NEW s \in Sub, Read(s) PROVE Counts'
  <2>1. PICK v \in Value : /\ waiting[s][v] > 0
                           /\ waiting' = [waiting EXCEPT ![s][v] = @ - 1]
                           /\ got' = [got EXCEPT ![s][v] = @ + 1]
    BY <1>6 DEF Read
  <2>2. /\ [waiting[s] EXCEPT ![v] = @ - 1] \in [Value -> Nat]
        /\ [got[s] EXCEPT ![v] = @ + 1] \in [Value -> Nat]
    BY <2>1
  <2>3. waiting' \in [Sub -> [Value -> Nat]] /\ got' \in [Sub -> [Value -> Nat]]
    BY <2>1, <2>2
  <2> QED
    BY <1>6, <2>3 DEF Read, history
<1>7. CASE UNCHANGED <<handed, history>>
  BY <1>7 DEF handed, history
<1> QED
  BY <1>1, <1>2, <1>3, <1>4, <1>5, <1>6, <1>7 DEF Next, vars

LEMMA IsTyped == Spec => []Typed
<1>1. Init => Typed
  <2> SUFFICES ASSUME Init PROVE Typed
    OBVIOUS
  <2>1. <<>> \in Seq(Sub \cup {NULL}) /\ <<>> \in Seq(Sub) /\ Len(<<>>) = 0
    OBVIOUS
  <2>2. Slice
    <3>1. DOMAIN array = {} /\ DOMAIN pending = {} /\ Unlocked /\ Live = 0
      BY DEF Init, Unlocked, Live
    <3> QED
      BY <2>1, <3>1 DEF Init, Slice
  <2>3. Walk
    <3>1. next \in 1 .. Len(list) + 1
      BY <2>1 DEF Init
    <3>2. publishing \in 0 .. MaxValue
      BY Bounds DEF Init
    <3>3. broadcast = "select" /\ list \in Seq(Sub) /\ DOMAIN list = {} /\ shares = FALSE
      BY <2>1 DEF Init
    <3> QED
      BY <3>1, <3>2, <3>3 DEF Walk
  <2>4. Counts
    BY DEF Init, Counts
  <2> QED
    BY <2>2, <2>3, <2>4 DEF Typed
<1>2. Typed /\ [Next]_vars => Typed'
  BY SliceStep, WalkStep, CountsStep DEF Typed
<1> QED
  BY <1>1, <1>2, PTL DEF Spec

\* The types of the publisher, for any number of subscribers and values: whatever
\* is added and removed while it goes on, broadcast never meets an empty cell.
THEOREM TypeCorrect == Spec => []TypeOK
<1>1. Typed => TypeOK
  BY DEF Typed, Slice, Walk, Counts, TypeOK
<1> QED
  BY <1>1, IsTyped, PTL

-----------------------------------------------------------------------------
\* A value not yet taken was sent to nobody.  While a value is broadcast and nobody
\* is removed, the cells it goes through stay within the subscribers' slice, so adds
\* do not reach them: they remain the subscribers of the moment, each once, and
\* those before the next cell have been sent it.

Sent(v, S) == \A s \in Sub : sends(s, v) = IF s \in S THEN 1 ELSE 0

Before(k) == {list[i] : i \in 1 .. k - 1}

Steady ==
  broadcast = "loop" /\ removals[publishing] = 0 =>
    /\ \A i, j \in 1 .. Len(list) : list[i] = list[j] => i = j
    /\ present[publishing] = Before(Len(list) + 1)
    /\ Unlocked
    /\ shares => Len(list) <= len
    /\ Sent(publishing, Before(next))

Untaken == \A v \in Value : v > publishing => removals[v] = 0 /\ Sent(v, {})

Exact == Untaken /\ Steady /\ ExactlyOnce

\* Sends change only when broadcast hands a value out: reading one moves it.
LEMMA SendsStay ==
  ASSUME Counts, [Next]_vars, ~Hand, NEW s \in Sub, NEW v \in Value
  PROVE  sends(s, v)' = sends(s, v)
<1>1. CASE UNCHANGED handed
  BY <1>1 DEF handed, sends
<1>2. ASSUME NEW t \in Sub, Read(t) PROVE sends(s, v)' = sends(s, v)
  <2>1. PICK w \in Value : /\ waiting[t][w] > 0
                           /\ waiting' = [waiting EXCEPT ![t][w] = @ - 1]
                           /\ got' = [got EXCEPT ![t][w] = @ + 1]
    BY <1>2 DEF Read
  <2>2. /\ waiting'[s][v] = IF s = t /\ v = w THEN waiting[s][v] - 1 ELSE waiting[s][v]
        /\ got'[s][v] = IF s = t /\ v = w THEN got[s][v] + 1 ELSE got[s][v]
    BY <2>1 DEF Counts
  <2>3. waiting[s][v] \in Nat /\ got[s][v] \in Nat
    BY DEF Counts
  <2> QED
    BY <2>2, <2>3 DEF sends
<1> QED
  BY <1>1, <1>2 DEF Next, add, remove, removeAt, Move, Removed, Take, Done, DoneWhen, Close, vars

LEMMA HandSends ==
  ASSUME Walk, Counts, Hand, NEW s \in Sub, NEW v \in Value
  PROVE  /\ list[next] \in Sub /\ next \in 1 .. Len(list)
         /\ sends(s, v)' = IF s = list[next] /\ v = publishing THEN sends(s, v) + 1
                                                              ELSE sends(s, v)
<1>1. /\ waiting' = [waiting EXCEPT ![list[next]][publishing] = @ + 1] /\ publishing \in Value
      /\ got' = got /\ next \in 1 .. Len(list)
  BY DEF Hand, HandWhen, Walk
<1>2. list[next] \in Sub
  BY <1>1 DEF Walk
<1>3. waiting'[s][v] = IF s = list[next] /\ v = publishing THEN waiting[s][v] + 1 ELSE waiting[s][v]
  BY <1>1, <1>2 DEF Counts
<1>4. waiting[s][v] \in Nat /\ got[s][v] \in Nat
  BY DEF Counts
<1> QED
  BY <1>1, <1>2, <1>3, <1>4 DEF sends

LEMMA SentStays ==
  ASSUME Counts, [Next]_vars, ~Hand, NEW v \in Value, NEW S, Sent(v, S)
  PROVE  \A s \in Sub : sends(s, v)' = IF s \in S THEN 1 ELSE 0
  BY SendsStay DEF Sent

LEMMA UntakenStep == Walk /\ Counts /\ Untaken /\ [Next]_vars => Untaken'
<1> SUFFICES ASSUME Walk, Counts, Untaken, [Next]_vars, NEW v \in Value, v > publishing'
             PROVE  removals'[v] = 0 /\ \A s \in Sub : sends(s, v)' = 0
  BY DEF Untaken, Sent
<1>1. publishing' >= publishing /\ publishing \in Nat /\ publishing' \in Nat
  BY Bounds DEF Walk, Next, add, remove, removeAt, Move, Removed, Take, Hand, HandWhen, Done, DoneWhen, Close, Read, loop, vars
<1>2. v > publishing /\ v # publishing
  BY <1>1 DEF Value
<1>3. removals[v] = 0 /\ \A s \in Sub : sends(s, v) = 0
  BY <1>2 DEF Untaken, Sent
<1>4. removals'[v] = removals[v]
  <2>1. ASSUME NEW s \in Sub, remove(s) PROVE removals'[v] = removals[v]
    BY <1>2, <2>1 DEF Counts, remove, Disturb
  <2>2. CASE removals' = removals
    BY <2>2
  <2> QED
    BY <2>1, <2>2 DEF Next, add, Move, Removed, Take, Hand, HandWhen, Done, DoneWhen, Close, Read,
                      history, vars
<1>5. ASSUME NEW s \in Sub PROVE sends(s, v)' = sends(s, v)
  <2>1. CASE Hand
    BY <1>2, <2>1, HandSends
  <2>2. CASE ~Hand
    BY <2>2, SendsStay
  <2> QED
    BY <2>1, <2>2
<1> QED
  BY <1>3, <1>4, <1>5

\* A list whose cells and place do not change keeps what was handed out.
LEMMA SteadyStays ==
  ASSUME Slice, Walk, Counts, Steady, [Next]_vars, ~Hand,
         UNCHANGED <<broadcast, publishing, next, leaving>>,
         removals'[publishing] = 0 => removals[publishing] = 0,
         present'[publishing] = present[publishing],
         broadcast = "loop" /\ removals[publishing] = 0 =>
           list' = list /\ (shares' => Len(list) <= len')
  PROVE  Steady'
<1> SUFFICES ASSUME broadcast = "loop", removals'[publishing] = 0 PROVE Steady'
  BY DEF Steady
<1>1. publishing \in Value
  BY DEF Walk
<1>2. Sent(publishing, Before(next))
  BY DEF Steady
<1>3. \A s \in Sub : sends(s, publishing)' = IF s \in Before(next) THEN 1 ELSE 0
  BY <1>1, <1>2, SentStays
<1>4. list' = list /\ (Before(next))' = Before(next)
      /\ Before(Len(list) + 1)' = Before(Len(list) + 1)
  BY DEF Before
<1> QED
  BY <1>3, <1>4 DEF Steady, Sent, Unlocked

LEMMA SteadyStep == Slice /\ Walk /\ Counts /\ Untaken /\ Steady /\ [Next]_vars => Steady'
<1> SUFFICES ASSUME Slice, Walk, Counts, Untaken, Steady, [Next]_vars PROVE Steady'
  OBVIOUS
<1>0. Len(list) \in Nat /\ DOMAIN list = 1 .. Len(list)
  BY DEF Walk
<1>1. ASSUME NEW s \in Sub, add(s), ~Hand PROVE Steady'
  <2>1. UNCHANGED <<broadcast, publishing, next, leaving, removals, present>>
    BY <1>1 DEF add, history
  <2>2. ASSUME broadcast = "loop", removals[publishing] = 0
        PROVE  list' = list /\ (shares' => Len(list) <= len')
    <3>1. CASE shares'
      <4>1. /\ shares /\ Len(array') = Len(array) /\ array' \in Seq(Sub \cup {NULL})
            /\ \A i \in 1 .. len : array'[i] = array[i]
            /\ len' = len + 1 /\ list' = SubSeq(array', 1, Len(list))
        BY <1>1, <3>1, AddSays
      <4>2. Len(list) <= len /\ len \in Nat
        BY <2>2, <4>1 DEF Steady, Slice
      <4>3. \A i \in 1 .. Len(list) : array'[i] = list[i]
        BY <1>0, <4>1, <4>2 DEF Walk
      <4>4. Len(list) <= Len(array')
        BY <4>1 DEF Walk
      <4>5. /\ list' \in Seq(Sub \cup {NULL}) /\ Len(list') = Len(list)
            /\ \A i \in 1 .. Len(list) : list'[i] = array'[i]
        BY <1>0, <4>1, <4>4
      <4>6. list' = list
        BY <4>3, <4>5 DEF Walk
      <4> QED
        BY <1>0, <4>1, <4>2, <4>6
    <3>2. CASE ~shares'
      BY <1>1, <3>2, AddSays
    <3> QED
      BY <3>1, <3>2
  <2> QED
    BY <1>1, <2>1, <2>2, SteadyStays
<1>2. ASSUME NEW s \in Sub, remove(s) PROVE Steady'
  <2>1. broadcast' = broadcast /\ publishing' = publishing
    BY <1>2 DEF remove, removeAt, loop
  <2>2. broadcast = "loop" => removals'[publishing] = removals[publishing] + 1 /\ removals[publishing] \in Nat
    BY <1>2 DEF remove, Disturb, Walk, Counts
  <2> QED
    BY <2>1, <2>2 DEF Steady
<1>3. CASE Take
  <2>1. /\ publishing' = publishing + 1 /\ publishing < MaxValue /\ list' = Cells(len) /\ next' = 1
        /\ present' = [present EXCEPT ![publishing'] = Subscribers]
        /\ UNCHANGED <<array, len, leaving, removals, waiting, got>> /\ Unlocked
    BY <1>3 DEF Take, slice, handed
  <2>2. publishing + 1 \in Value
    BY <2>1, Bounds DEF Walk, Value
  <2>3. /\ list' \in Seq(Sub) /\ Len(list') = len
        /\ \A i \in 1 .. len : list'[i] = array[i]
    BY <2>1, CellsType
  <2>4. present'[publishing + 1] = {array[i] : i \in 1 .. len}
    BY <2>1, <2>2, SubscribersAre DEF Counts
  <2>5. len \in Nat
    BY DEF Slice
  <2>6. {array[i] : i \in 1 .. len} = {list'[i] : i \in 1 .. len}
    BY <2>3
  <2>7. Before(Len(list) + 1)' = {list'[i] : i \in 1 .. len}
    BY <2>3, <2>5 DEF Before
  <2>8. \A i, j \in 1 .. Len(list') : list'[i] = list'[j] => i = j
    <3>1. DOMAIN pending = {} /\ Live = len
      BY <2>1 DEF Slice, Live
    <3>2. \A i, j \in 1 .. len : array[i] = array[j] => i = j
      BY <3>1 DEF Slice, Target
    <3> QED
      BY <2>3, <3>2
  <2>9. Before(next)' = {}
    BY <2>1 DEF Before
  <2>10. \A s \in Sub : sends(s, publishing + 1) = 0
    BY <2>2 DEF Untaken, Sent, Walk, Value
  <2>11. \A s \in Sub : sends(s, publishing)' = 0
    BY <2>1, <2>10 DEF sends
  <2>12. shares' => Len(list') <= len'
    BY <2>1, <2>3, <2>5
  <2> QED
    BY <2>1, <2>4, <2>6, <2>7, <2>8, <2>9, <2>11, <2>12 DEF Steady, Sent, Unlocked
<1>4. CASE Hand
  <2>1. UNCHANGED <<slice, broadcast, publishing, list, shares, history>> /\ next' = next + 1
        /\ broadcast = "loop"
    BY <1>4 DEF Hand, HandWhen
  <2>2. SUFFICES ASSUME removals[publishing] = 0 PROVE Steady'
    BY <2>1 DEF Steady, history
  <2>3. publishing \in Value /\ next \in 1 .. Len(list) /\ list[next] \in Sub
    BY <1>4, <2>1, HandSends DEF Walk, Hand, HandWhen
  <2>4. Before(next)' = Before(next) \cup {list[next]}
    <3>1. Before(next)' = {list[i] : i \in 1 .. next}
      BY <2>1, <2>3 DEF Before
    <3>2. \A i \in 1 .. next : i \in 1 .. next - 1 \/ i = next
      BY <2>3
    <3>3. 1 .. next - 1 \subseteq 1 .. next /\ next \in 1 .. next
      BY <2>3
    <3> QED
      BY <3>1, <3>2, <3>3 DEF Before
  <2>5. list[next] \notin Before(next)
    <3>1. \A i \in 1 .. next - 1 : i \in 1 .. Len(list) /\ i # next
      BY <1>0, <2>3
    <3>2. \A i \in 1 .. Len(list) : list[i] = list[next] => i = next
      BY <2>1, <2>2, <2>3 DEF Steady
    <3> QED
      BY <3>1, <3>2 DEF Before
  <2>6. \A s \in Sub : sends(s, publishing) = IF s \in Before(next) THEN 1 ELSE 0
    BY <2>1, <2>2 DEF Steady, Sent
  <2>7. \A s \in Sub : sends(s, publishing)' = IF s = list[next] THEN sends(s, publishing) + 1
                                                              ELSE sends(s, publishing)
    BY <1>4, <2>1, <2>3, HandSends DEF sends
  <2>8. \A s \in Sub : sends(s, publishing)' = IF s \in Before(next)' THEN 1 ELSE 0
    BY <2>4, <2>5, <2>6, <2>7
  <2>9. Before(Len(list) + 1)' = Before(Len(list) + 1)
    BY <2>1 DEF Before
  <2> QED
    BY <2>1, <2>2, <2>8, <2>9 DEF Steady, Sent, slice, history, Unlocked
<1>5. CASE Done \/ Close
  BY <1>5 DEF Done, DoneWhen, Close, Steady
<1>6. CASE (\E s \in Sub : Read(s)) \/ UNCHANGED vars
  <2>1. UNCHANGED <<slice, loop, history>>
    BY <1>6 DEF Read, vars
  <2>2. CASE Hand
    BY <1>4, <2>2
  <2>3. CASE ~Hand
    BY <2>1, <2>3, SteadyStays DEF slice, loop, history, Steady
  <2> QED
    BY <2>2, <2>3
<1>7. CASE Move \/ Removed
  <2>1. ~Unlocked /\ UNCHANGED <<broadcast, publishing, removals>>
    BY <1>7, MoveSays DEF Move, Removed, loop, history
  <2> QED
    BY <2>1 DEF Steady
<1> QED
  BY <1>1, <1>2, <1>3, <1>4, <1>5, <1>6, <1>7 DEF Next

\* Of a value whose broadcast is over nothing changes but who has read it.
LEMMA OverStays ==
  ASSUME Walk, Counts, [Next]_vars, NEW v \in Value, Over(v)
  PROVE  /\ removals'[v] = removals[v] /\ present'[v] = present[v] /\ spared'[v] = spared[v]
         /\ \A s \in Sub : sends(s, v)' = sends(s, v)
<1>0. v \in Nat /\ publishing \in Nat
  BY Bounds DEF Walk, Value
<1>1. removals'[v] = removals[v] /\ present'[v] = present[v] /\ spared'[v] = spared[v]
  <2>1. CASE \E s \in Sub : remove(s)
    BY <1>0, <2>1 DEF remove, removeAt, Disturb, Over, Counts
  <2>2. CASE Take
    <3>1. /\ present' = [present EXCEPT ![publishing + 1] = Subscribers]
          /\ spared' = [spared EXCEPT ![publishing + 1] = Subscribers]
          /\ removals' = removals /\ v # publishing + 1
      BY <1>0, <2>2 DEF Take, Over
    <3> QED
      BY <3>1 DEF Counts
  <2>3. CASE UNCHANGED history
    BY <2>3 DEF history
  <2> QED
    BY <2>1, <2>2, <2>3 DEF Next, add, Move, Removed, Hand, HandWhen, Done, DoneWhen, Close, Read, vars
<1>2. ASSUME NEW s \in Sub PROVE sends(s, v)' = sends(s, v)
  <2>1. CASE Hand
    <3>1. v # publishing
      BY <1>0, <2>1 DEF Over, Hand, HandWhen
    <3> QED
      BY <2>1, <3>1, HandSends
  <2> QED
    BY <2>1, SendsStay
<1> QED
  BY <1>1, <1>2

LEMMA IsOverNow ==
  ASSUME Walk, [Next]_vars, NEW v \in Value, Over(v)', ~Over(v)
  PROVE  Done /\ v = publishing /\ broadcast = "loop" /\ next = Len(list) + 1
<1>0. v \in Nat /\ publishing \in Nat
  BY Bounds DEF Walk, Value
<1>1. Done
  <2>1. CASE Take
    BY <1>0, <2>1 DEF Take, Over
  <2>2. CASE UNCHANGED <<broadcast, publishing>>
    BY <2>2 DEF Over
  <2>3. CASE Close
    BY <2>3 DEF Close, Over
  <2> QED
    BY <2>1, <2>2, <2>3 DEF Next, add, remove, removeAt, Move, Removed, Hand, HandWhen, Read, loop, vars
<1> QED
  BY <1>0, <1>1 DEF Done, DoneWhen, Over, Walk

LEMMA ExactlyOnceStep ==
  Slice /\ Walk /\ Counts /\ Steady /\ ExactlyOnce /\ [Next]_vars => ExactlyOnce'
<1> SUFFICES ASSUME Slice, Walk, Counts, Steady, ExactlyOnce, [Next]_vars,
                    NEW v \in Value, Over(v)', removals'[v] = 0
             PROVE  \A s \in Sub : sends(s, v)' = IF s \in present'[v] THEN 1 ELSE 0
  BY DEF ExactlyOnce
<1>1. CASE Over(v)
  <2>1. /\ removals'[v] = removals[v] /\ present'[v] = present[v]
        /\ \A s \in Sub : sends(s, v)' = sends(s, v)
    BY <1>1, OverStays
  <2> QED
    BY <1>1, <2>1 DEF ExactlyOnce
<1>2. CASE ~Over(v)
  <2>1. Done /\ v = publishing /\ broadcast = "loop" /\ next = Len(list) + 1
    BY <1>2, IsOverNow
  <2>2. UNCHANGED <<handed, history>>
    BY <2>1 DEF Done, DoneWhen
  <2>3. \A s \in Sub : sends(s, v) = IF s \in present[v] THEN 1 ELSE 0
    BY <2>1, <2>2 DEF Steady, Sent, history
  <2> QED
    BY <2>2, <2>3 DEF sends, handed, history
<1> QED
  BY <1>1, <1>2

\* A broadcast that meets no removal sends its value to each of the subscribers of
\* its start once and to nobody else, for any number of subscribers, values and
\* adds meanwhile (pkg/dcgm/bcast.go:67-80).
THEOREM SentExactlyOnce == Spec => []ExactlyOnce
<1>1. Init => Exact
  <2> SUFFICES ASSUME Init PROVE Exact
    OBVIOUS
  <2>1. \A v \in Value : removals[v] = 0 /\ \A s \in Sub : sends(s, v) = 0
    BY DEF Init, sends
  <2>2. \A v \in Value : present[v] = {}
    BY DEF Init
  <2>3. Steady
    BY DEF Init, Steady
  <2> QED
    BY <2>1, <2>2, <2>3 DEF Exact, Untaken, Sent, ExactlyOnce
<1>2. Typed /\ Exact /\ [Next]_vars => Exact'
  BY UntakenStep, SteadyStep, ExactlyOnceStep DEF Typed, Exact
<1>3. Exact => ExactlyOnce
  BY DEF Exact
<1> QED
  BY <1>1, <1>2, <1>3, IsTyped, PTL DEF Spec

-----------------------------------------------------------------------------
\* With removals.  A spared subscriber is alone in one cell of the list, before every
\* gap, and nothing that is pending concerns that cell or names him.  Of anyone else, what he
\* was sent and the cells ahead in which broadcast may still meet him are together at
\* most one more than the removals: closing a gap puts him in one cell more.

Met == \A s \in Sub \ known : \A v \in Value : sends(s, v) = 0

Alone(s, i) == \A j \in 1 .. Len(list) : list[j] = s <=> j = i

Out(i, s) ==
  shares => /\ i <= Live /\ i \notin DOMAIN pending
            /\ \A j \in DOMAIN pending : pending[j] # s

Spared ==
  broadcast = "loop" => \A s \in spared[publishing] : \E i \in 1 .. Len(list) :
    /\ Alone(s, i) /\ Out(i, s)
    /\ sends(s, publishing) = IF i < next THEN 1 ELSE 0

Meets(s, i) == list[i] = s \/ (shares /\ i \in DOMAIN pending /\ pending[i] = s)
Ahead(s) == {i \in next .. Len(list) : Meets(s, i)}

Served ==
  broadcast = "loop" => \A s \in Sub :
    sends(s, publishing) + Cardinality(Ahead(s)) <= removals[publishing] + 1

Harm == Untaken /\ Met /\ Spared /\ Served /\ HarmBounded

LEMMA AheadFinite ==
  ASSUME Walk, NEW s
  PROVE  IsFiniteSet(Ahead(s)) /\ Cardinality(Ahead(s)) \in Nat
<1>1. IsFiniteSet(next .. Len(list)) /\ Ahead(s) \subseteq next .. Len(list)
  BY FS_Interval DEF Walk, Ahead
<1> QED
  BY <1>1, FS_Subset, FS_CardinalityType

LEMMA AtMostOne ==
  ASSUME NEW S, NEW a, S \subseteq {a}
  PROVE  IsFiniteSet(S) /\ Cardinality(S) \in Nat /\ Cardinality(S) <= 1
<1>1. IsFiniteSet({a}) /\ Cardinality({a}) = 1
  BY FS_Singleton
<1> QED
  BY <1>1, FS_Subset, FS_CardinalityType

\* What a list that may only lose cells in which s is met has ahead.
LEMMA AheadShrinks ==
  ASSUME Walk, NEW s, NEW S, S \subseteq Ahead(s)
  PROVE  IsFiniteSet(S) /\ Cardinality(S) \in Nat /\ Cardinality(S) <= Cardinality(Ahead(s))
  BY AheadFinite, FS_Subset, FS_CardinalityType

\* The slice keeps its length until the broadcast is over.
LEMMA ListStays ==
  ASSUME Slice, Walk, (\E s \in Sub : add(s)) \/ Move
  PROVE  /\ UNCHANGED <<broadcast, publishing, next>>
         /\ Len(list') = Len(list)
         /\ shares' => shares /\ \A i \in 1 .. Len(list) : list'[i] = array'[i]
         /\ ~shares' => list' = list
<1>1. /\ list' = IF shares' THEN SubSeq(array', 1, Len(list)) ELSE list
      /\ shares' => shares /\ Len(array') = Len(array)
      /\ array' \in Seq(Sub \cup {NULL})
      /\ UNCHANGED <<broadcast, publishing, next>>
  <2>1. ASSUME NEW s \in Sub, add(s)
        PROVE  /\ list' = IF shares' THEN SubSeq(array', 1, Len(list)) ELSE list
               /\ shares' => shares /\ Len(array') = Len(array)
               /\ array' \in Seq(Sub \cup {NULL})
               /\ UNCHANGED <<broadcast, publishing, next>>
    BY <2>1, AddSays DEF add
  <2>2. CASE Move
    BY <2>2, MoveSays DEF Move, Seen
  <2> QED
    BY <2>1, <2>2
<1>2. CASE shares'
  <2>1. Len(list) \in Nat /\ Len(list) <= Len(array')
    BY <1>1, <1>2 DEF Walk
  <2> QED
    BY <1>1, <1>2, <2>1
<1> QED
  BY <1>1, <1>2

LEMMA MetStep == Slice /\ Walk /\ Counts /\ Met /\ [Next]_vars => Met'
<1> SUFFICES ASSUME Slice, Walk, Counts, Met, [Next]_vars,
                    NEW s \in Sub \ known', NEW v \in Value
             PROVE  sends(s, v)' = 0
  BY DEF Met
<1>1. known \subseteq known'
  BY DEF Next, add, remove, removeAt, Move, Removed, Take, Hand, HandWhen, Done, DoneWhen,
         Close, Read, vars
<1>2. sends(s, v) = 0
  BY <1>1 DEF Met
<1>3. CASE Hand
  <2>1. list[next] \in known /\ known' = known
    BY <1>3, HandSends DEF Walk, Hand, HandWhen
  <2> QED
    BY <1>2, <1>3, <2>1, HandSends
<1>4. CASE ~Hand
  BY <1>2, <1>4, SendsStay
<1> QED
  BY <1>3, <1>4

LEMMA SparedStep == Slice /\ Walk /\ Counts /\ Untaken /\ Met /\ Spared /\ [Next]_vars => Spared'
<1> SUFFICES ASSUME Slice, Walk, Counts, Untaken, Met, Spared, [Next]_vars, broadcast' = "loop",
                    NEW s \in spared'[publishing']
             PROVE  \E i \in 1 .. Len(list') :
                      /\ Alone(s, i)' /\ Out(i, s)'
                      /\ sends(s, publishing)' = IF i < next' THEN 1 ELSE 0
  BY DEF Spared
<1> DEFINE Goal == \E i \in 1 .. Len(list') :
                      /\ Alone(s, i)' /\ Out(i, s)'
                      /\ sends(s, publishing)' = IF i < next' THEN 1 ELSE 0
           Was(i) == /\ Alone(s, i) /\ Out(i, s)
                     /\ sends(s, publishing) = IF i < next THEN 1 ELSE 0
<1>0. /\ Len(list) \in Nat /\ DOMAIN list = 1 .. Len(list) /\ len \in Nat /\ len <= Len(array)
      /\ next \in Nat /\ DOMAIN array = 1 .. Len(array) /\ DOMAIN pending \subseteq 1 .. len - 1
  BY DEF Walk, Slice
<1>1. ASSUME NEW t, (t \in Sub /\ add(t)) \/ Move PROVE Goal
  <2>1. /\ UNCHANGED <<broadcast, publishing, next, spared>>
        /\ Len(list') = Len(list)
        /\ shares' => shares /\ \A i \in 1 .. Len(list) : list'[i] = array'[i]
        /\ ~shares' => list' = list
    BY <1>1, ListStays DEF add, Move, history
  <2>2. publishing \in Value /\ s \in spared[publishing] /\ s \in Sub
    BY <2>1 DEF Walk, Counts
  <2>3. PICK i \in 1 .. Len(list) : Was(i)
    BY <2>1, <2>2 DEF Spared
  <2>4. ~Hand
    BY <1>1, <1>0 DEF add, Move, Hand, HandWhen
  <2>5. sends(s, publishing)' = sends(s, publishing)
    BY <2>1, <2>2, <2>4, SendsStay DEF sends
  <2>6. CASE ~shares'
    BY <2>1, <2>3, <2>5, <2>6 DEF Alone, Out
  <2>7. CASE shares' /\ t \in Sub /\ add(t)
    <3>1. /\ len' = len + 1 /\ Unlocked /\ UNCHANGED <<leaving, pending>> /\ t \notin known
          /\ Live = len /\ Live' = len + 1 /\ DOMAIN pending = {}
      BY <2>7 DEF add, Slice, Live, Unlocked
    <3>2. array'[len + 1] = t /\ \A j \in DOMAIN array \ {len + 1} : array'[j] = array[j]
      BY <2>7, <3>1, AddSays
    <3>3. \A j \in 1 .. Len(list) : j \in DOMAIN array /\ array[j] = list[j]
      BY <1>0, <2>1, <2>7 DEF Walk
    <3>4. list[i] = s /\ s # t /\ i <= len
      BY <1>0, <2>1, <2>3, <2>7, <3>1 DEF Alone, Out, Walk
    <3>5. Alone(s, i)'
      BY <1>0, <2>1, <2>3, <2>7, <3>2, <3>3, <3>4 DEF Alone
    <3> QED
      BY <1>0, <2>1, <2>3, <2>5, <3>1, <3>4, <3>5 DEF Out
  <2>8. CASE shares' /\ Move
    <3>1. PICK c \in DOMAIN pending :
           /\ array'[c] = pending[c]
           /\ \A j \in DOMAIN array \ {c} : array'[j] = array[j]
           /\ DOMAIN pending' = DOMAIN pending \ {c}
           /\ \A j \in DOMAIN pending' : pending'[j] = pending[j]
      BY <2>8, MoveSays
    <3>2. c # i /\ pending[c] # s
      BY <2>1, <2>3, <2>8 DEF Out
    <3>3. \A j \in 1 .. Len(list) : j \in DOMAIN array /\ array[j] = list[j]
      BY <1>0, <2>1, <2>8 DEF Walk
    <3>4. Alone(s, i)'
      BY <2>1, <2>3, <2>8, <3>1, <3>2, <3>3 DEF Alone
    <3>5. Live' = Live
      BY <2>8 DEF Move, Live, Unlocked
    <3> QED
      BY <2>1, <2>3, <2>5, <3>1, <3>4, <3>5 DEF Out
  <2> QED
    BY <1>1, <2>6, <2>7, <2>8
<1>2. ASSUME NEW t \in Sub, remove(t) PROVE Goal
  <2>1. PICK k \in 1 .. len :
          /\ array[k] = t /\ Unlocked /\ ~Unlocked'
          /\ pending' = [j \in k .. len - 1 |-> array[j + 1]]
          /\ Disturb(k)
    BY <1>2, RemoveSays
  <2>2. UNCHANGED <<array, len, loop, handed>>
    BY <1>2 DEF remove, removeAt
  <2>3. UNCHANGED <<broadcast, publishing, list, next, shares>> /\ publishing \in Value
    BY <2>2 DEF loop, Walk
  <2>4. spared'[publishing] = spared[publishing] \cap {array[j] : j \in 1 .. k - 1}
    BY <2>1, <2>3 DEF Disturb, Counts
  <2>5. s \in spared[publishing] /\ s \in {array[j] : j \in 1 .. k - 1}
    BY <2>3, <2>4
  <2>6. PICK m \in 1 .. k - 1 : array[m] = s
    BY <2>5
  <2>7. PICK i \in 1 .. Len(list) : Was(i)
    BY <2>3, <2>5 DEF Spared
  <2>8. Live = len /\ Live' = len - 1 /\ DOMAIN pending = {}
    BY <2>1, <2>2 DEF Live, Slice
  <2>9. \A a, b \in 1 .. len : array[a] = array[b] => a = b
    BY <2>8 DEF Slice, Target
  <2>10. Out(i, s)'
    <3> SUFFICES ASSUME shares
                 PROVE  /\ i <= Live' /\ i \notin DOMAIN pending'
                        /\ \A j \in DOMAIN pending' : pending'[j] # s
      BY <2>3 DEF Out
    <3>1. i \in 1 .. len /\ array[i] = s /\ m \in 1 .. len
      BY <1>0, <2>6, <2>7, <2>8 DEF Out, Alone, Walk
    <3>2. i = m
      BY <2>6, <2>9, <3>1
    <3>3. \A j \in k .. len - 1 : j + 1 \in 1 .. len /\ j + 1 # m
      BY <1>0, <2>6
    <3> QED
      BY <1>0, <2>1, <2>6, <2>8, <2>9, <3>1, <3>2, <3>3
  <2> QED
    BY <2>2, <2>3, <2>7, <2>10 DEF Alone, sends, handed
<1>3. CASE Removed
  <2>1. UNCHANGED <<array, pending, loop, handed, spared>> /\ Live' = Live
    BY <1>3 DEF Removed, Live, Unlocked, history
  <2>2. UNCHANGED <<broadcast, publishing, list, next, shares>> /\ s \in spared[publishing]
    BY <2>1 DEF loop
  <2>3. PICK i \in 1 .. Len(list) : Was(i)
    BY <2>2 DEF Spared
  <2> QED
    BY <2>1, <2>2, <2>3 DEF Alone, Out, sends, handed
<1>4. CASE Take
  <2>1. /\ publishing' = publishing + 1 /\ publishing < MaxValue /\ list' = Cells(len) /\ next' = 1
        /\ spared' = [spared EXCEPT ![publishing'] = Subscribers]
        /\ UNCHANGED <<array, len, leaving, pending, waiting, got>> /\ Unlocked
    BY <1>4 DEF Take, slice, handed
  <2>2. publishing + 1 \in Value
    BY <2>1, Bounds DEF Walk, Value
  <2>3. Len(list') = len /\ \A j \in 1 .. len : list'[j] = array[j]
    BY <2>1, CellsType
  <2>4. s \in {array[j] : j \in 1 .. len}
    BY <2>1, <2>2, SubscribersAre DEF Counts
  <2>5. PICK i \in 1 .. len : array[i] = s
    BY <2>4
  <2>6. DOMAIN pending' = {} /\ Live = len /\ Live' = len
    BY <2>1 DEF Slice, Live, Unlocked
  <2>7. \A a, b \in 1 .. len : array[a] = array[b] => a = b
    BY <2>1, <2>6 DEF Slice, Target
  <2>8. s \in Sub
    BY <2>5 DEF Slice
  <2>9. sends(s, publishing + 1) = 0
    BY <2>2, <2>8 DEF Untaken, Sent, Walk, Value
  <2>10. sends(s, publishing)' = 0
    BY <2>1, <2>9 DEF sends
  <2>11. Alone(s, i)' /\ Out(i, s)'
    BY <2>3, <2>5, <2>6, <2>7 DEF Alone, Out
  <2> QED
    BY <2>1, <2>3, <2>5, <2>10, <2>11
<1>5. CASE Hand
  <2>1. UNCHANGED <<slice, broadcast, publishing, list, shares, spared>> /\ next' = next + 1
    BY <1>5 DEF Hand, HandWhen, history
  <2>2. s \in spared[publishing] /\ publishing \in Value /\ s \in Sub /\ next \in 1 .. Len(list)
    BY <1>5, <2>1, HandSends DEF Walk, Counts
  <2>3. PICK i \in 1 .. Len(list) : Was(i)
    BY <2>1, <2>2 DEF Spared
  <2>4. sends(s, publishing)' = IF s = list[next] THEN sends(s, publishing) + 1
                                                  ELSE sends(s, publishing)
    BY <1>5, <2>1, <2>2, HandSends DEF sends
  <2>5. s = list[next] <=> next = i
    BY <2>2, <2>3 DEF Alone
  <2>6. sends(s, publishing)' = IF i < next + 1 THEN 1 ELSE 0
    BY <1>0, <2>3, <2>4, <2>5
  <2>7. Alone(s, i)' /\ Out(i, s)'
    BY <2>1, <2>3 DEF Alone, Out, slice, Live, Unlocked
  <2> QED
    BY <2>1, <2>3, <2>6, <2>7
<1>6. CASE Done \/ Close
  BY <1>6 DEF Done, DoneWhen, Close
<1>7. CASE ~Hand /\ ((\E t \in Sub : Read(t)) \/ UNCHANGED vars)
  <2>1. UNCHANGED <<slice, loop, history>>
    BY <1>7 DEF Read, vars
  <2>2. /\ UNCHANGED <<broadcast, publishing, list, next, shares, array, len, leaving, pending>>
        /\ s \in spared[publishing] /\ publishing \in Value /\ s \in Sub
    BY <2>1 DEF loop, slice, history, Walk, Counts
  <2>3. PICK i \in 1 .. Len(list) : Was(i)
    BY <2>2 DEF Spared
  <2>4. sends(s, publishing)' = sends(s, publishing)
    BY <1>7, <2>2, SendsStay DEF sends
  <2>5. Alone(s, i)' /\ Out(i, s)'
    BY <2>2, <2>3 DEF Alone, Out, Live, Unlocked
  <2> QED
    BY <2>2, <2>3, <2>4, <2>5
<1> QED
  BY <1>1, <1>2, <1>3, <1>4, <1>5, <1>6, <1>7 DEF Next

LEMMA ServedStep == Slice /\ Walk /\ Counts /\ Untaken /\ Met /\ Served /\ [Next]_vars => Served'
<1> SUFFICES ASSUME Slice, Walk, Counts, Untaken, Met, Served, [Next]_vars, broadcast' = "loop",
                    NEW s \in Sub
             PROVE  sends(s, publishing)' + Cardinality(Ahead(s)') <= removals'[publishing'] + 1
  BY DEF Served
<1> DEFINE Goal == sends(s, publishing)' + Cardinality(Ahead(s)') <= removals'[publishing'] + 1
<1>0. /\ Len(list) \in Nat /\ DOMAIN list = 1 .. Len(list) /\ len \in Nat /\ len <= Len(array)
      /\ next \in Nat /\ DOMAIN array = 1 .. Len(array) /\ DOMAIN pending \subseteq 1 .. len - 1
  BY DEF Walk, Slice
<1>a. ASSUME broadcast = "loop"
      PROVE  /\ publishing \in Value /\ sends(s, publishing) \in Nat /\ removals[publishing] \in Nat
             /\ sends(s, publishing) + Cardinality(Ahead(s)) <= removals[publishing] + 1
             /\ Cardinality(Ahead(s)) \in Nat
  BY <1>a, AheadFinite DEF Walk, Counts, Served, sends
<1>1. ASSUME NEW t \in Sub, add(t) \/ Move PROVE Goal
  <2>1. /\ UNCHANGED <<broadcast, publishing, next, removals>>
        /\ Len(list') = Len(list)
        /\ shares' => shares /\ \A i \in 1 .. Len(list) : list'[i] = array'[i]
        /\ ~shares' => list' = list
    BY <1>1, ListStays DEF add, Move, history
  <2>2. ~Hand
    BY <1>0, <1>1 DEF add, Move, Hand, HandWhen
  <2>3. sends(s, publishing)' = sends(s, publishing)
    BY <1>a, <2>1, <2>2, SendsStay DEF sends
  <2>4. SUFFICES ASSUME ~(Ahead(s)' \subseteq Ahead(s)) PROVE Goal
    <3>1. CASE Ahead(s)' \subseteq Ahead(s)
      <4>1. Cardinality(Ahead(s)') <= Cardinality(Ahead(s)) /\ Cardinality(Ahead(s)') \in Nat
        BY <3>1, AheadShrinks
      <4> QED
        BY <1>a, <2>1, <2>3, <4>1
    <3> QED
      BY <3>1
  <2>5. shares' /\ shares
    BY <2>1, <2>4 DEF Ahead, Meets
  <2>6. \A j \in 1 .. Len(list) : j \in DOMAIN array /\ array[j] = list[j]
    BY <1>0, <2>5 DEF Walk
  <2>7. \A j \in next .. Len(list) : j \in 1 .. Len(list)
    BY <1>0 DEF Walk
  <2>8. CASE Move
    <3>1. PICK c \in DOMAIN pending :
           /\ array'[c] = pending[c]
           /\ \A j \in DOMAIN array \ {c} : array'[j] = array[j]
           /\ DOMAIN pending' = DOMAIN pending \ {c}
           /\ \A j \in DOMAIN pending' : pending'[j] = pending[j]
      BY <2>8, MoveSays
    <3>2. ASSUME NEW j \in next .. Len(list), Meets(s, j)' PROVE Meets(s, j)
      BY <2>1, <2>5, <2>6, <2>7, <3>1, <3>2 DEF Meets
    <3> QED
      BY <2>1, <2>4, <3>2 DEF Ahead
  <2>9. CASE add(t)
    <3>1. /\ len' = len + 1 /\ t \notin known /\ pending' = pending /\ DOMAIN pending = {}
      BY <2>9 DEF add, Slice
    <3>2. array'[len + 1] = t /\ \A j \in DOMAIN array \ {len + 1} : array'[j] = array[j]
      BY <2>5, <2>9, <3>1, AddSays
    <3>3. ASSUME s # t, NEW j \in next .. Len(list), Meets(s, j)' PROVE Meets(s, j)
      BY <2>1, <2>5, <2>6, <2>7, <3>1, <3>2, <3>3 DEF Meets
    <3>4. s = t
      BY <2>1, <2>4, <3>3 DEF Ahead
    <3>5. Ahead(s)' \subseteq {len + 1}
      <4>1. ASSUME NEW j \in next .. Len(list), Meets(s, j)' PROVE j = len + 1
        <5>1. list'[j] = s
          BY <3>1, <4>1 DEF Meets
        <5>2. j # len + 1 => list'[j] = list[j]
          BY <2>1, <2>5, <2>6, <2>7, <3>2
        <5> QED
          BY <1>0, <2>7, <3>1, <3>4, <5>1, <5>2 DEF Walk
      <4> QED
        BY <2>1, <4>1 DEF Ahead
    <3>6. Cardinality(Ahead(s)') <= 1 /\ Cardinality(Ahead(s)') \in Nat
      BY <3>5, AtMostOne
    <3>7. sends(s, publishing) = 0
      BY <1>a, <2>1, <3>1, <3>4 DEF Met
    <3> QED
      BY <1>a, <2>1, <2>3, <3>6, <3>7
  <2> QED
    BY <1>1, <2>8, <2>9
<1>2. ASSUME NEW t \in Sub, remove(t) PROVE Goal
  <2>1. PICK k \in 1 .. len :
          /\ array[k] = t /\ Unlocked /\ ~Unlocked'
          /\ pending' = [j \in k .. len - 1 |-> array[j + 1]]
          /\ Disturb(k)
    BY <1>2, RemoveSays
  <2>2. UNCHANGED <<array, len, loop, handed>>
    BY <1>2 DEF remove, removeAt
  <2>3. UNCHANGED <<broadcast, publishing, list, next, shares>>
    BY <2>2 DEF loop
  <2>4. removals'[publishing] = removals[publishing] + 1
    BY <1>a, <2>1, <2>3 DEF Disturb, Counts
  <2>5. sends(s, publishing)' = sends(s, publishing)
    BY <2>2, <2>3 DEF sends, handed
  <2>6. DOMAIN pending = {} /\ Live = len
    BY <2>1 DEF Slice, Live
  <2>7. \A a, b \in 1 .. len : array[a] = array[b] => a = b
    BY <2>6 DEF Slice, Target
  <2> DEFINE moved == {j \in k .. len - 1 : array[j + 1] = s}
  <2>8. IsFiniteSet(moved) /\ Cardinality(moved) <= 1 /\ Cardinality(moved) \in Nat
    <3>1. ASSUME NEW a \in moved, NEW b \in moved PROVE a = b
      <4>1. a + 1 \in 1 .. len /\ b + 1 \in 1 .. len /\ a \in Int /\ b \in Int
        BY <1>0
      <4> QED
        BY <2>7, <4>1
    <3>2. \E a : moved \subseteq {a}
      BY <3>1
    <3> HIDE DEF moved
    <3> QED
      BY <3>2, AtMostOne
  <2>9. Ahead(s)' \subseteq Ahead(s) \cup moved
    <3>1. ASSUME NEW j \in next .. Len(list), Meets(s, j)' PROVE j \in Ahead(s) \cup moved
      BY <2>1, <2>3, <3>1 DEF Meets, Ahead
    <3> QED
      BY <2>3, <3>1 DEF Ahead
  <2>10. /\ Cardinality(Ahead(s)') <= Cardinality(Ahead(s)) + 1
         /\ Cardinality(Ahead(s)') \in Nat
    <3> HIDE DEF moved
    <3>1. /\ IsFiniteSet(Ahead(s) \cup moved)
          /\ Cardinality(Ahead(s) \cup moved) = Cardinality(Ahead(s)) + Cardinality(moved)
                                                - Cardinality(Ahead(s) \cap moved)
      BY <2>8, AheadFinite, FS_Union
    <3>2. Cardinality(Ahead(s) \cap moved) \in Nat
      BY AheadFinite, FS_Intersection, FS_CardinalityType
    <3>3. Cardinality(Ahead(s)') <= Cardinality(Ahead(s) \cup moved) /\ Cardinality(Ahead(s)') \in Nat
      BY <2>9, <3>1, FS_Subset, FS_CardinalityType
    <3> QED
      BY <2>8, <3>1, <3>2, <3>3, AheadFinite
  <2> QED
    BY <1>a, <2>3, <2>4, <2>5, <2>10
<1>3. CASE Removed
  <2>1. /\ UNCHANGED <<array, pending, loop, handed, history>>
        /\ UNCHANGED <<broadcast, publishing, list, next, shares, removals>>
    BY <1>3 DEF Removed, loop, history
  <2>2. Ahead(s)' = Ahead(s) /\ sends(s, publishing)' = sends(s, publishing)
    BY <2>1 DEF Ahead, Meets, sends, handed
  <2> QED
    BY <1>a, <2>1, <2>2
<1>4. CASE Take
  <2>1. /\ publishing' = publishing + 1 /\ publishing < MaxValue /\ list' = Cells(len) /\ next' = 1
        /\ UNCHANGED <<array, len, leaving, pending, waiting, got, removals>> /\ Unlocked
    BY <1>4 DEF Take, slice, handed
  <2>2. publishing + 1 \in Value
    BY <2>1, Bounds DEF Walk, Value
  <2>3. Len(list') = len /\ \A j \in 1 .. len : list'[j] = array[j]
    BY <2>1, CellsType
  <2>4. DOMAIN pending' = {} /\ Live = len
    BY <2>1 DEF Slice, Live, Unlocked
  <2>5. \A a, b \in 1 .. len : array[a] = array[b] => a = b
    BY <2>1, <2>4 DEF Slice, Target
  <2>6. removals'[publishing'] = 0 /\ sends(s, publishing)' = 0
    <3>1. removals[publishing + 1] = 0 /\ sends(s, publishing + 1) = 0
      BY <2>2 DEF Untaken, Sent, Walk, Value
    <3> QED
      BY <2>1, <3>1 DEF sends
  <2>7. Ahead(s)' = {j \in 1 .. len : array[j] = s}
    BY <2>1, <2>3, <2>4 DEF Ahead, Meets
  <2>8. \E a : Ahead(s)' \subseteq {a}
    BY <2>5, <2>7
  <2>9. Cardinality(Ahead(s)') <= 1 /\ Cardinality(Ahead(s)') \in Nat
    BY <2>8, AtMostOne
  <2> QED
    BY <2>6, <2>9
<1>5. CASE Hand
  <2>1. UNCHANGED <<slice, broadcast, publishing, list, shares, removals>> /\ next' = next + 1
        /\ UNCHANGED <<array, pending>>
    BY <1>5 DEF Hand, HandWhen, history, slice
  <2>2. /\ next \in 1 .. Len(list)
        /\ sends(s, publishing)' = IF s = list[next] THEN sends(s, publishing) + 1
                                                     ELSE sends(s, publishing)
    BY <1>5, <1>a, <2>1, HandSends DEF sends
  <2>3. Ahead(s)' = Ahead(s) \ {next}
    BY <1>0, <2>1 DEF Ahead, Meets
  <2>4. next \in Ahead(s) => Cardinality(Ahead(s)') = Cardinality(Ahead(s)) - 1
    BY <2>3, AheadFinite, FS_RemoveElement
  <2>5. next \notin Ahead(s) => Ahead(s)' = Ahead(s)
    BY <2>3
  <2>6. s = list[next] => next \in Ahead(s)
    BY <1>0, <2>2 DEF Ahead, Meets
  <2> QED
    BY <1>a, <2>1, <2>2, <2>4, <2>5, <2>6
<1>6. CASE Done \/ Close
  BY <1>6 DEF Done, DoneWhen, Close
<1>7. CASE ~Hand /\ ((\E t \in Sub : Read(t)) \/ UNCHANGED vars)
  <2>1. UNCHANGED <<slice, loop, history>>
    BY <1>7 DEF Read, vars
  <2>2. UNCHANGED <<broadcast, publishing, list, next, shares, array, pending, removals>>
    BY <2>1 DEF loop, slice, history
  <2>3. Ahead(s)' = Ahead(s) /\ sends(s, publishing)' = sends(s, publishing)
    BY <1>7, <1>a, <2>2, SendsStay DEF Ahead, Meets, sends
  <2> QED
    BY <1>a, <2>2, <2>3
<1> QED
  BY <1>1, <1>2, <1>3, <1>4, <1>5, <1>6, <1>7 DEF Next

LEMMA HarmStep ==
  Slice /\ Walk /\ Counts /\ Spared /\ Served /\ HarmBounded /\ [Next]_vars => HarmBounded'
<1> SUFFICES ASSUME Slice, Walk, Counts, Spared, Served, HarmBounded, [Next]_vars,
                    NEW v \in Value, Over(v)'
             PROVE  /\ \A s \in spared'[v] : sends(s, v)' = 1
                    /\ \A s \in Sub : sends(s, v)' <= removals'[v] + 1
  BY DEF HarmBounded
<1>0. spared[v] \subseteq Sub
  BY DEF Counts
<1>1. CASE Over(v)
  <2>1. /\ removals'[v] = removals[v] /\ spared'[v] = spared[v]
        /\ \A s \in Sub : sends(s, v)' = sends(s, v)
    BY <1>1, OverStays
  <2>2. /\ \A s \in spared[v] : sends(s, v) = 1
        /\ \A s \in Sub : sends(s, v) <= removals[v] + 1
    BY <1>1 DEF HarmBounded
  <2> QED
    BY <1>0, <2>1, <2>2
<1>2. CASE ~Over(v)
  <2>1. Done /\ v = publishing /\ broadcast = "loop" /\ next = Len(list) + 1
    BY <1>2, IsOverNow
  <2>2. UNCHANGED <<waiting, got, removals, spared>>
    BY <2>1 DEF Done, DoneWhen, handed, history
  <2>3. \A s \in spared[v] : sends(s, v) = 1
    BY <2>1 DEF Spared, Walk
  <2>4. ASSUME NEW s \in Sub PROVE sends(s, v) <= removals[v] + 1
    <3>1. Ahead(s) = {}
      BY <2>1 DEF Ahead, Walk
    <3>2. sends(s, v) + 0 <= removals[v] + 1
      BY <2>1, <3>1, FS_EmptySet DEF Served
    <3>3. sends(s, v) \in Nat
      BY DEF Counts, sends
    <3> QED
      BY <3>2, <3>3
  <2> QED
    BY <2>2, <2>3, <2>4 DEF sends
<1> QED
  BY <1>1, <1>2

\* However subscribers are removed while a value is broadcast, cell by cell and unseen
\* by its loop, those before every gap are served exactly once, and nobody more often
\* than once and once again for each removal (pkg/dcgm/bcast.go:34-80).
THEOREM HarmStaysBounded == Spec => []HarmBounded
<1>1. Init => Harm
  <2> SUFFICES ASSUME Init PROVE Harm
    OBVIOUS
  <2>1. \A v \in Value : /\ removals[v] = 0 /\ spared[v] = {}
                         /\ \A s \in Sub : sends(s, v) = 0
    BY DEF Init, sends
  <2>2. broadcast = "select"
    BY DEF Init
  <2> QED
    BY <2>1, <2>2 DEF Harm, Untaken, Sent, Met, Spared, Served, HarmBounded
<1>2. Typed /\ Harm /\ [Next]_vars => Harm'
  BY UntakenStep, MetStep, SparedStep, ServedStep, HarmStep DEF Typed, Harm
<1>3. Harm => HarmBounded
  BY DEF Harm
<1> QED
  BY <1>1, <1>2, <1>3, IsTyped, PTL DEF Spec

=============================================================================
