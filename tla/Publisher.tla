------------------------------- MODULE Publisher -------------------------------
(***************************************************************************)
(* The publisher of pkg/dcgm.  Subscribers are added to and removed from   *)
(* a slice under a lock; broadcast takes a value and goes through the      *)
(* slice it was given under the lock, but after the lock is released: add  *)
(* appends to the same array or moves to a larger one, remove closes the   *)
(* gap in place, cell by cell.  A value is handed to each subscriber by a  *)
(* goroutine of its own, which waits until the subscriber reads.           *)
(*                                                                         *)
(* A definition X_Why is a faulty variant of X: it is no part of the       *)
(* specification and serves to show that a property can fail.              *)
(***************************************************************************)
EXTENDS Integers, Sequences, FiniteSets, FiniteSetsExt, SequencesExt

CONSTANTS
  Sub,       \* the subscribers that add returns
  Prompt,    \* those of them that go on reading
  MaxValue,  \* bound on the values sent
  NULL       \* an unused cell of the array

ASSUME PublisherAssumption ==
  /\ IsFiniteSet(Sub) /\ NULL \notin Sub
  /\ Prompt \subseteq Sub
  /\ MaxValue \in Nat

VARIABLES
  array, len,    \* p.subscribers: its backing array up to its capacity, its length
  leaving,       \* the subscriber being removed, NULL when the lock is free
  pending,       \* of each cell its removal has still to store: what goes there
  broadcast,     \* the goroutine is in its "select", its "loop", or "ended"
  publishing,    \* the last value it took
  list, next,    \* the cells of the slice it goes through, and the next one
  shares,        \* this slice is of the array p.subscribers has now
  waiting,       \* of each subscriber and value: goroutines in s.read <- val
  got,           \* external: how often it has read the value
  known,         \* the subscribers add has returned so far, each of them a new one
  present,       \* history: the subscribers when each value was taken
  removals,      \* history: removals begun while the value was broadcast
  spared         \* history: those of present who stood before all of these removals

slice    == <<array, len, leaving, pending>>
loop     == <<broadcast, publishing, list, next, shares>>
handed   == <<waiting, got>>
history  == <<present, removals, spared>>
vars == <<slice, loop, handed, known, history>>

Value == 1 .. MaxValue
Cells(n) == SubSeq(array, 1, n)

Init ==
  /\ array = <<>> /\ len = 0
  /\ leaving = NULL /\ pending = <<>>
  /\ broadcast = "select" /\ publishing = 0
  /\ list = <<>> /\ next = 1 /\ shares = FALSE
  /\ waiting = [s \in Sub |-> [v \in Value |-> 0]]
  /\ got = [s \in Sub |-> [v \in Value |-> 0]]
  /\ known = {}
  /\ present = [v \in Value |-> {}]
  /\ removals = [v \in Value |-> 0]
  /\ spared = [v \in Value |-> {}]

Subscribers == ToSet(Cells(len))

-----------------------------------------------------------------------------
\* add, one step under subscriberLock, and remove, which holds it over several.

Unlocked == leaving = NULL

\* What broadcast sees of its slice in array a.
Seen(a) == IF shares THEN SubSeq(a, 1, Len(list)) ELSE list

appendAs(cells, s) ==
  IF len < Len(array)
    THEN /\ array' = cells
         /\ list' = Seen(array')
         /\ UNCHANGED shares
    ELSE /\ array' = array \o <<s>> \o [k \in 1 .. Max({len - 1, 0}) |-> NULL]
         /\ shares' = FALSE
         /\ UNCHANGED list

append_InFront(s) == appendAs(<<s>> \o SubSeq(array, 1, Len(array) - 1), s)

\* A full array is left to whoever still uses it; the new one is twice as long.
append(s) == appendAs([array EXCEPT ![len + 1] = s], s)

add(s) ==
  /\ Unlocked /\ s \notin known
  /\ append(s)
  /\ len' = len + 1
  /\ known' = known \cup {s}
  /\ UNCHANGED <<leaving, pending, broadcast, publishing, next, handed, history>>

removeAt(s, gap) ==
  /\ Unlocked /\ gap \in 1 .. len
  /\ leaving' = s
  /\ pending' = [i \in gap .. len - 1 |-> array[i + 1]]
  /\ UNCHANGED <<array, len, loop, handed, known, present>>

\* History: those from the gap on are no longer spared.
Disturb(gap) ==
  IF broadcast = "loop"
    THEN /\ removals' = [removals EXCEPT ![publishing] = @ + 1]
         /\ spared' = [spared EXCEPT ![publishing] = @ \cap {array[i] : i \in 1 .. gap - 1}]
    ELSE UNCHANGED <<removals, spared>>

remove_FromCellBefore(s) ==
  \E k \in 1 .. len : array[k] = s /\ removeAt(s, k - 1) /\ Disturb(k)

\* It has found s in cell k; the cells after the gap are to move down by one, and the
\* last is copied, not cleared. The goroutine it leaves on leaving.close is never
\* answered.
remove(s) ==
  \E k \in 1 .. len : array[k] = s /\ removeAt(s, k) /\ Disturb(k)

\* The copy has read what it moves before it stores over it; in which order it stores
\* the cells is the machine's affair.
Move ==
  /\ \E i \in DOMAIN pending :
       /\ array' = [array EXCEPT ![i] = pending[i]]
       /\ pending' = [j \in DOMAIN pending \ {i} |-> pending[j]]
  /\ list' = Seen(array')
  /\ UNCHANGED <<len, leaving, broadcast, publishing, next, shares, handed, known, history>>

Removed ==
  /\ ~Unlocked /\ DOMAIN pending = {}
  /\ len' = len - 1
  /\ leaving' = NULL
  /\ UNCHANGED <<array, pending, loop, handed, known, history>>

-----------------------------------------------------------------------------
\* broadcast

Take_Uncopied ==
  /\ broadcast = "select" /\ Unlocked /\ publishing < MaxValue
  /\ publishing' = publishing + 1
  /\ list' = array /\ next' = 1 /\ shares' = TRUE
  /\ broadcast' = "loop"
  /\ present' = [present EXCEPT ![publishing'] = Subscribers]
  /\ spared' = [spared EXCEPT ![publishing'] = Subscribers]
  /\ UNCHANGED <<slice, handed, known, removals>>

\* send hands its value over to the select, which gets the list under the lock.
Take ==
  /\ broadcast = "select" /\ Unlocked /\ publishing < MaxValue
  /\ publishing' = publishing + 1
  /\ list' = Cells(len) /\ next' = 1 /\ shares' = TRUE
  /\ broadcast' = "loop"
  /\ present' = [present EXCEPT ![publishing'] = Subscribers]
  /\ spared' = [spared EXCEPT ![publishing'] = Subscribers]
  /\ UNCHANGED <<slice, handed, known, removals>>

HandWhen(free) ==
  /\ broadcast = "loop" /\ next <= Len(list)
  /\ free
  /\ waiting' = [waiting EXCEPT ![list[next]][publishing] = @ + 1]
  /\ next' = next + 1
  /\ UNCHANGED <<slice, broadcast, publishing, list, shares, got, known, history>>

Hand_Itself == HandWhen(\A s \in Sub : \A v \in Value : waiting[s][v] = 0)

\* A goroutine for the subscriber in the cell at this moment.
Hand == HandWhen(TRUE)

DoneWhen(over) ==
  /\ broadcast = "loop" /\ over
  /\ broadcast' = "select"
  /\ list' = <<>> /\ next' = 1 /\ shares' = FALSE
  /\ UNCHANGED <<slice, publishing, handed, known, history>>

Done_OneShort == DoneWhen(next >= Len(list))

Done == DoneWhen(next > Len(list))

\* closePublisher meets the select only; what was handed out stays.
Close ==
  /\ broadcast = "select"
  /\ broadcast' = "ended"
  /\ UNCHANGED <<slice, publishing, list, next, shares, handed, known, history>>

\* external: a subscriber receives from one of the goroutines that wait for it.
Read(s) ==
  /\ \E v \in Value : /\ waiting[s][v] > 0
                      /\ waiting' = [waiting EXCEPT ![s][v] = @ - 1]
                      /\ got' = [got EXCEPT ![s][v] = @ + 1]
  /\ UNCHANGED <<slice, loop, known, history>>

Next ==
  \/ Move \/ Removed
  \/ Take \/ Hand \/ Done \/ Close
  \/ \E s \in Sub : add(s) \/ remove(s) \/ Read(s)

Spec == Init /\ [][Next]_vars

\* The goroutine of broadcast runs when it can, and the prompt subscribers read.
FairSpec ==
  /\ Spec
  /\ WF_vars(Hand) /\ WF_vars(Done)
  /\ \A s \in Prompt : WF_vars(Read(s))

-----------------------------------------------------------------------------
\* The types of the variables; a cell of the slice is never empty.
TypeOK ==
  /\ array \in Seq(Sub \cup {NULL})
  /\ len \in 0 .. Len(array)
  /\ leaving \in Sub \cup {NULL}
  /\ DOMAIN pending \subseteq 1 .. len - 1 /\ \A i \in DOMAIN pending : pending[i] \in Sub
  /\ broadcast \in {"select", "loop", "ended"}
  /\ publishing \in 0 .. MaxValue
  /\ list \in Seq(Sub)
  /\ next \in 1 .. Len(list) + 1
  /\ shares \in BOOLEAN
  /\ waiting \in [Sub -> [Value -> Nat]] /\ got \in [Sub -> [Value -> Nat]]
  /\ known \subseteq Sub
  /\ present \in [Value -> SUBSET Sub]
  /\ removals \in [Value -> Nat]
  /\ spared \in [Value -> SUBSET Sub]

sends(s, v) == waiting[s][v] + got[s][v]

\* The broadcast of value v is over.
Over(v) == v < publishing \/ (v = publishing /\ broadcast # "loop")

\* A broadcast during which nobody is removed hands its value to each subscriber
\* of the moment it was taken exactly once and to nobody else, though others are
\* added to the same array, or make it move, while it goes on.
ExactlyOnce ==
  \A v \in Value : (Over(v) /\ removals[v] = 0) =>
    \A s \in Sub : sends(s, v) = IF s \in present[v] THEN 1 ELSE 0

\* What removals can do to a broadcast: those who stand in the slice before every
\* subscriber removed get the value exactly once, whatever moves behind them, and
\* however many of the others are passed over, nobody is served more often than once
\* and once again for each removal.
HarmBounded ==
  \A v \in Value : Over(v) =>
    /\ \A s \in spared[v] : sends(s, v) = 1
    /\ \A s \in Sub : sends(s, v) <= removals[v] + 1

\* Subscribers that never read hold nobody back: a subscriber that goes on reading
\* gets every value taken while it was there and broadcast without a removal.
SlowHoldsNobody ==
  \A s \in Prompt : \A v \in Value :
    (s \in present[v]) ~> (got[s][v] > 0 \/ removals[v] > 0)

=============================================================================
