----------------------------- MODULE ScrapProof -----------------------------
(***************************************************************************)
(* Theorems about Scrap, for every finite set of nodes and every mix of    *)
(* outcomes.                                                               *)
(***************************************************************************)
EXTENDS Scrap, FiniteSetTheorems, TLAPS

\* The goroutines that have sent their error.
Done == {n \in Node : pc[n] = "done"}

\* Every error sent is in the channel or received.
ErrorsCounted == Cardinality(Done) = Len(errChannel) + rounds

\* The caller leaves its loop after a round for every node and no sooner or later, and
\* closes after that.
LoopComplete ==
  /\ caller = "err" => rounds < N
  /\ caller \in {"close", "returned"} => rounds = N
  /\ closed # {} => caller \in {"close", "returned"}

\* The inductive invariant.
IInv == TypeOK /\ ErrorsCounted /\ LoopComplete

-----------------------------------------------------------------------------
\* Lemma: the number of nodes is a natural number.
LEMMA NodeCount ==
  ASSUME ScrapAssumption
  PROVE  N \in Nat /\ IsFiniteSet(Node)
  BY FS_CardinalityType DEF ScrapAssumption, N

\* Lemma: when as many goroutines are done as there are nodes, all are.
LEMMA DoneFinite ==
  ASSUME ScrapAssumption
  PROVE  /\ IsFiniteSet(Done) /\ Cardinality(Done) \in Nat /\ Cardinality(Done) <= N
         /\ Cardinality(Done) = N => Done = Node
<1>1. Done \in SUBSET Node
  BY DEF Done
<1> QED BY <1>1, NodeCount, FS_Subset, FS_CardinalityType DEF N

\* Lemma: a panic changes nothing but that the process is gone.
LEMMA CrashKeeps ==
  ASSUME IInv, Crash
  PROVE  IInv'
  BY DEF IInv, TypeOK, ErrorsCounted, LoopComplete, Done, Crash, channels, results

\* Lemma: a goroutine is done when, and only when, its error is in errChannel.
LEMMA GoroutineKeeps ==
  ASSUME ScrapAssumption, IInv, NEW n \in Node, Goroutine(n)
  PROVE  IInv'
<1>1. CASE Crash
  BY <1>1, CrashKeeps
<1>2. CASE CollectNode(n) /\ ~Crash
  <2>1. PICK o \in Outcome : o # "panic" /\ outcome' = [outcome EXCEPT ![n] = o]
    BY <1>2 DEF CollectNode
  <2>2. /\ pc[n] = "collect" /\ pc' = [pc EXCEPT ![n] = "response"]
        /\ UNCHANGED <<channels, caller, rounds, results, up>>
    BY <1>2 DEF CollectNode, Goto
  <2>3. outcome' \in [Node -> Outcomes \ {"panic"}]
    BY <2>1 DEF IInv, TypeOK, ScrapAssumption
  <2>4. TypeOK' /\ Done' = Done
    BY <2>2, <2>3 DEF IInv, TypeOK, Done, channels, results
  <2> QED BY <2>2, <2>4 DEF IInv, ErrorsCounted, LoopComplete, channels
<1>3. CASE SendResponse(n) /\ ~Crash
  <2>1. /\ pc[n] = "response" /\ pc' = [pc EXCEPT ![n] = "err"]
        /\ responseChannel' = Append(responseChannel, n)
        /\ UNCHANGED <<outcome, errChannel, closed, caller, rounds, results, up>>
    BY <1>3 DEF SendResponse, Goto
  <2>2. TypeOK' /\ Done' = Done
    BY <2>1 DEF IInv, TypeOK, Done, results
  <2> QED BY <2>1, <2>2 DEF IInv, ErrorsCounted, LoopComplete
<1>4. CASE SendErr(n) /\ ~Crash
  <2>1. /\ pc[n] = "err" /\ pc' = [pc EXCEPT ![n] = "done"]
        /\ errChannel' = Append(errChannel, n)
        /\ UNCHANGED <<outcome, responseChannel, closed, caller, rounds, results, up>>
    BY <1>4 DEF SendErr, Goto
  <2>2. TypeOK' /\ Done' = Done \cup {n} /\ n \notin Done
    BY <2>1 DEF IInv, TypeOK, Done, results
  <2>3. Cardinality(Done') = Cardinality(Done) + 1
    BY <2>2, DoneFinite, FS_AddElement
  <2>4. Len(errChannel') = Len(errChannel) + 1 /\ Len(errChannel) \in Nat /\ rounds \in Nat
    BY <2>1, NodeCount DEF IInv, TypeOK
  <2> QED BY <2>1, <2>2, <2>3, <2>4 DEF IInv, ErrorsCounted, LoopComplete
<1> QED BY <1>1, <1>2, <1>3, <1>4 DEF Goroutine

\* Lemma: the caller leaves its loop only after an error of every node.
LEMMA CallerKeeps ==
  ASSUME ScrapAssumption, IInv, Caller
  PROVE  IInv'
<1>0. rounds \in Nat /\ rounds <= N /\ errChannel \in Seq(Node) /\ responseChannel \in Seq(Node)
  BY NodeCount DEF IInv, TypeOK
<1>1. CASE ReceiveErr
  <2>1. /\ caller = "err" /\ errChannel # <<>>
        /\ errChannel' = Tail(errChannel) /\ rounds' = rounds + 1 /\ caller' = "response"
        /\ errs' \in {errs, Append(errs, Head(errChannel))}
        /\ UNCHANGED <<pc, outcome, responseChannel, closed, batches, up>>
    BY <1>1 DEF ReceiveErr
  <2>2. /\ errChannel' \in Seq(Node) /\ Head(errChannel) \in Node
        /\ Len(errChannel') = Len(errChannel) - 1 /\ Len(errChannel) \in Nat \ {0}
    BY <1>0, <2>1
  <2>3. Done' = Done
    BY <2>1 DEF Done
  <2>4. ErrorsCounted'
    BY <1>0, <2>1, <2>2, <2>3 DEF IInv, ErrorsCounted
  <2>5. rounds' \in 0 .. N
    BY <1>0, <2>1, <2>2, DoneFinite, NodeCount DEF IInv, ErrorsCounted
  <2>6. errs' \in Seq(Node)
    <3>1. errs \in Seq(Node)
      BY DEF IInv, TypeOK
    <3>2. Append(errs, Head(errChannel)) \in Seq(Node)
      BY <2>2, <3>1
    <3> QED BY <2>1, <3>1, <3>2, Zenon
  <2>7. TypeOK'
    BY <2>1, <2>2, <2>5, <2>6 DEF IInv, TypeOK
  <2> QED BY <2>1, <2>4, <2>7 DEF IInv, LoopComplete
<1>2. CASE ReceiveResponse
  <2>1. /\ caller = "response" /\ responseChannel # <<>>
        /\ responseChannel' = Tail(responseChannel)
        /\ caller' = IF rounds >= N THEN "close" ELSE "err"
        /\ batches' \in {batches, Append(batches, Head(responseChannel))}
        /\ UNCHANGED <<pc, outcome, errChannel, closed, rounds, errs, up>>
    BY <1>2 DEF ReceiveResponse, AfterResponse
  <2>2. responseChannel' \in Seq(Node) /\ Head(responseChannel) \in Node
    BY <1>0, <2>1
  <2>3. batches' \in Seq(Node)
    <3>1. batches \in Seq(Node)
      BY DEF IInv, TypeOK
    <3>2. Append(batches, Head(responseChannel)) \in Seq(Node)
      BY <2>2, <3>1
    <3> QED BY <2>1, <3>1, <3>2, Zenon
  <2>4. TypeOK' /\ Done' = Done
    BY <2>1, <2>2, <2>3 DEF IInv, TypeOK, Done
  <2>5. LoopComplete'
    BY <1>0, <2>1, NodeCount DEF IInv, LoopComplete, N
  <2> QED BY <2>1, <2>4, <2>5 DEF IInv, ErrorsCounted
<1>3. CASE CloseErr
  BY <1>3 DEF CloseErr, IInv, TypeOK, ErrorsCounted, LoopComplete, Done, N, results
<1>4. CASE CloseResponse
  BY <1>4 DEF CloseResponse, IInv, TypeOK, ErrorsCounted, LoopComplete, Done, N, results
<1> QED BY <1>1, <1>2, <1>3, <1>4 DEF Caller

-----------------------------------------------------------------------------
\* Lemma: after the go statements nothing has been sent and nothing received.
LEMMA InitIInv == ScrapAssumption /\ Init => IInv
<1> SUFFICES ASSUME ScrapAssumption, Init  PROVE IInv
  OBVIOUS
<1>1. Done = {} /\ Cardinality(Done) = 0
  BY FS_EmptySet DEF Init, Done
<1>2. N = 0 <=> Node = {}
  BY NodeCount, FS_EmptySet DEF N
<1>3. TypeOK
  BY NodeCount DEF Init, TypeOK, Outcomes
<1> QED BY <1>1, <1>2, <1>3, NodeCount DEF Init, IInv, ErrorsCounted, LoopComplete

\* The count of errors sent and received holds in every state Scrap reaches.
THEOREM InvariantIInv == Spec => []IInv
<1>1. Init => IInv
  BY InitIInv, ScrapAssumption
<1>2. IInv /\ [Next]_vars => IInv'
  <2> SUFFICES ASSUME IInv, [Next]_vars  PROVE IInv'
    OBVIOUS
  <2>1. CASE UNCHANGED vars
    BY <2>1 DEF vars, channels, results, IInv, TypeOK, ErrorsCounted, LoopComplete, Done
  <2>2. CASE Next
    BY <2>2, ScrapAssumption, GoroutineKeeps, CallerKeeps DEF Next
  <2> QED BY <2>1, <2>2
<1> QED BY <1>1, <1>2, PTL DEF Spec

\* scrap.go:20-57: with any number of nodes, when a channel is closed every
\* goroutine has made its last send.
THEOREM SendsBeforeClose == Spec => []AllSentBeforeClose
<1>1. IInv => AllSentBeforeClose
  <2> SUFFICES ASSUME IInv, closed # {}  PROVE Done = Node
    BY DEF AllSentBeforeClose, Done
  <2>1. rounds = N /\ Len(errChannel) \in Nat
    BY DEF IInv, LoopComplete, TypeOK
  <2>2. Cardinality(Done) = N
    BY <2>1, DoneFinite, NodeCount, ScrapAssumption DEF IInv, ErrorsCounted
  <2> QED BY <2>2, DoneFinite, ScrapAssumption
<1> QED BY <1>1, InvariantIInv, PTL

-----------------------------------------------------------------------------
\* Nothing is lost or doubled between the senders in S and the list s of what the
\* caller has kept: of the elements of W, the ones to keep, each is still in the
\* channel q or once in s, and nothing else is in s.
Books(q, s, S, W) ==
  /\ q \in Seq(Node) /\ s \in Seq(Node)
  /\ S \subseteq Node /\ W \subseteq S
  /\ IsInjective(q) /\ IsInjective(s)
  /\ ToSet(q) \subseteq S /\ ToSet(s) \subseteq W
  /\ ToSet(q) \cap ToSet(s) = {}
  /\ W \subseteq ToSet(q) \cup ToSet(s)

\* Lemma: appending an element that is not in a sequence adds it, once.
LEMMA AppendNew ==
  ASSUME NEW q \in Seq(Node), NEW n \in Node
  PROVE  /\ Append(q, n) \in Seq(Node)
         /\ ToSet(Append(q, n)) = ToSet(q) \cup {n}
         /\ (IsInjective(q) /\ n \notin ToSet(q)) => IsInjective(Append(q, n))
<1>1. /\ Append(q, n) \in Seq(Node) /\ Len(Append(q, n)) = Len(q) + 1 /\ Len(q) \in Nat
      /\ \A i \in 1 .. Len(q) : Append(q, n)[i] = q[i]
      /\ Append(q, n)[Len(q) + 1] = n
  OBVIOUS
<1>2. DOMAIN q = 1 .. Len(q) /\ DOMAIN Append(q, n) = 1 .. Len(q) + 1
  BY <1>1
<1>3. ToSet(Append(q, n)) = ToSet(q) \cup {n}
  BY <1>1, <1>2 DEF ToSet
<1>4. ASSUME IsInjective(q), n \notin ToSet(q)
      PROVE  IsInjective(Append(q, n))
  BY <1>1, <1>2, <1>4 DEF ToSet, IsInjective
<1> QED BY <1>1, <1>3, <1>4

\* Lemma: taking the head of a sequence without repetitions removes that element.
LEMMA TakeHead ==
  ASSUME NEW q \in Seq(Node), q # <<>>, IsInjective(q)
  PROVE  /\ Tail(q) \in Seq(Node) /\ Head(q) \in Node /\ Head(q) \in ToSet(q)
         /\ ToSet(Tail(q)) = ToSet(q) \ {Head(q)}
         /\ IsInjective(Tail(q))
<1>1. /\ Tail(q) \in Seq(Node) /\ Head(q) \in Node /\ Head(q) = q[1]
      /\ Len(q) \in Nat \ {0} /\ Len(Tail(q)) = Len(q) - 1
      /\ \A i \in 1 .. Len(q) - 1 : Tail(q)[i] = q[i + 1]
  OBVIOUS
<1>2. DOMAIN q = 1 .. Len(q) /\ DOMAIN Tail(q) = 1 .. Len(q) - 1
  BY <1>1
<1>3. IsInjective(Tail(q))
  BY <1>1, <1>2 DEF IsInjective
<1>4. ToSet(Tail(q)) \subseteq ToSet(q) \ {Head(q)}
  BY <1>1, <1>2 DEF IsInjective, ToSet
<1>5. ASSUME NEW x \in ToSet(q), x # Head(q)
      PROVE  x \in ToSet(Tail(q))
  <2>1. PICK i \in 1 .. Len(q) : x = q[i]
    BY <1>2 DEF ToSet
  <2>2. i - 1 \in 1 .. Len(q) - 1 /\ Tail(q)[i - 1] = x
    BY <1>1, <1>5, <2>1
  <2> QED BY <1>2, <2>2 DEF ToSet
<1>6. Head(q) \in ToSet(q)
  BY <1>1, <1>2 DEF ToSet
<1> QED BY <1>1, <1>3, <1>4, <1>5, <1>6

\* Lemma: a first send by n is booked, whether or not n is one to keep.
LEMMA BookSend ==
  ASSUME NEW q, NEW s, NEW S, NEW W, NEW V, NEW n \in Node, Books(q, s, S, W),
         n \notin S, V \in {W, W \cup {n}}
  PROVE  Books(Append(q, n), s, S \cup {n}, V)
<1>1. n \notin ToSet(q) /\ n \notin ToSet(s)
  BY DEF Books
<1>2. /\ Append(q, n) \in Seq(Node) /\ ToSet(Append(q, n)) = ToSet(q) \cup {n}
      /\ IsInjective(Append(q, n))
  BY <1>1, AppendNew DEF Books
<1> QED BY <1>1, <1>2 DEF Books

\* Lemma: receiving from the channel and keeping what is to be kept is booked.
LEMMA BookReceive ==
  ASSUME NEW q, NEW s, NEW S, NEW W, Books(q, s, S, W), q # <<>>
  PROVE  Books(Tail(q), IF Head(q) \in W THEN Append(s, Head(q)) ELSE s, S, W)
<1>1. /\ Tail(q) \in Seq(Node) /\ Head(q) \in Node /\ Head(q) \in ToSet(q)
      /\ ToSet(Tail(q)) = ToSet(q) \ {Head(q)} /\ IsInjective(Tail(q))
  BY TakeHead DEF Books
<1>2. Head(q) \notin ToSet(s)
  BY <1>1 DEF Books
<1>3. CASE Head(q) \in W
  <2>1. /\ Append(s, Head(q)) \in Seq(Node)
        /\ ToSet(Append(s, Head(q))) = ToSet(s) \cup {Head(q)}
        /\ IsInjective(Append(s, Head(q)))
    BY <1>1, <1>2, AppendNew DEF Books
  <2> QED BY <1>1, <1>3, <2>1 DEF Books
<1>4. CASE Head(q) \notin W
  BY <1>1, <1>4 DEF Books
<1> QED BY <1>3, <1>4

-----------------------------------------------------------------------------
\* The goroutines that have sent their batch; of these and of those that are done,
\* the ones whose batch, whose error the caller is to keep.
Responded == {n \in Node : pc[n] \in {"err", "done"}}
HasBatch  == {n \in Responded : outcome[n] # "none"}
HasError  == {n \in Done : outcome[n] # "full"}

\* Batches received: one round behind the errors while the caller waits for one.
responses == IF caller = "response" THEN rounds - 1 ELSE rounds

\* Every batch and every error sent is in its channel or received, and kept when
\* it is one to keep.
ResponseBooks == Books(responseChannel, batches, Responded, HasBatch)
ErrorBooks    == Books(errChannel, errs, Done, HasError)
Responses == /\ Cardinality(Responded) = Len(responseChannel) + responses
             /\ caller = "response" => rounds > 0
BInv == ResponseBooks /\ ErrorBooks /\ Responses

\* Lemma: the senders can be counted, and are all the nodes when as many.
LEMMA RespondedFinite ==
  ASSUME ScrapAssumption
  PROVE  /\ IsFiniteSet(Responded) /\ Cardinality(Responded) \in Nat
         /\ Cardinality(Responded) = N => Responded = Node
<1>1. Responded \in SUBSET Node
  BY DEF Responded
<1> QED BY <1>1, NodeCount, FS_Subset, FS_CardinalityType DEF N

\* Lemma: a panic disturbs no books.
LEMMA CrashKeepsBooks ==
  ASSUME BInv, Crash
  PROVE  BInv'
  BY DEF BInv, ResponseBooks, ErrorBooks, Responses, responses, Books, Responded, HasBatch,
         HasError, Done, Crash, channels, results

\* Lemma: a goroutine books its batch when it sends it, its error when it sends that.
LEMMA GoroutineKeepsBooks ==
  ASSUME ScrapAssumption, IInv, BInv, NEW n \in Node, Goroutine(n)
  PROVE  BInv'
<1>0. pc \in [Node -> {"collect", "response", "err", "done"}]
  BY DEF IInv, TypeOK
<1>1. CASE Crash
  BY <1>1, CrashKeepsBooks
<1>2. CASE CollectNode(n) /\ ~Crash
  <2>1. /\ pc[n] = "collect" /\ pc' = [pc EXCEPT ![n] = "response"]
        /\ \A m \in Node \ {n} : outcome'[m] = outcome[m]
        /\ UNCHANGED <<responseChannel, errChannel, caller, rounds, batches, errs>>
    BY <1>2 DEF CollectNode, Goto, IInv, TypeOK, channels, results
  <2>2. Responded' = Responded /\ Done' = Done /\ n \notin Responded /\ n \notin Done
    BY <1>0, <2>1 DEF Responded, Done
  <2>3. HasBatch' = HasBatch /\ HasError' = HasError
    BY <2>1, <2>2 DEF HasBatch, HasError, Responded, Done
  <2> QED BY <2>1, <2>2, <2>3
          DEF BInv, ResponseBooks, ErrorBooks, Responses, responses, Books
<1>3. CASE SendResponse(n) /\ ~Crash
  <2>1. /\ pc[n] = "response" /\ pc' = [pc EXCEPT ![n] = "err"]
        /\ responseChannel' = Append(responseChannel, n)
        /\ UNCHANGED <<outcome, errChannel, caller, rounds, errs, batches>>
    BY <1>3 DEF SendResponse, Goto, results
  <2>2. Responded' = Responded \cup {n} /\ n \notin Responded /\ Done' = Done /\ HasError' = HasError
    BY <1>0, <2>1 DEF Responded, Done, HasError
  <2>3. HasBatch' \in {HasBatch, HasBatch \cup {n}}
    BY <2>1, <2>2 DEF HasBatch
  <2>4. ResponseBooks'
    BY <2>1, <2>2, <2>3, BookSend DEF BInv, ResponseBooks
  <2>5. Cardinality(Responded') = Cardinality(Responded) + 1
    BY <2>2, RespondedFinite, FS_AddElement
  <2>6. Len(responseChannel') = Len(responseChannel) + 1 /\ Len(responseChannel) \in Nat
        /\ rounds \in Nat
    BY <2>1, NodeCount DEF IInv, TypeOK
  <2>7. Responses'
    BY <2>1, <2>2, <2>5, <2>6 DEF BInv, Responses, responses
  <2> QED BY <2>1, <2>2, <2>4, <2>7 DEF BInv, ErrorBooks, Books
<1>4. CASE SendErr(n) /\ ~Crash
  <2>1. /\ pc[n] = "err" /\ pc' = [pc EXCEPT ![n] = "done"]
        /\ errChannel' = Append(errChannel, n)
        /\ UNCHANGED <<outcome, responseChannel, caller, rounds, errs, batches>>
    BY <1>4 DEF SendErr, Goto, results
  <2>2. Responded' = Responded /\ Done' = Done \cup {n} /\ n \notin Done /\ HasBatch' = HasBatch
    BY <1>0, <2>1 DEF Responded, Done, HasBatch
  <2>3. HasError' \in {HasError, HasError \cup {n}}
    BY <2>1, <2>2 DEF HasError
  <2>4. ErrorBooks'
    BY <2>1, <2>2, <2>3, BookSend DEF BInv, ErrorBooks
  <2> QED BY <2>1, <2>2, <2>4 DEF BInv, ResponseBooks, Responses, responses, Books
<1> QED BY <1>1, <1>2, <1>3, <1>4 DEF Goroutine

\* Lemma: the caller keeps what it receives when it is to be kept.
LEMMA CallerKeepsBooks ==
  ASSUME ScrapAssumption, IInv, BInv, Caller
  PROVE  BInv'
<1>0. rounds \in Nat /\ errChannel \in Seq(Node) /\ responseChannel \in Seq(Node)
  BY NodeCount DEF IInv, TypeOK
<1>1. CASE ReceiveErr
  <2>1. /\ caller = "err" /\ errChannel # <<>>
        /\ errChannel' = Tail(errChannel) /\ rounds' = rounds + 1 /\ caller' = "response"
        /\ errs' = IF outcome[Head(errChannel)] = "full" THEN errs
                                                         ELSE Append(errs, Head(errChannel))
        /\ UNCHANGED <<pc, outcome, responseChannel, batches>>
    BY <1>1 DEF ReceiveErr
  <2>2. /\ Done' = Done /\ Responded' = Responded /\ HasBatch' = HasBatch
        /\ HasError' = HasError
    BY <2>1 DEF Done, Responded, HasBatch, HasError
  <2>3. Head(errChannel) \in Done
    BY <2>1, TakeHead DEF BInv, ErrorBooks, Books
  <2>4. errs' = IF Head(errChannel) \in HasError THEN Append(errs, Head(errChannel)) ELSE errs
    BY <2>1, <2>3 DEF HasError
  <2>5. ErrorBooks'
    BY <2>1, <2>2, <2>4, BookReceive DEF BInv, ErrorBooks
  <2>6. Responses'
    BY <1>0, <2>1, <2>2 DEF BInv, Responses, responses
  <2> QED BY <2>1, <2>2, <2>5, <2>6 DEF BInv, ResponseBooks, Books
<1>2. CASE ReceiveResponse
  <2>1. /\ caller = "response" /\ responseChannel # <<>>
        /\ responseChannel' = Tail(responseChannel)
        /\ caller' \in {"close", "err"}
        /\ batches' = IF outcome[Head(responseChannel)] # "none"
                        THEN Append(batches, Head(responseChannel)) ELSE batches
        /\ UNCHANGED <<pc, outcome, errChannel, rounds, errs>>
    BY <1>2 DEF ReceiveResponse, AfterResponse, Stored
  <2>2. /\ Done' = Done /\ Responded' = Responded /\ HasBatch' = HasBatch
        /\ HasError' = HasError
    BY <2>1 DEF Done, Responded, HasBatch, HasError
  <2>3. Head(responseChannel) \in Responded
    BY <2>1, TakeHead DEF BInv, ResponseBooks, Books
  <2>4. batches' = IF Head(responseChannel) \in HasBatch
                     THEN Append(batches, Head(responseChannel)) ELSE batches
    BY <2>1, <2>3 DEF HasBatch
  <2>5. ResponseBooks'
    BY <2>1, <2>2, <2>4, BookReceive DEF BInv, ResponseBooks
  <2>6. Len(responseChannel') = Len(responseChannel) - 1 /\ Len(responseChannel) \in Nat
    BY <1>0, <2>1
  <2>7. Responses'
    BY <1>0, <2>1, <2>2, <2>6 DEF BInv, Responses, responses
  <2> QED BY <2>1, <2>2, <2>5, <2>7 DEF BInv, ErrorBooks, Books
<1>3. CASE CloseErr \/ CloseResponse
  <2>1. /\ caller = "close" /\ caller' \in {"close", "returned"}
        /\ UNCHANGED <<pc, outcome, responseChannel, errChannel, rounds, errs, batches>>
    BY <1>3 DEF CloseErr, CloseResponse, results
  <2> QED BY <2>1 DEF BInv, ResponseBooks, ErrorBooks, Responses, responses, Books,
                      Responded, HasBatch, HasError, Done
<1> QED BY <1>1, <1>2, <1>3 DEF Caller

\* The books are kept in every state Scrap reaches.
LEMMA InvariantBInv == Spec => []BInv
<1>1. Init => BInv
  <2> SUFFICES ASSUME Init  PROVE BInv
    OBVIOUS
  <2>1. Responded = {} /\ Done = {} /\ HasBatch = {} /\ HasError = {}
    BY DEF Init, Responded, Done, HasBatch, HasError
  <2>2. <<>> \in Seq(Node) /\ ToSet(<<>>) = {} /\ IsInjective(<<>>) /\ Len(<<>>) = 0
    BY DEF ToSet, IsInjective
  <2>3. Books(<<>>, <<>>, {}, {})
    BY <2>2 DEF Books
  <2> QED BY <2>1, <2>2, <2>3, FS_EmptySet
          DEF Init, BInv, ResponseBooks, ErrorBooks, Responses, responses
<1>2. IInv /\ BInv /\ [Next]_vars => BInv'
  <2> SUFFICES ASSUME IInv, BInv, [Next]_vars  PROVE BInv'
    OBVIOUS
  <2>1. CASE UNCHANGED vars
    BY <2>1 DEF vars, channels, results, BInv, ResponseBooks, ErrorBooks, Responses, responses,
                Books, Responded, HasBatch, HasError, Done
  <2>2. CASE Next
    BY <2>2, ScrapAssumption, GoroutineKeepsBooks, CallerKeepsBooks DEF Next
  <2> QED BY <2>1, <2>2
<1> QED BY <1>1, <1>2, InvariantIInv, PTL DEF Spec

-----------------------------------------------------------------------------
\* Lemma: a goroutine that has not sent on a channel leaves room for its value there.
LEMMA RoomToSend ==
  ASSUME ScrapAssumption, IInv, BInv, NEW n \in Node
  PROVE  /\ n \notin Responded => Len(responseChannel) < N
         /\ n \notin Done => Len(errChannel) < N
<1>1. /\ N \in Nat /\ rounds \in Nat /\ Len(responseChannel) \in Nat
      /\ Len(errChannel) \in Nat
  BY NodeCount DEF IInv, TypeOK
<1>2. Cardinality(Responded) \in Nat /\ Cardinality(Responded) <= N
  <2>1. Responded \in SUBSET Node
    BY DEF Responded
  <2> QED BY <2>1, NodeCount, FS_Subset, FS_CardinalityType DEF N
<1>3. ASSUME n \notin Responded
      PROVE  Len(responseChannel) < N
  <2>1. Cardinality(Responded) # N
    BY <1>3, RespondedFinite
  <2>2. responses \in Nat
    BY <1>1 DEF BInv, Responses, responses
  <2> QED BY <1>1, <1>2, <2>1, <2>2 DEF BInv, Responses
<1>4. ASSUME n \notin Done
      PROVE  Len(errChannel) < N
  <2>1. Cardinality(Done) # N
    BY <1>4, DoneFinite
  <2> QED BY <1>1, <2>1, DoneFinite DEF IInv, ErrorsCounted
<1> QED BY <1>3, <1>4

\* scrap.go:20-57: with any number of nodes no goroutine waits to send and the caller
\* waits only for somebody who is still to send, so Scrap cannot hang.
THEOREM NobodyHangs == Spec => []NobodyLeftWaiting
<1>1. IInv /\ BInv => NobodyLeftWaiting
  <2> SUFFICES ASSUME IInv, BInv  PROVE NobodyLeftWaiting
    OBVIOUS
  <2>1. /\ N \in Nat /\ rounds \in 0 .. N
        /\ responseChannel \in Seq(Node) /\ errChannel \in Seq(Node)
    BY ScrapAssumption, NodeCount DEF IInv, TypeOK
  <2>2. ASSUME NEW n \in Node
        PROVE  /\ pc[n] = "response" => Len(responseChannel) < N
               /\ pc[n] = "err" => Len(errChannel) < N
    <3>1. /\ pc[n] = "response" => n \notin Responded
          /\ pc[n] = "err" => n \notin Done
      BY DEF Responded, Done
    <3> QED BY <3>1, ScrapAssumption, RoomToSend
  <2>3. ASSUME caller = "err", errChannel = <<>>
        PROVE  \E n \in Node : pc[n] # "done"
    <3>1. Cardinality(Done) = rounds /\ rounds # N
      BY <2>1, <2>3 DEF IInv, ErrorsCounted, LoopComplete
    <3>2. Done # Node
      BY <3>1 DEF N
    <3> QED BY <3>2 DEF Done
  <2>4. ASSUME caller = "response", responseChannel = <<>>
        PROVE  \E n \in Node : pc[n] \in {"collect", "response"}
    <3>1. Cardinality(Responded) = rounds - 1 /\ rounds - 1 # N
      BY <2>1, <2>4 DEF BInv, Responses, responses
    <3>2. Responded # Node
      BY <3>1 DEF N
    <3> QED BY <3>2 DEF Responded, IInv, TypeOK
  <2> QED BY <2>2, <2>3, <2>4 DEF NobodyLeftWaiting
<1> QED BY <1>1, InvariantIInv, InvariantBInv, PTL

-----------------------------------------------------------------------------
\* Lemma: when the caller has left its loop both channels are empty and everything
\* that was to be kept is.
LEMMA AllKept ==
  ASSUME ScrapAssumption, IInv, BInv, caller \in {"close", "returned"}
  PROVE  /\ Done = Node /\ Responded = Node
         /\ G!Lists(batches, {n \in Node : outcome[n] # "none"})
         /\ G!Lists(errs, {n \in Node : outcome[n] # "full"})
<1>1. rounds = N /\ N \in Nat /\ responseChannel \in Seq(Node) /\ errChannel \in Seq(Node)
  BY NodeCount DEF IInv, LoopComplete, TypeOK
<1>2. Len(responseChannel) \in Nat /\ Len(errChannel) \in Nat
  BY <1>1
<1>3. Cardinality(Responded) \in Nat /\ Cardinality(Responded) <= N
  <2>1. Responded \in SUBSET Node
    BY DEF Responded
  <2> QED BY <2>1, NodeCount, FS_Subset, FS_CardinalityType DEF N
<1>4. Len(responseChannel) = 0 /\ Responded = Node
  BY <1>1, <1>2, <1>3, RespondedFinite DEF BInv, Responses, responses
<1>5. Len(errChannel) = 0 /\ Done = Node
  BY <1>1, <1>2, DoneFinite DEF IInv, ErrorsCounted
<1>6. ToSet(responseChannel) = {} /\ ToSet(errChannel) = {}
  BY <1>1, <1>4, <1>5 DEF ToSet
<1>7. IsInjective(batches) /\ ToSet(batches) = HasBatch
  BY <1>6 DEF BInv, ResponseBooks, Books
<1>8. IsInjective(errs) /\ ToSet(errs) = HasError
  BY <1>6 DEF BInv, ErrorBooks, Books
<1>9. HasBatch = {n \in Node : outcome[n] # "none"} /\ HasError = {n \in Node : outcome[n] # "full"}
  BY <1>4, <1>5 DEF HasBatch, HasError
<1>10. ASSUME NEW s  PROVE (G!IsInjective(s) <=> IsInjective(s)) /\ G!ToSet(s) = ToSet(s)
  BY DEF G!IsInjective, G!ToSet, IsInjective, ToSet
<1> QED BY <1>4, <1>5, <1>7, <1>8, <1>9, <1>10 DEF G!Lists

\* Lemma: a step of a goroutine is the answer of its node, a crash, or nothing.
LEMMA GoroutineImplements ==
  ASSUME ScrapAssumption, IInv, BInv, up, NEW n \in Node, Goroutine(n)
  PROVE  [G!Next]_(G!vars)
<1>0. pc \in [Node -> {"collect", "response", "err", "done"}] /\ outcome \in [Node -> Outcomes \ {"panic"}]
  BY DEF IInv, TypeOK
<1>1. CASE Crash
  <2>1. pc[n] # "done" /\ n \notin Done
    BY <1>0 DEF Goroutine, CollectNode, SendResponse, SendErr, Done
  <2>2. caller # "returned"
    BY <2>1, AllKept
  <2> QED BY <1>1, <2>2 DEF Crash, channels, results, G!Next, G!Crash
<1>2. CASE CollectNode(n) /\ ~Crash
  <2>1. PICK o \in Outcome : o # "panic" /\ outcome' = [outcome EXCEPT ![n] = o]
    BY <1>2 DEF CollectNode
  <2>2. /\ pc[n] = "collect" /\ pc' = [pc EXCEPT ![n] = "response"]
        /\ UNCHANGED <<caller, errs, batches, up>>
    BY <1>2 DEF CollectNode, Goto, results
  <2>3. o \in Outcomes \ {"panic"}
    BY <2>1 DEF ScrapAssumption
  <2> DEFINE answered == {m \in Node : pc[m] # "collect"}
             answer == [m \in answered |-> outcome[m]]
  <2>4. answered' = answered \cup {n} /\ n \notin answered /\ answered \subseteq Node
    BY <1>0, <2>2
  <2>5. answer' = [m \in answered \cup {n} |-> IF m = n THEN o ELSE answer[m]]
    <3>1. \A m \in answered \cup {n} : outcome'[m] = IF m = n THEN o ELSE outcome[m]
      BY <1>0, <2>1, <2>4
    <3> QED BY <2>4, <3>1
  <2>6. DOMAIN answer = answered
    OBVIOUS
  <2> HIDE DEF answered, answer
  <2>7. G!Answer(n)
    BY <2>2, <2>3, <2>4, <2>5, <2>6 DEF G!Answer, answered, answer
  <2> QED BY <2>7 DEF G!Next
<1>3. CASE SendResponse(n) /\ ~Crash
  <2>1. {m \in Node : pc'[m] # "collect"} = {m \in Node : pc[m] # "collect"}
    BY <1>0, <1>3 DEF SendResponse, Goto
  <2> QED BY <1>3, <2>1 DEF SendResponse, results, G!vars
<1>4. CASE SendErr(n) /\ ~Crash
  <2>1. {m \in Node : pc'[m] # "collect"} = {m \in Node : pc[m] # "collect"}
    BY <1>0, <1>4 DEF SendErr, Goto
  <2> QED BY <1>4, <2>1 DEF SendErr, results, G!vars
<1> QED BY <1>1, <1>2, <1>3, <1>4 DEF Goroutine

\* Lemma: a step of the caller is its reply or nothing.
LEMMA CallerImplements ==
  ASSUME ScrapAssumption, IInv, BInv, up, Caller
  PROVE  [G!Next]_(G!vars)
<1>1. CASE ReceiveErr \/ ReceiveResponse \/ CloseErr
  <2>1. /\ caller # "returned" /\ caller' # "returned"
        /\ UNCHANGED <<pc, outcome, up>>
    BY <1>1 DEF ReceiveErr, ReceiveResponse, AfterResponse, CloseErr
  <2> QED BY <2>1 DEF G!vars
<1>2. CASE CloseResponse
  <2>1. /\ caller = "close" /\ caller' = "returned"
        /\ UNCHANGED <<pc, outcome, batches, errs, up>>
    BY <1>2 DEF CloseResponse, results
  <2>2. Done = Node
    BY <2>1, AllKept
  <2>3. {m \in Node : pc[m] # "collect"} = Node
    BY <2>2 DEF Done
  <2>4. /\ G!Lists(batches, {n \in Node : outcome[n] # "none"})
        /\ G!Lists(errs, {n \in Node : outcome[n] # "full"})
    BY <2>1, AllKept
  <2>5. G!Reply
    BY <2>1, <2>3, <2>4 DEF G!Reply
  <2> QED BY <2>5 DEF G!Next
<1> QED BY <1>1, <1>2 DEF Caller

\* scrap.go:17-57: with any number of nodes and any mix of outcomes, Scrap behaves
\* as Gather: one reply, after every answer, with every batch and error once.
THEOREM ImplementsGather == Spec => Gathers
<1>1. Init => G!Init
  <2> SUFFICES ASSUME Init  PROVE G!Init
    OBVIOUS
  <2>1. {m \in Node : pc[m] # "collect"} = {} /\ caller # "returned" /\ up = TRUE
    BY DEF Init
  <2> QED BY <2>1 DEF G!Init
<1>2. IInv /\ BInv /\ [Next]_vars => [G!Next]_(G!vars)
  <2> SUFFICES ASSUME IInv, BInv, [Next]_vars  PROVE [G!Next]_(G!vars)
    OBVIOUS
  <2>1. CASE UNCHANGED vars
    BY <2>1 DEF vars, results, G!vars
  <2>2. CASE Next
    BY <2>2, ScrapAssumption, GoroutineImplements, CallerImplements DEF Next
  <2> QED BY <2>1, <2>2
<1> QED BY <1>1, <1>2, InvariantIInv, InvariantBInv, PTL DEF Spec, Gathers, G!Spec

=============================================================================
