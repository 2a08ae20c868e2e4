------------------------- MODULE EventLedgerProofs -------------------------
(***************************************************************************)
(* Proofs about EventLedger, for any number of callers, streams and        *)
(* versions: the inductive invariant, the safety properties that follow    *)
(* from it, and the refinement of AppendOnlyLog.                           *)
(***************************************************************************)
EXTENDS EventLedger, SequenceTheorems, TLAPS

\* The maximum of an initial segment of the positive numbers and zero.
LEMMA MaxInterval ==
  ASSUME NEW n \in Nat
  PROVE  Max((1 .. n) \cup {0}) = n
<1> DEFINE S == (1 .. n) \cup {0}
<1>1. n \in S /\ \A y \in S : n >= y
  OBVIOUS
<1>2. \A x \in S : (\A y \in S : x >= y) => x = n
  OBVIOUS
<1>3. (CHOOSE x \in S : \A y \in S : x >= y) = n
  BY <1>1, <1>2
<1> QED
  BY <1>3 DEF Max

\* In a stream without gaps, MAX(version) is a natural number: the length.
LEMMA VersionIsNat ==
  ASSUME NEW n \in Nat, NEW s \in Streams, DOMAIN table[s] = 1 .. n
  PROVE  CurrentVersion(s) = n
BY MaxInterval DEF CurrentVersion

\* The invariant holds before the first append.
LEMMA InitIInv == Init => IInv
<1> SUFFICES ASSUME Init PROVE IInv
  OBVIOUS
<1>1. \A s \in Streams : DOMAIN table[s] = 1 .. 0 /\ table[s] = <<>>
  BY DEF Init
<1>2. \A s \in Streams : CurrentVersion(s) = 0
  BY <1>1, VersionIsNat
<1>3. TypeOK
  BY <1>1, <1>2 DEF Init, TypeOK, TableOK, CallersOK, Labels
<1>4. Contiguous
  BY <1>1, <1>2 DEF Contiguous
<1> QED
  BY <1>3, <1>4 DEF Init, IInv, ReadsLagBehind, ReceiptHonoured, ConflictIsReal

\* What storing a row does: since the key was free and MAX(version) can only
\* have grown since it was read, the row extends its stream by exactly one
\* version and leaves every other row alone.
LEMMA StoreRowExtends ==
  ASSUME IInv, NEW c \in Clients, StoreRow(c),
         NEW s \in Streams, s = req[c].stream
  PROVE  /\ last[c] = CurrentVersion(s)
         /\ CurrentVersion(s)' = CurrentVersion(s) + 1
         /\ table' = [t \in Streams |-> table'[t]]
         /\ table'[s] = [v \in 1 .. (CurrentVersion(s) + 1) |->
                           IF v = CurrentVersion(s) + 1 THEN Entry(c) ELSE table[s][v]]
         /\ \A t \in Streams \ {s} : /\ table'[t] = table[t]
                                     /\ CurrentVersion(t)' = CurrentVersion(t)
<1> DEFINE n == CurrentVersion(s)
<1>1. pc[c] = "inserting"
  BY DEF StoreRow
<1>2. n \in Nat /\ DOMAIN table[s] = 1 .. n
  BY <1>1 DEF IInv, TypeOK, TableOK, Contiguous
<1>3. last[c] \in Nat /\ last[c] <= n
  BY <1>1 DEF IInv, TypeOK, CallersOK, ReadsLagBehind
<1>4. last[c] + 1 \notin 1 .. n
  BY <1>2 DEF StoreRow, KeyTaken
<1>5. last[c] = n
  BY <1>2, <1>3, <1>4
<1>6. DOMAIN table = Streams
  BY DEF IInv, TypeOK, TableOK
<1>7. table' = [table EXCEPT ![s] =
                  [v \in DOMAIN @ \cup {n + 1} |-> IF v = n + 1 THEN Entry(c) ELSE @[v]]]
  BY <1>5 DEF StoreRow
<1>8. (1 .. n) \cup {n + 1} = 1 .. (n + 1)
  BY <1>2
<1>9. table'[s] = [v \in 1 .. (n + 1) |-> IF v = n + 1 THEN Entry(c) ELSE table[s][v]]
  BY <1>1, <1>2, <1>6, <1>7, <1>8
<1>10. table' = [t \in Streams |-> table'[t]] /\ \A t \in Streams \ {s} : table'[t] = table[t]
  BY <1>6, <1>7 DEF IInv, TypeOK, TableOK
<1>11. DOMAIN table'[s] = 1 .. (n + 1)
  BY <1>9
<1>12. Max(DOMAIN table'[s] \cup {0}) = n + 1
  BY <1>2, <1>11, MaxInterval
<1>13. \A t \in Streams \ {s} : CurrentVersion(t)' = CurrentVersion(t)
  BY <1>10 DEF CurrentVersion
<1>14. CurrentVersion(s)' = n + 1
  BY <1>12 DEF CurrentVersion
<1> QED
  BY <1>5, <1>9, <1>10, <1>13, <1>14

\* The step of a caller other than the two that store a row.
LEMMA TableUnchanged ==
  ASSUME IInv, table' = table
  PROVE  /\ TableOK' /\ Contiguous'
         /\ \A s \in Streams : CurrentVersion(s)' = CurrentVersion(s)
<1>1. \A s : CurrentVersion(s)' = CurrentVersion(s)
  BY DEF CurrentVersion
<1>2. TableOK /\ Contiguous
  BY DEF IInv, TypeOK
<1>3. Contiguous'
  BY <1>1, <1>2 DEF Contiguous
<1>4. TableOK'
  BY <1>1, <1>2 DEF TableOK, Rows
<1> QED
  BY <1>1, <1>3, <1>4

\* Only StoreRow touches the table.
LEMMA TableSteps ==
  ASSUME [Next]_vars
  PROVE  table' = table \/ \E c \in Clients : StoreRow(c)
BY DEF Next, Step, vars, Start, StartConditional, StartUnconditional, Request, ReadStream,
       ReadStreamFails, VersionMatches, VersionDiffers, Insert, InsertUnacknowledged,
       Collide, ReportCollision, QueryFails, Return

\* A caller that stores a row has a request for some stream.
LEMMA StoringCaller ==
  ASSUME IInv, NEW c \in Clients, pc[c] # "idle"
  PROVE  req[c] \in Requests /\ req[c].stream \in Streams /\ Entry(c) \in Rows
BY DEF IInv, TypeOK, CallersOK, Requests, Rows, Entry

\* Every step keeps the streams well formed and without gaps, and none of
\* them gets shorter.
LEMMA TableStep ==
  ASSUME IInv, [Next]_vars
  PROVE  /\ TableOK' /\ Contiguous'
         /\ \A s \in Streams : CurrentVersion(s) <= CurrentVersion(s)'
<1>1. CASE table' = table
  BY <1>1, TableUnchanged DEF IInv, TypeOK, TableOK
<1>2. ASSUME NEW c \in Clients, StoreRow(c)
      PROVE  /\ TableOK' /\ Contiguous'
             /\ \A s \in Streams : CurrentVersion(s) <= CurrentVersion(s)'
  <2>1. pc[c] # "idle"
    BY <1>2 DEF StoreRow
  <2>2. PICK s \in Streams : s = req[c].stream
    BY <2>1, StoringCaller
  <2> DEFINE n == CurrentVersion(s)
  <2>3. /\ CurrentVersion(s)' = n + 1
        /\ table' = [t \in Streams |-> table'[t]]
        /\ table'[s] = [v \in 1 .. (n + 1) |-> IF v = n + 1 THEN Entry(c) ELSE table[s][v]]
        /\ \A t \in Streams \ {s} : /\ table'[t] = table[t]
                                    /\ CurrentVersion(t)' = CurrentVersion(t)
    BY <1>2, <2>2, StoreRowExtends
  <2>4. n \in Nat /\ DOMAIN table[s] = 1 .. n
    BY DEF IInv, TypeOK, TableOK, Contiguous
  <2>5. Entry(c) \in Rows
    BY <2>1, StoringCaller
  <2>6. \A t \in Streams : CurrentVersion(t) <= CurrentVersion(t)' /\ CurrentVersion(t)' \in Nat
    BY <2>3, <2>4 DEF IInv, TypeOK, TableOK
  <2>7. Contiguous'
    BY <2>3 DEF IInv, Contiguous
  <2>8. \A t \in Streams : /\ DOMAIN table'[t] \subseteq Nat \ {0}
                           /\ \A v \in DOMAIN table'[t] : table'[t][v] \in Rows
    <3> SUFFICES ASSUME NEW t \in Streams
                 PROVE  /\ DOMAIN table'[t] \subseteq Nat \ {0}
                        /\ \A v \in DOMAIN table'[t] : table'[t][v] \in Rows
      OBVIOUS
    <3>1. CASE t = s
      BY <3>1, <2>3, <2>4, <2>5 DEF IInv, TypeOK, TableOK
    <3>2. CASE t # s
      BY <3>2, <2>3 DEF IInv, TypeOK, TableOK
    <3> QED
      BY <3>1, <3>2
  <2>9. \A t \in Streams : table'[t] = [v \in DOMAIN table'[t] |-> table'[t][v]]
    BY <2>3 DEF IInv, TypeOK, TableOK
  <2>10. TableOK'
    BY <2>3, <2>6, <2>8, <2>9 DEF TableOK
  <2> QED
    BY <2>6, <2>7, <2>10
<1> QED
  BY <1>1, <1>2, TableSteps

\* Every step keeps the callers' variables well formed.
LEMMA CallersStep ==
  ASSUME IInv, [Next]_vars
  PROVE  CallersOK'
<1> USE DEF Labels, Goto, Answer
<1>0. CallersOK /\ TableOK
  BY DEF IInv, TypeOK
<1>1. ASSUME UNCHANGED vars PROVE CallersOK'
  BY <1>0, <1>1 DEF vars, CallersOK
<1>2. ASSUME NEW c \in Clients, Start(c) PROVE CallersOK'
  <2>1. PICK s \in Streams, e \in Events :
          StartConditional(c, s, e) \/ StartUnconditional(c, s, e)
    BY <1>2 DEF Start
  <2> DEFINE r == [stream |-> s, event |-> e, expected |-> NoExpectation]
  <2>2. r \in Requests
    BY DEF Requests
  <2>3. req' = [req EXCEPT ![c] = r] /\ UNCHANGED <<last, answer>>
    BY <2>1 DEF StartConditional, StartUnconditional, Request
  <2>4. \E label \in {"reading", "appending"} : pc' = [pc EXCEPT ![c] = label]
    BY <2>1 DEF StartConditional, StartUnconditional
  <2> HIDE DEF r
  <2> QED
    BY <1>0, <2>2, <2>3, <2>4 DEF CallersOK
<1>3. ASSUME NEW c \in Clients, ReadStream(c) PROVE CallersOK'
  <2>1. req[c] \in Requests /\ CurrentVersion(req[c].stream) \in Nat
    BY <1>0, <1>3 DEF ReadStream, CallersOK, TableOK, Requests
  <2>2. [req[c] EXCEPT !.expected = CurrentVersion(req[c].stream)] \in Requests
    BY <2>1 DEF Requests
  <2> QED
    BY <1>0, <1>3, <2>2 DEF ReadStream, CallersOK
<1>4. ASSUME NEW c \in Clients, ReadStreamFails(c) PROVE CallersOK'
  BY <1>0, <1>4 DEF ReadStreamFails, CallersOK
<1>5. ASSUME NEW c \in Clients, VersionMatches(c) \/ VersionDiffers(c) \/ ReportCollision(c)
      PROVE  CallersOK'
  <2>1. CurrentVersion(req[c].stream) \in Nat
    BY <1>0, <1>5 DEF VersionMatches, VersionDiffers, ReportCollision, CallersOK, TableOK, Requests
  <2> QED
    BY <1>0, <1>5, <2>1 DEF VersionMatches, VersionDiffers, ReportCollision, CallersOK
<1>6. ASSUME NEW c \in Clients, Insert(c) \/ InsertUnacknowledged(c) PROVE CallersOK'
  BY <1>0, <1>6 DEF Insert, InsertUnacknowledged, StoreRow, CallersOK
<1>7. ASSUME NEW c \in Clients, Collide(c) \/ QueryFails(c) PROVE CallersOK'
  BY <1>0, <1>7 DEF Collide, QueryFails, CallersOK
<1>8. ASSUME NEW c \in Clients, Return(c) PROVE CallersOK'
  BY <1>0, <1>8 DEF Return, CallersOK
<1> QED
  BY <1>1, <1>2, <1>3, <1>4, <1>5, <1>6, <1>7, <1>8 DEF Next, Step

\* No step changes or removes a stored row.
LEMMA HistoryStep ==
  ASSUME IInv, [Next]_vars
  PROVE  \A s \in Streams : \A v \in DOMAIN table[s] :
           v \in DOMAIN table'[s] /\ table'[s][v] = table[s][v]
<1>1. CASE table' = table
  BY <1>1
<1>2. ASSUME NEW c \in Clients, StoreRow(c), NEW s \in Streams, NEW v \in DOMAIN table[s]
      PROVE  v \in DOMAIN table'[s] /\ table'[s][v] = table[s][v]
  <2>1. PICK t \in Streams : t = req[c].stream
    BY <1>2, StoringCaller DEF StoreRow
  <2>2. CASE s # t
    BY <1>2, <2>1, <2>2, StoreRowExtends
  <2>3. CASE s = t
    <3> DEFINE n == CurrentVersion(s)
    <3>1. n \in Nat /\ DOMAIN table[s] = 1 .. n
      BY DEF IInv, TypeOK, TableOK, Contiguous
    <3>2. table'[s] = [w \in 1 .. (n + 1) |-> IF w = n + 1 THEN Entry(c) ELSE table[s][w]]
      BY <1>2, <2>1, <2>3, StoreRowExtends
    <3> HIDE DEF n
    <3> QED
      BY <1>2, <3>1, <3>2
  <2> QED
    BY <2>2, <2>3
<1> QED
  BY <1>1, <1>2, TableSteps

\* A caller either takes the step itself or keeps all it knows.
LEMMA ActorOrBystander ==
  ASSUME IInv, [Next]_vars, NEW d \in Clients
  PROVE  Step(d) \/ UNCHANGED <<pc[d], req[d], last[d], answer[d]>>
<1>1. ASSUME NEW c \in Clients, Step(c), c # d
      PROVE  UNCHANGED <<pc[d], req[d], last[d], answer[d]>>
  BY <1>1 DEF IInv, TypeOK, CallersOK, Step, Start, StartConditional, StartUnconditional,
       Request, ReadStream, ReadStreamFails, VersionMatches, VersionDiffers, Insert,
       InsertUnacknowledged, StoreRow, Collide, ReportCollision, QueryFails, Return,
       Goto, Answer
<1> QED
  BY <1>1 DEF Next, vars

\* A version that was read stays at or below the version of its stream, and a
\* caller that found its key taken has indeed been outrun.
LEMMA ReadsStep ==
  ASSUME IInv, [Next]_vars
  PROVE  ReadsLagBehind'
<1> USE DEF Goto, Answer
<1>0. CallersOK /\ ReadsLagBehind /\ NoExpectation \notin Nat
  BY LedgerAssumption DEF IInv, TypeOK
<1> SUFFICES ASSUME NEW d \in Clients, NEW s \in Streams, pc'[d] # "idle", req'[d].stream = s
    PROVE  /\ pc'[d] = "appending" /\ req'[d].expected # NoExpectation
                => req'[d].expected <= CurrentVersion(s)'
           /\ pc'[d] \in {"inserting", "collided"}
                => /\ last'[d] <= CurrentVersion(s)'
                   /\ req'[d].expected \in {NoExpectation, last'[d]}
           /\ pc'[d] = "collided" => last'[d] < CurrentVersion(s)'
  BY DEF ReadsLagBehind
<1> DEFINE n == CurrentVersion(s)
<1>1. n \in Nat /\ n' \in Nat /\ n <= n' /\ DOMAIN table[s] = 1 .. n
  BY TableStep DEF IInv, TypeOK, TableOK, Contiguous
<1>2. CASE UNCHANGED <<pc[d], req[d], last[d], answer[d]>>
  <2>1. req[d] \in Requests /\ last[d] \in Nat
    BY <1>0, <1>2 DEF CallersOK
  <2> QED
    BY <1>0, <1>1, <1>2, <2>1 DEF ReadsLagBehind, Requests
<1>3. CASE Start(d)
  BY <1>0, <1>3 DEF Start, StartConditional, StartUnconditional, Request, CallersOK
<1>4. CASE ReadStream(d)
  <2>1. req[d] \in Requests /\ req[d].stream = s /\ req'[d].expected = n /\ pc'[d] = "appending"
    BY <1>0, <1>4 DEF ReadStream, CallersOK, Requests
  <2> QED
    BY <1>1, <2>1
<1>5. CASE VersionMatches(d)
  <2>1. /\ req'[d] = req[d] /\ pc'[d] = "inserting"
        /\ last'[d] = n /\ req[d].expected \in {NoExpectation, n}
    BY <1>0, <1>5 DEF VersionMatches, CallersOK
  <2> QED
    BY <1>1, <2>1
<1>6. CASE Collide(d)
  <2>1. /\ req'[d] = req[d] /\ pc[d] = "inserting" /\ pc'[d] = "collided"
        /\ last'[d] = last[d] /\ last[d] \in Nat /\ last[d] + 1 \in 1 .. n
    BY <1>0, <1>1, <1>6 DEF Collide, KeyTaken, CallersOK
  <2> QED
    BY <1>0, <1>1, <2>1 DEF ReadsLagBehind
<1>7. CASE \/ VersionDiffers(d) \/ ReportCollision(d) \/ Insert(d)
           \/ InsertUnacknowledged(d) \/ QueryFails(d) \/ Return(d) \/ ReadStreamFails(d)
  BY <1>0, <1>7 DEF VersionDiffers, ReportCollision, Insert, InsertUnacknowledged, StoreRow,
       QueryFails, Return, ReadStreamFails, CallersOK
<1> QED
  BY <1>2, <1>3, <1>4, <1>5, <1>6, <1>7, ActorOrBystander DEF Step

\* A receipt names the row the caller stored, and keeps naming it.
LEMMA ReceiptStep ==
  ASSUME IInv, [Next]_vars
  PROVE  ReceiptHonoured'
<1> USE DEF Goto, Answer
<1>0. CallersOK
  BY DEF IInv, TypeOK
<1> SUFFICES ASSUME NEW d \in Clients, pc'[d] = "ok"
    PROVE  /\ answer'[d] \in DOMAIN table'[req'[d].stream]
           /\ table'[req'[d].stream][answer'[d]] = Entry(d)'
  BY DEF ReceiptHonoured
<1>1. CASE UNCHANGED <<pc[d], req[d], last[d], answer[d]>>
  <2>1. req[d].stream \in Streams
    BY <1>0, <1>1 DEF CallersOK, Requests
  <2>2. /\ answer[d] \in DOMAIN table[req[d].stream]
        /\ table[req[d].stream][answer[d]] = Entry(d)
    BY <1>1 DEF IInv, ReceiptHonoured
  <2> QED
    BY <1>1, <2>1, <2>2, HistoryStep DEF Entry
<1>2. CASE Insert(d)
  <2>1. PICK s \in Streams : s = req[d].stream
    BY <1>2, StoringCaller DEF Insert, StoreRow
  <2> DEFINE n == CurrentVersion(s)
  <2>2. /\ last[d] = n
        /\ table'[s] = [v \in 1 .. (n + 1) |-> IF v = n + 1 THEN Entry(d) ELSE table[s][v]]
    BY <1>2, <2>1, StoreRowExtends DEF Insert
  <2>3. req'[d] = req[d] /\ answer'[d] = n + 1 /\ Entry(d)' = Entry(d)
    BY <1>0, <1>2, <2>2 DEF Insert, CallersOK, Entry
  <2>4. n \in Nat
    BY DEF IInv, TypeOK, TableOK
  <2> HIDE DEF n
  <2> QED
    BY <2>1, <2>2, <2>3, <2>4
<1>3. CASE Step(d) /\ ~Insert(d)
  BY <1>0, <1>3 DEF Step, Start, StartConditional, StartUnconditional, Request, ReadStream,
       ReadStreamFails, VersionMatches, VersionDiffers, InsertUnacknowledged, StoreRow,
       Collide, ReportCollision, QueryFails, Return, CallersOK
<1> QED
  BY <1>1, <1>2, <1>3, ActorOrBystander

\* A refused caller with an expectation was outrun.
LEMMA ConflictStep ==
  ASSUME IInv, [Next]_vars
  PROVE  ConflictIsReal'
<1> USE DEF Goto, Answer
<1>0. CallersOK /\ ReadsLagBehind /\ NoExpectation \notin Nat
  BY LedgerAssumption DEF IInv, TypeOK
<1> SUFFICES ASSUME NEW d \in Clients, pc'[d] = "refused", req'[d].expected # NoExpectation
    PROVE  answer'[d] > req'[d].expected
  BY DEF ConflictIsReal
<1>1. CASE UNCHANGED <<pc[d], req[d], last[d], answer[d]>>
  BY <1>1 DEF IInv, ConflictIsReal
<1>2. CASE VersionDiffers(d) \/ ReportCollision(d)
  <2>1. PICK s \in Streams : s = req[d].stream
    BY <1>0, <1>2 DEF VersionDiffers, ReportCollision, CallersOK, Requests
  <2>2. CurrentVersion(s) \in Nat /\ req[d] \in Requests /\ last[d] \in Nat
    BY <1>0, <1>2 DEF VersionDiffers, ReportCollision, CallersOK, IInv, TypeOK, TableOK
  <2>3. req'[d] = req[d] /\ answer'[d] = CurrentVersion(s)
    BY <1>0, <1>2, <2>1 DEF VersionDiffers, ReportCollision, CallersOK
  <2> QED
    BY <1>0, <1>2, <2>1, <2>2, <2>3 DEF VersionDiffers, ReportCollision, ReadsLagBehind, Requests
<1>3. CASE Step(d) /\ ~VersionDiffers(d) /\ ~ReportCollision(d)
  BY <1>0, <1>3 DEF Step, Start, StartConditional, StartUnconditional, Request, ReadStream,
       ReadStreamFails, VersionMatches, Insert, InsertUnacknowledged, StoreRow,
       Collide, QueryFails, Return, CallersOK
<1> QED
  BY <1>1, <1>2, <1>3, ActorOrBystander

\* The inductive invariant holds in every reachable state.
THEOREM Invariance == Spec => []IInv
<1>1. IInv /\ [Next]_vars => IInv'
  BY TableStep, CallersStep, ReadsStep, ReceiptStep, ConflictStep DEF IInv, TypeOK
<1> QED
  BY InitIInv, <1>1, PTL DEF Spec

\* The variables keep their shape.
THEOREM TypeCorrectness == Spec => []TypeOK
BY Invariance, PTL DEF IInv

\* verifyLedgerIntegrity never finds a gap in a ledger this store wrote.
THEOREM NoGaps == Spec => []Contiguous
BY Invariance, PTL DEF IInv

\* A version returned to a caller is the caller's alone.
THEOREM ReceiptsHonoured == Spec => []ReceiptHonoured
BY Invariance, PTL DEF IInv

\* A ConcurrencyError with an expectation means the stream moved on.
THEOREM ConflictsAreReal == Spec => []ConflictIsReal
BY Invariance, PTL DEF IInv

\* The ledger is append-only.
THEOREM LedgerIsAppendOnly == Spec => HistoryPreserved
<1>1. IInv /\ [Next]_vars =>
        [\A s \in Streams : \A v \in DOMAIN table[s] :
           v \in DOMAIN table'[s] /\ table'[s][v] = table[s][v]]_vars
  BY HistoryStep
<1> QED
  BY Invariance, <1>1, PTL DEF Spec, HistoryPreserved

\* An append that named its expected version takes effect only at that version.
THEOREM NoUpdateLost == Spec => NoLostUpdate
<1> DEFINE A == \A s \in Streams :
                  table'[s] # table[s] =>
                    \E c \in Clients :
                      /\ pc[c] = "inserting" /\ req[c].stream = s
                      /\ req[c].expected \in {NoExpectation, CurrentVersion(s)}
<1>1. ASSUME IInv, [Next]_vars PROVE A
  <2>1. CASE table' = table
    BY <2>1
  <2>2. ASSUME NEW c \in Clients, StoreRow(c), NEW s \in Streams, table'[s] # table[s]
        PROVE  /\ pc[c] = "inserting" /\ req[c].stream = s
               /\ req[c].expected \in {NoExpectation, CurrentVersion(s)}
    <3>1. pc[c] = "inserting"
      BY <2>2 DEF StoreRow
    <3>2. PICK t \in Streams : t = req[c].stream
      BY <1>1, <3>1, StoringCaller
    <3>3. s = t /\ last[c] = CurrentVersion(t)
      BY <1>1, <2>2, <3>2, StoreRowExtends
    <3> QED
      BY <1>1, <3>1, <3>2, <3>3 DEF IInv, ReadsLagBehind
  <2> QED
    BY <1>1, <2>1, <2>2, TableSteps
<1>2. IInv /\ [Next]_vars => [A]_vars
  BY <1>1
<1> QED
  BY Invariance, <1>2, PTL DEF Spec, NoLostUpdate
-----------------------------------------------------------------------------
(***************************************************************************)
(* The refinement of AppendOnlyLog.                                        *)
(***************************************************************************)

\* A stream without gaps is a sequence, and its version is its length.
LEMMA StreamIsSequence ==
  ASSUME IInv, NEW s \in Streams
  PROVE  table[s] \in Seq(Rows) /\ Len(table[s]) = CurrentVersion(s)
<1> DEFINE n == CurrentVersion(s)
<1>1. n \in Nat /\ DOMAIN table[s] = 1 .. n /\ \A v \in 1 .. n : table[s][v] \in Rows
  BY DEF IInv, TypeOK, TableOK, Contiguous
<1>2. table[s] = [v \in 1 .. n |-> table[s][v]]
  BY <1>1 DEF IInv, TypeOK, TableOK
<1> HIDE DEF n
<1>3. table[s] \in [1 .. n -> Rows]
  BY <1>1, <1>2
<1>4. table[s] \in Seq(Rows)
  BY <1>1, <1>3, SeqDef
<1> QED
  BY <1>1, <1>4, LenProperties DEF n

\* The version the abstract log reports is the version of the table.
LEMMA SameLength ==
  ASSUME IInv, NEW c \in Clients, pc[c] \in {"appending", "inserting", "collided"}
  PROVE  /\ phaseBar[c] = "pending" /\ reqBar[c] = req[c] /\ req[c] \in Requests
         /\ \E s \in Streams : /\ s = req[c].stream
                               /\ Len(table[s]) = CurrentVersion(s)
                               /\ CurrentVersion(s) \in Nat
<1>0. phaseBar[c] = "pending"
  BY DEF phaseBar, PhaseOf
<1>1. req[c] \in Requests
  BY DEF IInv, TypeOK, CallersOK
<1>2. phaseBar[c] = "pending" /\ reqBar[c] = req[c]
  BY <1>0 DEF reqBar
<1> QED
  BY <1>1, <1>2, StreamIsSequence DEF Requests, IInv, TypeOK, TableOK

\* Storing a row is the Append of the abstract log.
LEMMA StoreRowTakesEffect ==
  ASSUME IInv, NEW c \in Clients, StoreRow(c)
  PROVE  Log!TakeEffect(c)
<1>1. pc[c] = "inserting"
  BY DEF StoreRow
<1>2. PICK s \in Streams : s = req[c].stream
  BY <1>1, StoringCaller
<1> DEFINE n == CurrentVersion(s)
           e == Entry(c)
<1>3. reqBar[c] = req[c]
  BY <1>1, SameLength
<1>4. Log!Entry(c) = e
  BY <1>3 DEF Log!Entry, Entry
<1>5. /\ last[c] = n
      /\ table' = [t \in Streams |-> table'[t]]
      /\ table'[s] = [v \in 1 .. (n + 1) |-> IF v = n + 1 THEN e ELSE table[s][v]]
      /\ \A t \in Streams \ {s} : table'[t] = table[t]
  BY <1>2, StoreRowExtends
<1>6. table[s] \in Seq(Rows) /\ Len(table[s]) = n /\ n \in Nat /\ e \in Rows
  BY <1>1, StreamIsSequence, StoringCaller DEF IInv, TypeOK, TableOK
<1>7. req[c].expected \in {NoExpectation, n}
  BY <1>1, <1>2, <1>5 DEF IInv, ReadsLagBehind
<1> HIDE DEF n, e
<1>8. Append(table[s], e) = [v \in 1 .. (n + 1) |-> IF v = n + 1 THEN e ELSE table[s][v]]
  BY <1>6
<1>9. table' = [table EXCEPT ![s] = Append(@, e)]
  BY <1>5, <1>8 DEF IInv, TypeOK, TableOK
<1> QED
  BY <1>2, <1>3, <1>4, <1>6, <1>7, <1>9 DEF Log!TakeEffect

\* The values of PhaseOf, for the provers.
LEMMA Phases ==
  /\ PhaseOf("idle") = "idle" /\ PhaseOf("reading") = "idle"
  /\ PhaseOf("appending") = "pending" /\ PhaseOf("inserting") = "pending"
  /\ PhaseOf("collided") = "pending" /\ PhaseOf("ok") = "ok"
  /\ PhaseOf("refused") = "refused" /\ PhaseOf("error") = "error"
BY DEF PhaseOf

\* How a step of one caller shows in the abstract phases and requests.
LEMMA BarStep ==
  ASSUME CallersOK, NEW c \in Clients, NEW label \in Labels,
         pc' = [pc EXCEPT ![c] = label], req' = [req EXCEPT ![c] = req'[c]]
  PROVE  /\ phaseBar' = [phaseBar EXCEPT ![c] = PhaseOf(label)]
         /\ reqBar' = [reqBar EXCEPT ![c] =
                         IF PhaseOf(label) = "idle" THEN NoRequest ELSE req'[c]]
<1>1. \A d \in Clients : phaseBar[d] = PhaseOf(pc[d]) /\ phaseBar'[d] = PhaseOf(pc'[d])
  BY DEF phaseBar, PhaseOf
<1>2. phaseBar' = [phaseBar EXCEPT ![c] = PhaseOf(label)]
  BY <1>1 DEF CallersOK, phaseBar
<1>3. \A d \in Clients : phaseBar'[d] = IF d = c THEN PhaseOf(label) ELSE phaseBar[d]
  BY <1>1 DEF CallersOK
<1> HIDE DEF PhaseOf
<1>4. reqBar' = [reqBar EXCEPT ![c] =
                   IF PhaseOf(label) = "idle" THEN NoRequest ELSE req'[c]]
  BY <1>3 DEF CallersOK, reqBar
<1> QED
  BY <1>2, <1>4

\* A function that gets the value it has at one place is unchanged.
LEMMA SameValue ==
  ASSUME NEW S, NEW f, f = [d \in S |-> f[d]], NEW c \in S
  PROVE  [f EXCEPT ![c] = f[c]] = f
OBVIOUS

\* Each step of the store is a step of the atomic log, or invisible to it:
\* reading the stream, a matching version and a collision change nothing
\* there, the INSERT is where the append takes effect.
LEMMA RefinementStep ==
  ASSUME IInv, [Next]_vars
  PROVE  [Log!Next]_(Log!vars)
<1> USE DEF Goto, Answer
<1>0. CallersOK
  BY DEF IInv, TypeOK
<1>1. CASE UNCHANGED vars
  BY <1>1 DEF vars, Log!vars, phaseBar, reqBar
<1>2. ASSUME NEW c \in Clients, Step(c)
      PROVE  Log!Call(c) \/ Log!Succeed(c) \/ Log!Refuse(c) \/ Log!Break(c) \/ Log!Return(c)
             \/ UNCHANGED Log!vars
  <2>0. /\ phaseBar = [d \in Clients |-> phaseBar[d]] /\ reqBar = [d \in Clients |-> reqBar[d]]
        /\ phaseBar[c] = PhaseOf(pc[c])
        /\ reqBar[c] = IF PhaseOf(pc[c]) = "idle" THEN NoRequest ELSE req[c]
    BY DEF phaseBar, reqBar
  <2>1. CASE \E s \in Streams, e \in Events : StartConditional(c, s, e)
    <3>1. /\ pc[c] = "idle" /\ pc' = [pc EXCEPT ![c] = "reading"]
          /\ req' = [req EXCEPT ![c] = req'[c]] /\ UNCHANGED <<table, answer>>
      BY <1>0, <2>1 DEF StartConditional, Request, CallersOK
    <3>2. /\ phaseBar' = [phaseBar EXCEPT ![c] = "idle"]
          /\ reqBar' = [reqBar EXCEPT ![c] = NoRequest]
      BY <1>0, <3>1, BarStep, Phases DEF Labels
    <3>3. UNCHANGED <<phaseBar, reqBar>>
      <4>1. phaseBar[c] = "idle" /\ reqBar[c] = NoRequest
        BY <2>0, <3>1, Phases
      <4> QED
        BY <2>0, <3>2, <4>1, SameValue
    <3> QED
      BY <3>1, <3>3 DEF Log!vars
  <2>2. CASE \E s \in Streams, e \in Events : StartUnconditional(c, s, e)
    <3>1. /\ pc[c] = "idle" /\ pc' = [pc EXCEPT ![c] = "appending"]
          /\ req' = [req EXCEPT ![c] = req'[c]] /\ UNCHANGED <<table, answer>>
          /\ req'[c] \in Requests
      BY <1>0, <2>2 DEF StartUnconditional, Request, CallersOK, Requests
    <3>2. /\ phaseBar' = [phaseBar EXCEPT ![c] = "pending"]
          /\ reqBar' = [reqBar EXCEPT ![c] = req'[c]]
      <4>1. "appending" \in Labels /\ PhaseOf("appending") = "pending"
        BY Phases DEF Labels
      <4>2. phaseBar' = [phaseBar EXCEPT ![c] = PhaseOf("appending")]
        BY <1>0, <3>1, <4>1, BarStep
      <4>3. reqBar' = [reqBar EXCEPT ![c] =
                         IF PhaseOf("appending") = "idle" THEN NoRequest ELSE req'[c]]
        BY <1>0, <3>1, <4>1, BarStep
      <4> QED
        BY <4>1, <4>2, <4>3
    <3>3. reqBar'[c] = req'[c]
      BY <2>0, <3>2
    <3> QED
      BY <2>0, <3>1, <3>2, <3>3, Phases DEF Log!Call, Log!Requests, Requests
  <2>3. CASE ReadStream(c)
    <3>1. /\ pc[c] = "reading" /\ pc' = [pc EXCEPT ![c] = "appending"]
          /\ req' = [req EXCEPT ![c] = req'[c]] /\ UNCHANGED <<table, answer>>
          /\ req'[c] \in Requests
      BY <1>0, <2>3, CallersStep, <1>2 DEF ReadStream, CallersOK, Next
    <3>2. /\ phaseBar' = [phaseBar EXCEPT ![c] = "pending"]
          /\ reqBar' = [reqBar EXCEPT ![c] = req'[c]]
      <4>1. "appending" \in Labels /\ PhaseOf("appending") = "pending"
        BY Phases DEF Labels
      <4>2. phaseBar' = [phaseBar EXCEPT ![c] = PhaseOf("appending")]
        BY <1>0, <3>1, <4>1, BarStep
      <4>3. reqBar' = [reqBar EXCEPT ![c] =
                         IF PhaseOf("appending") = "idle" THEN NoRequest ELSE req'[c]]
        BY <1>0, <3>1, <4>1, BarStep
      <4> QED
        BY <4>1, <4>2, <4>3
    <3>3. reqBar'[c] = req'[c]
      BY <2>0, <3>2
    <3> QED
      BY <2>0, <3>1, <3>2, <3>3, Phases DEF Log!Call, Log!Requests, Requests
  <2>4. CASE ReadStreamFails(c)
    <3>1. /\ pc[c] = "reading" /\ pc' = [pc EXCEPT ![c] = "idle"]
          /\ req' = [req EXCEPT ![c] = req'[c]] /\ UNCHANGED <<table, answer>>
      BY <1>0, <2>4 DEF ReadStreamFails, CallersOK
    <3>2. /\ phaseBar' = [phaseBar EXCEPT ![c] = "idle"]
          /\ reqBar' = [reqBar EXCEPT ![c] = NoRequest]
      BY <1>0, <3>1, BarStep, Phases DEF Labels
    <3>3. UNCHANGED <<phaseBar, reqBar>>
      <4>1. phaseBar[c] = "idle" /\ reqBar[c] = NoRequest
        BY <2>0, <3>1, Phases
      <4> QED
        BY <2>0, <3>2, <4>1, SameValue
    <3> QED
      BY <3>1, <3>3 DEF Log!vars
  <2>5. CASE VersionMatches(c) \/ Collide(c)
    <3>1. /\ pc[c] \in {"appending", "inserting"} /\ pc' = [pc EXCEPT ![c] = pc'[c]]
          /\ pc'[c] \in {"inserting", "collided"}
          /\ req' = [req EXCEPT ![c] = req'[c]] /\ req'[c] = req[c] /\ UNCHANGED <<table, answer>>
      BY <1>0, <2>5 DEF VersionMatches, Collide, CallersOK
    <3>2. /\ phaseBar' = [phaseBar EXCEPT ![c] = "pending"]
          /\ reqBar' = [reqBar EXCEPT ![c] = req[c]]
      BY <1>0, <3>1, BarStep, Phases DEF Labels
    <3>3. UNCHANGED <<phaseBar, reqBar>>
      <4>1. phaseBar[c] = "pending" /\ reqBar[c] = req[c]
        BY <2>0, <3>1, Phases
      <4> QED
        BY <2>0, <3>2, <4>1, SameValue
    <3> QED
      BY <3>1, <3>3 DEF Log!vars
  <2>6. CASE Insert(c)
    <3>1. pc[c] = "inserting" /\ StoreRow(c)
      BY <2>6 DEF Insert, StoreRow
    <3>2. /\ pc' = [pc EXCEPT ![c] = "ok"] /\ req' = [req EXCEPT ![c] = req'[c]] /\ req'[c] = req[c]
          /\ answer' = [answer EXCEPT ![c] = last[c] + 1]
      BY <1>0, <2>6 DEF Insert, CallersOK
    <3>3. /\ phaseBar' = [phaseBar EXCEPT ![c] = "ok"]
          /\ reqBar' = [reqBar EXCEPT ![c] = req[c]]
      BY <1>0, <3>2, BarStep, Phases DEF Labels
    <3>4. phaseBar[c] = "pending" /\ reqBar[c] = req[c] /\ UNCHANGED reqBar
      BY <2>0, <3>1, <3>3, Phases
    <3>5. last[c] = Len(table[reqBar[c].stream])
      BY <3>1, <3>4, SameLength, StoreRowExtends
    <3> QED
      BY <3>1, <3>2, <3>3, <3>4, <3>5, StoreRowTakesEffect DEF Log!Succeed
  <2>7. CASE InsertUnacknowledged(c) \/ QueryFails(c)
    <3>1. /\ pc[c] \in {"appending", "inserting", "collided"}
          /\ pc' = [pc EXCEPT ![c] = "error"] /\ req' = [req EXCEPT ![c] = req'[c]] /\ req'[c] = req[c]
          /\ StoreRow(c) \/ UNCHANGED table
          /\ UNCHANGED answer
      BY <1>0, <2>7 DEF InsertUnacknowledged, QueryFails, StoreRow, CallersOK
    <3>2. /\ phaseBar' = [phaseBar EXCEPT ![c] = "error"]
          /\ reqBar' = [reqBar EXCEPT ![c] = req[c]]
      BY <1>0, <3>1, BarStep, Phases DEF Labels
    <3>3. phaseBar[c] = "pending" /\ reqBar[c] = req[c] /\ UNCHANGED reqBar
      <4>1. phaseBar[c] = "pending" /\ reqBar[c] = req[c]
        BY <2>0, <3>1, Phases
      <4> QED
        BY <2>0, <3>2, <4>1, SameValue
    <3> QED
      BY <3>1, <3>2, <3>3, StoreRowTakesEffect DEF Log!Break
  <2>8. CASE VersionDiffers(c) \/ ReportCollision(c)
    <3>1. /\ pc[c] \in {"appending", "collided"}
          /\ pc' = [pc EXCEPT ![c] = "refused"] /\ req' = [req EXCEPT ![c] = req'[c]] /\ req'[c] = req[c]
          /\ UNCHANGED table
          /\ answer' = [answer EXCEPT ![c] = CurrentVersion(req[c].stream)]
      BY <1>0, <2>8 DEF VersionDiffers, ReportCollision, CallersOK
    <3>2. /\ phaseBar' = [phaseBar EXCEPT ![c] = "refused"]
          /\ reqBar' = [reqBar EXCEPT ![c] = req[c]]
      BY <1>0, <3>1, BarStep, Phases DEF Labels
    <3>3. phaseBar[c] = "pending" /\ reqBar[c] = req[c] /\ UNCHANGED reqBar
      <4>1. phaseBar[c] = "pending" /\ reqBar[c] = req[c]
        BY <2>0, <3>1, Phases
      <4> QED
        BY <2>0, <3>2, <4>1, SameValue
    <3>4. PICK s \in Streams : /\ s = req[c].stream
                               /\ Len(table[s]) = CurrentVersion(s)
                               /\ CurrentVersion(s) \in Nat
      BY <3>1, SameLength
    <3>5. req[c].expected # CurrentVersion(s)
      <4>1. CASE VersionDiffers(c)
        BY <3>4, <4>1 DEF VersionDiffers
      <4>2. CASE ReportCollision(c)
        <5>1. /\ last[c] < CurrentVersion(s) /\ last[c] \in Nat
              /\ req[c].expected \in {NoExpectation, last[c]}
          BY <1>0, <3>4, <4>2 DEF ReportCollision, IInv, ReadsLagBehind, CallersOK
        <5> QED
          BY <3>4, <5>1, LedgerAssumption
      <4> QED
        BY <2>8, <4>1, <4>2
    <3> QED
      BY <3>1, <3>2, <3>3, <3>4, <3>5 DEF Log!Refuse
  <2>9. CASE Return(c)
    <3>1. /\ pc[c] \in {"ok", "refused", "error"}
          /\ pc' = [pc EXCEPT ![c] = "idle"]
          /\ req' = [req EXCEPT ![c] = req'[c]] /\ req'[c] = NoRequest
          /\ UNCHANGED table
          /\ answer' = [answer EXCEPT ![c] = 0]
      BY <1>0, <2>9 DEF Return, CallersOK
    <3>2. /\ phaseBar' = [phaseBar EXCEPT ![c] = "idle"]
          /\ reqBar' = [reqBar EXCEPT ![c] = NoRequest]
      BY <1>0, <3>1, BarStep, Phases DEF Labels
    <3>3. phaseBar[c] \in {"ok", "refused", "error"}
      BY <2>0, <3>1, Phases
    <3> QED
      BY <3>1, <3>2, <3>3 DEF Log!Return
  <2> QED
    BY <1>2, <2>1, <2>2, <2>3, <2>4, <2>5, <2>6, <2>7, <2>8, <2>9 DEF Step, Start
<1> QED
  BY <1>1, <1>2 DEF Next, Log!Next

\* The store that spreads an append over several statements implements the
\* atomic append-only log.
THEOREM Refinement == Spec => ImplementsAppendOnlyLog
<1>1. Init => Log!Init
  BY DEF Init, Log!Init, phaseBar, reqBar, PhaseOf
<1>2. IInv /\ [Next]_vars => [Log!Next]_(Log!vars)
  BY RefinementStep
<1> QED
  BY Invariance, <1>1, <1>2, PTL DEF Spec, Log!Spec, ImplementsAppendOnlyLog
=============================================================================
