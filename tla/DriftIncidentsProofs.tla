------------------------ MODULE DriftIncidentsProofs ------------------------
(***************************************************************************)
(* Proofs about DriftIncidents, for any clients, violations and items.     *)
(***************************************************************************)
EXTENDS DriftIncidents, FiniteSetTheorems, TLAPS

\* The lengths a command can have.
LEMMA AtMostTwo ==
  /\ \A n : n = 0 \/ n = 1 \/ n = 2 => n <= 2
  /\ \A n \in Nat : n <= 2 => n = 0 \/ n = 1 \/ n = 2
<1>1. 0 <= 2 /\ 1 <= 2 /\ 2 <= 2
  OBVIOUS
<1>2. \A n : n = 0 \/ n = 1 \/ n = 2 => n <= 2
  BY <1>1, Zenon
<1>3. \A n \in Nat : n <= 2 => n = 0 \/ n = 1 \/ n = 2
  OBVIOUS
<1> QED
  BY <1>2, <1>3

\* The kinds of events.
LEMMA StoredKinds ==
  ASSUME NEW e \in Stored
  PROVE  /\ e.at \in 1 .. MaxTime
         /\ \/ e.type = "RuntimeObservationRecorded" /\ e.of \in Violations
            \/ e.type = "DriftIncidentResolved" /\ e.of \in Incidents /\ e.as \in Resolutions
            \/ e.type = "DriftPromotedToCandidate" /\ e.of \in Incidents
            \/ e.type \in OnItem /\ e.of \in Items
BY DEF Stored, Events, Row

\* Times are natural numbers.
LEMMA TimesAreNat ==
  ASSUME TypeOK
  PROVE  /\ MaxTime \in Nat /\ clock \in Nat
         /\ \A n \in DOMAIN ledger : ledger[n] \in Stored /\ ledger[n].at \in Nat
<1>1. MaxTime \in Nat /\ clock \in Nat
  BY DriftAssumption DEF DriftAssumption, TypeOK
<1>2. \A n \in DOMAIN ledger : ledger[n] \in Stored
  BY DEF TypeOK
<1>3. \A e \in Stored : e.at \in Nat
  BY <1>1, StoredKinds
<1> QED
  BY <1>1, <1>2, <1>3

\* A version is a number of events.
LEMMA VersionNat ==
  ASSUME TypeOK, NEW c \in Clients
  PROVE  Version(c) \in Nat
<1> DEFINE S == {n \in DOMAIN ledger : SameStream(ledger[n], Head(todo[c]))}
<1>1. Len(ledger) \in Nat /\ DOMAIN ledger = 1 .. Len(ledger)
  BY DEF TypeOK
<1>2. IsFiniteSet(DOMAIN ledger)
  BY <1>1, FS_Interval
<1>3. IsFiniteSet(S)
  BY <1>2, FS_Subset
<1> QED
  BY <1>3, FS_CardinalityType DEF Version

\* Storing an event lengthens its stream by one, and no other stream.
LEMMA VersionAfterStore ==
  ASSUME TypeOK, NEW r, ledger' = Append(ledger, r),
         NEW d \in Clients, todo'[d] = todo[d]
  PROVE  Version(d)' = IF SameStream(r, Head(todo[d])) THEN Version(d) + 1 ELSE Version(d)
<1> DEFINE n == Len(ledger)
           S == {m \in DOMAIN ledger : SameStream(ledger[m], Head(todo[d]))}
           T == {m \in DOMAIN ledger' : SameStream(ledger'[m], Head(todo[d]))}
<1>1. n \in Nat /\ DOMAIN ledger = 1 .. n
  BY DEF TypeOK
<1>2. DOMAIN ledger' = 1 .. (n + 1) /\ ledger'[n + 1] = r
  BY DEF TypeOK
<1>3. \A m \in 1 .. n : ledger'[m] = ledger[m]
  BY DEF TypeOK
<1>4. IsFiniteSet(S) /\ n + 1 \notin S
  <2>1. IsFiniteSet(1 .. n)
    BY <1>1, FS_Interval
  <2>2. S \subseteq 1 .. n
    BY <1>1
  <2>3. IsFiniteSet(S)
    BY <2>1, <2>2, FS_Subset
  <2> QED
    BY <1>1, <2>2, <2>3
<1>5. Version(d) = Cardinality(S) /\ Version(d)' = Cardinality(T)
  BY DEF Version, SameStream
<1>6. CASE SameStream(r, Head(todo[d]))
  <2>1. T = S \cup {n + 1}
    BY <1>1, <1>2, <1>3, <1>6
  <2>2. Cardinality(T) = Cardinality(S) + 1
    BY <1>4, <2>1, FS_AddElement
  <2> QED
    BY <1>5, <1>6, <2>2
<1>7. CASE ~SameStream(r, Head(todo[d]))
  <2>1. T = S
    BY <1>1, <1>2, <1>3, <1>7
  <2> QED
    BY <1>5, <1>7, <2>1
<1> QED
  BY <1>6, <1>7

\* A step that leaves the ledger alone leaves the versions alone that clients
\* with the same events look at.
LEMMA VersionKept ==
  ASSUME ledger' = ledger, NEW d \in Clients, todo'[d] = todo[d]
  PROVE  Version(d)' = Version(d)
BY DEF Version, SameStream

\* The invariant holds before the first command.
LEMMA InitIInv == Init => IInv
<1> SUFFICES ASSUME Init PROVE IInv
  OBVIOUS
<1>1. TypeOK
  BY DriftAssumption DEF Init, TypeOK, DriftAssumption
<1>2. PreparedIsLatest /\ StreamsInClockOrder /\ LinkComesFirst /\ CandidatesLinked /\ TimesDiffer
  BY DEF Init, PreparedIsLatest, StreamsInClockOrder, LinkComesFirst, CandidatesLinked, TimesDiffer
<1> QED
  BY <1>1, <1>2 DEF IInv

\* What a command may have to append: one event that proposes nothing, or a
\* link and the proposal it announces.
Appendable(events) ==
  /\ events \in Seq(Events)
  /\ Len(events) \in {1, 2}
  /\ events[1].type # "ContextProposed"
  /\ Len(events) = 2 => /\ events[1].type = "DriftPromotedToCandidate"
                        /\ events[2].type = "ContextProposed"
                        /\ ItemOf[events[1].of] = events[2].of

\* Every command begins with such events.
LEMMA CommandsBegin ==
  ASSUME NEW c \in Clients, Command(c)
  PROVE  \E events : Appendable(events) /\ Begin(c, events)
<1>1. /\ \A v \in Violations : Event("RuntimeObservationRecorded", v) \in Events
      /\ \A i \in Incidents : Event("DriftPromotedToCandidate", i) \in Events
      /\ \A type \in OnItem, x \in Items : Event(type, x) \in Events
  BY DEF Event, Events
<1>2. ASSUME NEW v \in Violations, RecordRuntimeObservation(c, v)
      PROVE  \E events : Appendable(events) /\ Begin(c, events)
  <2> DEFINE events == <<Event("RuntimeObservationRecorded", v)>>
  <2>1. events \in Seq(Events) /\ Len(events) = 1 /\ events[1].type # "ContextProposed"
    BY <1>1 DEF Event
  <2> HIDE DEF events
  <2>2. Appendable(events)
    BY <2>1 DEF Appendable
  <2> QED
    BY <1>2, <2>2 DEF events, RecordRuntimeObservation
<1>3. ASSUME NEW i \in Incidents, PromoteDriftIncident(c, i)
      PROVE  \E events : Appendable(events) /\ Begin(c, events)
  <2> DEFINE events == <<Event("DriftPromotedToCandidate", i), Event("ContextProposed", ItemOf[i])>>
  <2>1. ItemOf[i] \in Items
    BY DriftAssumption DEF DriftAssumption
  <2>2. /\ Event("DriftPromotedToCandidate", i) \in Events
        /\ Event("ContextProposed", ItemOf[i]) \in Events
    BY <1>1, <2>1 DEF OnItem
  <2>3. events \in Seq(Events) /\ Len(events) = 2
    BY <2>2
  <2>4. /\ events[1].type = "DriftPromotedToCandidate"
        /\ events[2].type = "ContextProposed"
        /\ ItemOf[events[1].of] = events[2].of
    BY DEF Event
  <2> HIDE DEF events
  <2>5. Appendable(events)
    BY <2>3, <2>4 DEF Appendable
  <2> QED
    BY <1>3, <2>5 DEF events, PromoteDriftIncident
<1>4. ASSUME NEW i \in Incidents, NEW r \in Resolutions, ResolveDriftIncident(c, i, r)
      PROVE  \E events : Appendable(events) /\ Begin(c, events)
  <2> DEFINE e == [Event("DriftIncidentResolved", i) EXCEPT !.as = r]
  <2>1. e \in Events /\ e.type = "DriftIncidentResolved"
    BY DEF Event, Events
  <2> HIDE DEF e
  <2>2. Appendable(<<e>>)
    BY <2>1 DEF Appendable
  <2> QED
    BY <1>4, <2>2 DEF e, ResolveDriftIncident
<1>5. ASSUME NEW x \in Known, \/ ConfirmContext(c, x)
                              \/ ChallengeContext(c, x)
                              \/ CorrectContext(c, x)
      PROVE  \E events : Appendable(events) /\ Begin(c, events)
  <2>1. PICK type \in OnItem \ {"ContextProposed"} : Begin(c, <<Event(type, x)>>)
    BY <1>5 DEF ConfirmContext, ChallengeContext, CorrectContext, OnItem
  <2>2. Event(type, x) \in Events /\ Event(type, x).type = type
    BY <1>1, <2>1 DEF Known, Event
  <2>3. Appendable(<<Event(type, x)>>)
    BY <2>1, <2>2 DEF Appendable
  <2> QED
    BY <2>1, <2>3
<1> QED
  BY <1>2, <1>3, <1>4, <1>5 DEF Command

\* LinkComesFirst, said of the events of one command and a ledger.
LinkedFirst(events, stored) ==
  /\ Len(events) <= 2
  /\ Len(events) >= 1 /\ events[1].type = "ContextProposed" =>
       \E m \in DOMAIN stored : /\ stored[m].type = "DriftPromotedToCandidate"
                                /\ ItemOf[stored[m].of] = events[1].of
  /\ Len(events) = 2 => /\ events[1].type = "DriftPromotedToCandidate"
                        /\ events[2].type = "ContextProposed"
                        /\ ItemOf[events[1].of] = events[2].of

\* The same for all clients, before and after a step.
LEMMA LinkComesFirstMeans ==
  /\ LinkComesFirst <=> \A c \in Clients : LinkedFirst(todo[c], ledger)
  /\ LinkComesFirst' <=> \A c \in Clients : LinkedFirst(todo'[c], ledger')
<1>1. LinkComesFirst <=> \A c \in Clients : LinkedFirst(todo[c], ledger)
  BY Zenon DEF LinkComesFirst, Linked, LinkedFirst
<1>2. LinkComesFirst' <=> \A c \in Clients : LinkedFirst(todo'[c], ledger')
  BY Zenon DEF LinkComesFirst, Linked, LinkedFirst
<1> QED
  BY <1>1, <1>2

\* The parts of the invariant that only look at the ledger.
LEMMA LedgerKept ==
  ASSUME IInv, ledger' = ledger
  PROVE  StreamsInClockOrder' /\ CandidatesLinked'
BY DEF IInv, StreamsInClockOrder, CandidatesLinked, SameStream

\* A command begins: its client has prepared nothing yet.
LEMMA BeginStep ==
  ASSUME IInv, NEW c \in Clients, NEW events, Appendable(events), Begin(c, events)
  PROVE  IInv'
<1>1. time[c] = 0
  BY DEF IInv, TypeOK, Begin
<1>2. todo'[c] = events /\ \A d \in Clients \ {c} : todo'[d] = todo[d]
  BY DEF IInv, TypeOK, Begin
<1>3. TypeOK'
  <2>1. todo' \in [Clients -> Seq(Events)]
    BY DEF IInv, TypeOK, Begin, Appendable
  <2> QED
    BY <1>1, <1>2, <2>1 DEF IInv, TypeOK, Begin
<1>4. PreparedIsLatest'
  <2> SUFFICES ASSUME NEW d \in Clients, time'[d] > 0
               PROVE  /\ based'[d] <= Version(d)'
                      /\ ~KeyTaken(d)' => \A n \in DOMAIN ledger' :
                           SameStream(ledger'[n], Head(todo'[d])) => ledger'[n].at < time'[d]
    BY DEF PreparedIsLatest, SameStream
  <2>1. d # c /\ todo'[d] = todo[d]
    BY <1>1, <1>2 DEF Begin
  <2>2. Version(d)' = Version(d)
    BY <2>1, VersionKept DEF Begin
  <2> QED
    BY <2>1, <2>2 DEF IInv, PreparedIsLatest, Begin, KeyTaken
<1>5. LinkComesFirst'
  <2>1. LinkedFirst(events, ledger')
    <3>1. Len(events) = 1 \/ Len(events) = 2
      BY Zenon DEF Appendable
    <3>2. Len(events) <= 2
      BY <3>1, AtMostTwo, Zenon
    <3> QED
      BY <3>2, Zenon DEF Appendable, LinkedFirst
  <2> QED
    BY <1>2, <2>1, LinkComesFirstMeans DEF IInv, Begin
<1>6. TimesDiffer'
  BY DEF IInv, TimesDiffer, Begin
<1> QED
  BY <1>3, <1>4, <1>5, <1>6, LedgerKept DEF IInv, Begin

\* An event is prepared: it is later than everything stored.
LEMMA PrepareStep ==
  ASSUME IInv, NEW c \in Clients, Prepare(c)
  PROVE  IInv'
<1>1. /\ time' = [time EXCEPT ![c] = clock + 1] /\ clock' = clock + 1 /\ clock < MaxTime
      /\ based' = [based EXCEPT ![c] = Version(c)]
      /\ ledger' = ledger /\ todo' = todo /\ todo[c] # <<>>
  BY DEF Prepare
<1>2. Version(c) \in Nat
  BY VersionNat DEF IInv
<1>3. \A d \in Clients : Version(d)' = Version(d)
  BY <1>1, VersionKept
<1>4. TypeOK'
  <2>1. clock + 1 \in 0 .. MaxTime
    BY <1>1, TimesAreNat DEF IInv
  <2>2. time' \in [Clients -> 0 .. MaxTime] /\ based' \in [Clients -> Nat]
    BY <1>1, <1>2, <2>1 DEF IInv, TypeOK
  <2>3. \A d \in Clients : time'[d] <= clock' /\ (time'[d] > 0 => todo'[d] # <<>>)
    BY <1>1, TimesAreNat DEF IInv, TypeOK
  <2>4. \A n \in DOMAIN ledger' : ledger'[n].at <= clock'
    BY <1>1, TimesAreNat DEF IInv, TypeOK
  <2> QED
    BY <1>1, <2>1, <2>2, <2>3, <2>4 DEF IInv, TypeOK
<1>5. PreparedIsLatest'
  <2> SUFFICES ASSUME NEW d \in Clients, time'[d] > 0
               PROVE  /\ based'[d] <= Version(d)'
                      /\ ~KeyTaken(d)' => \A n \in DOMAIN ledger' :
                           SameStream(ledger'[n], Head(todo'[d])) => ledger'[n].at < time'[d]
    BY DEF PreparedIsLatest, SameStream
  <2>1. CASE d = c
    <3>1. time'[c] = clock + 1 /\ based'[c] = Version(c)
      BY <1>1 DEF IInv, TypeOK
    <3>2. \A n \in DOMAIN ledger' : ledger'[n].at < clock + 1
      BY <1>1, TimesAreNat DEF IInv, TypeOK
    <3> QED
      BY <1>2, <1>3, <2>1, <3>1, <3>2
  <2>2. CASE d # c
    BY <1>1, <1>3, <2>2 DEF IInv, TypeOK, PreparedIsLatest, KeyTaken
  <2> QED
    BY <2>1, <2>2
<1>6. LinkComesFirst'
  BY <1>1, LinkComesFirstMeans DEF IInv
<1>7. TimesDiffer'
  <2>1. /\ time'[c] = clock + 1
        /\ \A d \in Clients \ {c} : time'[d] = time[d] /\ time[d] < clock + 1
        /\ \A n \in DOMAIN ledger : ledger[n].at < clock + 1
    BY <1>1, TimesAreNat DEF IInv, TypeOK
  <2> QED
    BY <1>1, <2>1, TimesAreNat DEF IInv, TimesDiffer
<1> QED
  BY <1>1, <1>4, <1>5, <1>6, <1>7, LedgerKept DEF IInv

\* A command is given up.
LEMMA FailStep ==
  ASSUME IInv, NEW c \in Clients, Fail(c)
  PROVE  IInv'
<1>1. /\ time'[c] = 0 /\ todo'[c] = <<>>
      /\ \A d \in Clients \ {c} : time'[d] = time[d] /\ based'[d] = based[d] /\ todo'[d] = todo[d]
      /\ ledger' = ledger /\ clock' = clock
  BY DEF Fail, IInv, TypeOK
<1>2. TypeOK'
  <2>1. todo' \in [Clients -> Seq(Events)]
    BY DEF IInv, TypeOK, Fail
  <2>2. time' \in [Clients -> 0 .. MaxTime] /\ based' \in [Clients -> Nat]
    BY DriftAssumption DEF IInv, TypeOK, Fail, DriftAssumption
  <2> QED
    BY <1>1, <2>1, <2>2 DEF IInv, TypeOK
<1>3. PreparedIsLatest'
  <2> SUFFICES ASSUME NEW d \in Clients, time'[d] > 0
               PROVE  /\ based'[d] <= Version(d)'
                      /\ ~KeyTaken(d)' => \A n \in DOMAIN ledger' :
                           SameStream(ledger'[n], Head(todo'[d])) => ledger'[n].at < time'[d]
    BY DEF PreparedIsLatest, SameStream
  <2>1. d # c /\ todo'[d] = todo[d] /\ time'[d] = time[d] /\ based'[d] = based[d]
    BY <1>1
  <2>2. Version(d)' = Version(d)
    BY <1>1, <2>1, VersionKept
  <2> QED
    BY <1>1, <2>1, <2>2 DEF IInv, PreparedIsLatest, KeyTaken
<1>4. LinkComesFirst'
  <2>1. LinkedFirst(<<>>, ledger')
    BY DEF LinkedFirst
  <2> QED
    BY <1>1, <2>1, LinkComesFirstMeans DEF IInv
<1>5. TimesDiffer'
  BY <1>1 DEF IInv, TimesDiffer
<1> QED
  BY <1>1, <1>2, <1>3, <1>4, <1>5, LedgerKept DEF IInv

\* An event is stored: a client that had prepared one for the same stream
\* finds its key taken, every other one still has the latest time.
LEMMA StoreStep ==
  ASSUME IInv, NEW c \in Clients, Store(c)
  PROVE  IInv'
<1> DEFINE e == Head(todo[c])
           r == Row(e, time[c])
           n == Len(ledger)
<1>1. /\ todo[c] \in Seq(Events) /\ todo[c] # <<>> /\ time[c] > 0 /\ ~KeyTaken(c)
      /\ time[c] \in 1 .. MaxTime /\ time[c] <= clock
  BY TimesAreNat DEF IInv, TypeOK, Store
<1>2. e \in Events /\ e = todo[c][1]
  BY <1>1
<1>3. r \in Stored /\ r.type = e.type /\ r.of = e.of /\ r.at = time[c]
  BY <1>1, <1>2 DEF Stored, Row
<1>4. ledger' = Append(ledger, r) /\ clock' = clock
  BY DEF Store
<1>5. /\ time'[c] = 0 /\ todo'[c] = Tail(todo[c])
      /\ \A d \in Clients \ {c} : time'[d] = time[d] /\ based'[d] = based[d] /\ todo'[d] = todo[d]
  BY DEF Store, IInv, TypeOK
<1>6. /\ n \in Nat /\ DOMAIN ledger = 1 .. n /\ DOMAIN ledger' = 1 .. (n + 1)
      /\ ledger'[n + 1] = r /\ \A m \in 1 .. n : ledger'[m] = ledger[m]
  BY <1>4 DEF IInv, TypeOK
<1>7. \A d : SameStream(r, d) <=> SameStream(e, d)
  BY <1>3 DEF SameStream
<1>8. \A d : SameStream(d, r) <=> SameStream(d, e)
  BY <1>3 DEF SameStream
<1> HIDE DEF r
<1>9. TypeOK'
  <2>1. ledger' \in Seq(Stored)
    BY <1>3, <1>4 DEF IInv, TypeOK
  <2>2. Tail(todo[c]) \in Seq(Events)
    BY <1>1
  <2>3. todo' \in [Clients -> Seq(Events)]
    BY <2>2 DEF IInv, TypeOK, Store
  <2>4. time' \in [Clients -> 0 .. MaxTime] /\ based' \in [Clients -> Nat]
    BY TimesAreNat DEF IInv, TypeOK, Store
  <2>5. \A m \in DOMAIN ledger' : ledger'[m].at <= clock'
    BY <1>1, <1>3, <1>4, <1>6 DEF IInv, TypeOK
  <2>6. \A d \in Clients : time'[d] <= clock' /\ (time'[d] > 0 => todo'[d] # <<>>)
    <3> SUFFICES ASSUME NEW d \in Clients
                 PROVE  time'[d] <= clock' /\ (time'[d] > 0 => todo'[d] # <<>>)
      OBVIOUS
    <3>1. CASE d = c
      BY <1>4, <1>5, <3>1, TimesAreNat DEF IInv
    <3>2. CASE d # c
      BY <1>4, <1>5, <3>2 DEF IInv, TypeOK
    <3> QED
      BY <3>1, <3>2
  <2> QED
    BY <1>4, <2>1, <2>3, <2>4, <2>5, <2>6 DEF IInv, TypeOK
<1>10. PreparedIsLatest'
  <2> SUFFICES ASSUME NEW d \in Clients, time'[d] > 0
               PROVE  /\ based'[d] <= Version(d)'
                      /\ ~KeyTaken(d)' => \A m \in DOMAIN ledger' :
                           SameStream(ledger'[m], Head(todo'[d])) => ledger'[m].at < time'[d]
    BY DEF PreparedIsLatest, SameStream
  <2>1. /\ d # c /\ todo'[d] = todo[d] /\ time'[d] = time[d] /\ based'[d] = based[d]
        /\ time[d] > 0
    BY <1>5
  <2>2. Version(d)' = IF SameStream(r, Head(todo[d])) THEN Version(d) + 1 ELSE Version(d)
    BY <1>4, <2>1, VersionAfterStore DEF IInv
  <2>3. /\ Version(d) \in Nat /\ based[d] \in Nat /\ based[d] <= Version(d)
        /\ ~KeyTaken(d) => \A m \in DOMAIN ledger :
             SameStream(ledger[m], Head(todo[d])) => ledger[m].at < time[d]
    BY <2>1, VersionNat DEF IInv, TypeOK, PreparedIsLatest
  <2>4. CASE SameStream(r, Head(todo[d]))
    BY <2>1, <2>2, <2>3, <2>4 DEF KeyTaken
  <2>5. CASE ~SameStream(r, Head(todo[d]))
    <3>1. Version(d)' = Version(d) /\ (KeyTaken(d)' <=> KeyTaken(d))
      BY <2>1, <2>2, <2>5 DEF KeyTaken
    <3>2. \A m \in DOMAIN ledger' :
            SameStream(ledger'[m], Head(todo[d])) => m \in DOMAIN ledger /\ ledger'[m] = ledger[m]
      BY <1>6, <2>5
    <3> QED
      BY <2>1, <2>3, <3>1, <3>2
  <2> QED
    BY <2>4, <2>5
<1>11. StreamsInClockOrder'
  <2> SUFFICES ASSUME NEW k \in DOMAIN ledger', NEW m \in DOMAIN ledger',
                      k < m, SameStream(ledger'[k], ledger'[m])
               PROVE  ledger'[k].at < ledger'[m].at
    BY DEF StreamsInClockOrder, SameStream
  <2>1. CASE m = n + 1
    <3>1. k \in DOMAIN ledger /\ ledger'[k] = ledger[k]
      BY <1>6, <2>1
    <3>2. SameStream(ledger[k], e)
      BY <1>6, <1>8, <2>1, <3>1
    <3> QED
      BY <1>1, <1>3, <1>6, <2>1, <3>1, <3>2 DEF IInv, PreparedIsLatest
  <2>2. CASE m # n + 1
    BY <1>6, <2>2 DEF IInv, StreamsInClockOrder
  <2> QED
    BY <2>1, <2>2
<1>12. LinkComesFirst'
  <2>1. LinkedFirst(todo[c], ledger) /\ \A d \in Clients : LinkedFirst(todo[d], ledger)
    BY LinkComesFirstMeans DEF IInv
  <2>2. ASSUME NEW events, LinkedFirst(events, ledger) PROVE LinkedFirst(events, ledger')
    BY <1>6, <2>2 DEF LinkedFirst
  <2>3. LinkedFirst(Tail(todo[c]), ledger')
    <3>1. Len(todo[c]) \in {1, 2}
      <4>1. Len(todo[c]) <= 2
        BY <2>1, Zenon DEF LinkedFirst
      <4>2. Len(todo[c]) \in Nat /\ Len(todo[c]) # 0
        BY <1>1
      <4> QED
        BY <4>1, <4>2, AtMostTwo, Zenon
    <3>2. CASE Len(todo[c]) = 1
      <4>1. Len(Tail(todo[c])) = 0
        BY <1>1, <3>2
      <4>2. 0 <= 2 /\ ~(0 >= 1) /\ 0 # 2
        OBVIOUS
      <4> QED
        BY <4>1, <4>2, Zenon DEF LinkedFirst
    <3>3. CASE Len(todo[c]) = 2
      <4>1. Len(Tail(todo[c])) = 1 /\ Tail(todo[c])[1] = todo[c][2]
        BY <1>1, <3>3
      <4>2. r.type = "DriftPromotedToCandidate" /\ ItemOf[r.of] = todo[c][2].of
        BY <1>2, <1>3, <2>1, <3>3 DEF LinkedFirst
      <4>3. n + 1 \in DOMAIN ledger'
        BY <1>6
      <4>4. \E m \in DOMAIN ledger' : /\ ledger'[m].type = "DriftPromotedToCandidate"
                                      /\ ItemOf[ledger'[m].of] = Tail(todo[c])[1].of
        BY <1>6, <4>1, <4>2, <4>3
      <4>5. Len(Tail(todo[c])) <= 2
        BY <4>1, AtMostTwo, Zenon
      <4>6. 1 # 2
        OBVIOUS
      <4>7. Len(Tail(todo[c])) # 2
        BY <4>1, <4>6, Zenon
      <4> QED
        BY <4>4, <4>5, <4>7, Zenon DEF LinkedFirst
    <3> QED
      BY <3>1, <3>2, <3>3
  <2> QED
    BY <1>5, <2>1, <2>2, <2>3, LinkComesFirstMeans
<1>13. CandidatesLinked'
  <2> SUFFICES ASSUME NEW k \in DOMAIN ledger', ledger'[k].type = "ContextProposed"
               PROVE  \E m \in 1 .. (k - 1) : /\ ledger'[m].type = "DriftPromotedToCandidate"
                                              /\ ItemOf[ledger'[m].of] = ledger'[k].of
    BY DEF CandidatesLinked
  <2>1. CASE k = n + 1
    <3>1. e.type = "ContextProposed" /\ Len(todo[c]) >= 1
      BY <1>1, <1>3, <1>6, <2>1
    <3>2. PICK m \in DOMAIN ledger : /\ ledger[m].type = "DriftPromotedToCandidate"
                                     /\ ItemOf[ledger[m].of] = e.of
      BY <1>2, <3>1 DEF IInv, LinkComesFirst, Linked
    <3> QED
      BY <1>3, <1>6, <2>1, <3>2
  <2>2. CASE k # n + 1
    BY <1>6, <2>2 DEF IInv, CandidatesLinked
  <2> QED
    BY <2>1, <2>2
<1>14. TimesDiffer'
  <2>1. \A m \in 1 .. n : ledger[m].at # time[c]
    BY <1>1, <1>6 DEF IInv, TimesDiffer
  <2>2. ASSUME NEW k \in DOMAIN ledger', NEW m \in DOMAIN ledger', ledger'[k].at = ledger'[m].at
        PROVE  k = m
    <3>1. k \in 1 .. n \/ k = n + 1
      BY <1>6
    <3>2. m \in 1 .. n \/ m = n + 1
      BY <1>6
    <3> QED
      BY <1>3, <1>6, <2>1, <2>2, <3>1, <3>2 DEF IInv, TimesDiffer
  <2>3. ASSUME NEW d \in Clients, time'[d] > 0
        PROVE  /\ \A m \in DOMAIN ledger' : ledger'[m].at # time'[d]
               /\ \A b \in Clients : time'[b] = time'[d] => b = d
    <3>1. d # c /\ time'[d] = time[d] /\ time[d] > 0
      BY <1>5, <2>3
    <3>2. time[d] # time[c]
      BY <1>1, <3>1 DEF IInv, TimesDiffer
    <3>3. \A m \in DOMAIN ledger' : m \in 1 .. n \/ m = n + 1
      BY <1>6
    <3>4. \A m \in DOMAIN ledger' : ledger'[m].at # time'[d]
      BY <1>3, <1>6, <3>1, <3>2, <3>3 DEF IInv, TimesDiffer
    <3>5. \A b \in Clients : time'[b] = time'[d] => b = d
      BY <1>5, <2>3, <3>1 DEF IInv, TimesDiffer
    <3> QED
      BY <3>4, <3>5
  <2> QED
    BY <2>2, <2>3 DEF TimesDiffer
<1> QED
  BY <1>9, <1>10, <1>11, <1>12, <1>13, <1>14 DEF IInv

\* The invariant is inductive.
LEMMA NextIInv == IInv /\ [Next]_vars => IInv'
<1> SUFFICES ASSUME IInv, [Next]_vars PROVE IInv'
  OBVIOUS
<1>1. ASSUME NEW c \in Clients, Command(c) PROVE IInv'
  BY <1>1, CommandsBegin, BeginStep
<1>2. ASSUME NEW c \in Clients, Prepare(c) PROVE IInv'
  BY <1>2, PrepareStep
<1>3. ASSUME NEW c \in Clients, Store(c) PROVE IInv'
  BY <1>3, StoreStep
<1>4. ASSUME NEW c \in Clients, Fail(c) PROVE IInv'
  BY <1>4, FailStep
<1>5. CASE UNCHANGED vars
  <2>1. TypeOK'
    BY <1>5 DEF IInv, TypeOK, vars
  <2>2. PreparedIsLatest'
    BY <1>5 DEF IInv, PreparedIsLatest, KeyTaken, Version, SameStream, vars
  <2>3. LinkComesFirst'
    BY <1>5, LinkComesFirstMeans DEF IInv, vars
  <2>4. TimesDiffer'
    BY <1>5 DEF IInv, TimesDiffer, vars
  <2> QED
    BY <1>5, <2>1, <2>2, <2>3, <2>4, LedgerKept DEF IInv, vars
<1> QED
  BY <1>1, <1>2, <1>3, <1>4, <1>5 DEF Next
-----------------------------------------------------------------------------
(* The replay of a log. *)

\* Less than is well-founded.
LEMMA LessIsWellFounded == IsWellFoundedOn({p \in Nat \X Nat : p[1] < p[2]}, Nat)
BY NatLessThanWellFounded DEF OpToRel

\* Induction, for a set: without a least number outside it, it has them all.
LEMMA SetInduction ==
  ASSUME NEW S, 0 \in S, \A n \in Nat : n \in S => n + 1 \in S
  PROVE  Nat \subseteq S
<1> SUFFICES ASSUME Nat \ S # {} PROVE FALSE
  OBVIOUS
<1> DEFINE T == Nat \ S
           R == {p \in Nat \X Nat : p[1] < p[2]}
<1>1. IsWellFoundedOn(R, Nat)
  BY LessIsWellFounded
<1>2. T \subseteq Nat /\ T # {}
  OBVIOUS
<1>3. \E x \in T : \A y \in T : ~(<<y, x>> \in R)
  <2> HIDE DEF T, R
  <2> QED BY <1>1, <1>2, WFMin
<1>4. \A x, y \in Nat : <<y, x>> \in R <=> y < x
  OBVIOUS
<1>5. PICK x \in T : \A y \in T : ~(y < x)
  BY <1>2, <1>3, <1>4
<1>6. x # 0 /\ x - 1 \in Nat /\ x - 1 \in S
  BY <1>5
<1> QED
  BY <1>5, <1>6

\* Nothing seen.
Start == [latest |-> [v \in Violations |-> 1], seen |-> <<>>]

\* f is the replay of the events up to n.
Replays(events, f, n) ==
  f = [t \in 0 .. n |-> IF t = 0 THEN Start ELSE Happens(events, f[t - 1], t)]

\* A replay of no time exists,
LEMMA ReplayStarts ==
  ASSUME NEW events
  PROVE  \E f : Replays(events, f, 0)
<1> DEFINE f == [t \in 0 .. 0 |-> Start]
<1>1. f = [t \in 0 .. 0 |-> IF t = 0 THEN Start ELSE Happens(events, f[t - 1], t)]
  OBVIOUS
<1> QED
  BY <1>1 DEF Replays

\* and can go on,
LEMMA ReplayGoesOn ==
  ASSUME NEW events, NEW n \in Nat, NEW f, Replays(events, f, n)
  PROVE  \E g : Replays(events, g, n + 1)
<1> DEFINE Next1(h, t) == IF t = 0 THEN Start ELSE Happens(events, h[t - 1], t)
           g == [t \in 0 .. n + 1 |-> IF t <= n THEN f[t] ELSE Happens(events, f[n], n + 1)]
<1>1. f = [t \in 0 .. n |-> Next1(f, t)]
  BY DEF Replays
<1>2. \A t \in 0 .. n : f[t] = Next1(f, t)
  <2> HIDE DEF Next1
  <2> QED
    BY <1>1
<1>3. \A t \in 0 .. n : g[t] = f[t]
  OBVIOUS
<1>4. g[n + 1] = Happens(events, f[n], n + 1)
  OBVIOUS
<1>5. \A t \in 0 .. n + 1 : t # 0 => t - 1 \in 0 .. n /\ g[t - 1] = f[t - 1]
  BY <1>3
<1> HIDE DEF g
<1>6. ASSUME NEW t \in 0 .. n + 1 PROVE g[t] = Next1(g, t)
  <2>1. CASE t = n + 1
    BY <1>4, <1>5, <2>1
  <2>2. CASE t # n + 1
    BY <1>2, <1>3, <1>5, <2>2
  <2> QED
    BY <2>1, <2>2
<1>7. g = [t \in 0 .. n + 1 |-> g[t]]
  BY DEF g
<1>8. g = [t \in 0 .. n + 1 |-> Next1(g, t)]
  <2> HIDE DEF Next1
  <2> QED
    BY <1>6, <1>7
<1>9. Replays(events, g, n + 1)
  BY <1>8 DEF Replays
<1> QED
  BY <1>9

\* so there is one of any length.
LEMMA ReplayExists ==
  ASSUME NEW events
  PROVE  \A n \in Nat : \E f : Replays(events, f, n)
<1> DEFINE S == {n \in Nat : \E f : Replays(events, f, n)}
<1>1. 0 \in S
  BY ReplayStarts
<1>2. ASSUME NEW n \in Nat, n \in S PROVE n + 1 \in S
  BY <1>2, ReplayGoesOn
<1>3. Nat \subseteq S
  <2> HIDE DEF S
  <2> QED
    BY <1>1, <1>2, SetInduction
<1> QED
  BY <1>3

\* Replay is what its recursive definition says.
LEMMA ReplayStep ==
  ASSUME NEW events
  PROVE  /\ Replay(events)[0] = Start
         /\ \A t \in 1 .. MaxTime : Replay(events)[t] = Happens(events, Replay(events)[t - 1], t)
<1>1. MaxTime \in Nat
  BY DriftAssumption DEF DriftAssumption
<1>2. PICK f : Replays(events, f, MaxTime)
  BY <1>1, ReplayExists
<1>3. Replay(events) = CHOOSE h : Replays(events, h, MaxTime)
  BY DEF Replay, Replays, Start
<1>4. Replays(events, Replay(events), MaxTime)
  BY <1>2, <1>3
<1> DEFINE h == Replay(events)
           Next1(t) == IF t = 0 THEN Start ELSE Happens(events, h[t - 1], t)
<1>5. h = [t \in 0 .. MaxTime |-> Next1(t)]
  BY <1>4 DEF Replays
<1> HIDE DEF h
<1>6. \A t \in 0 .. MaxTime : h[t] = Next1(t)
  <2> HIDE DEF Next1
  <2> QED
    BY <1>5
<1>7. 0 \in 0 .. MaxTime /\ \A t \in 1 .. MaxTime : t \in 0 .. MaxTime /\ t # 0
  BY <1>1
<1>8. h[0] = Start /\ \A t \in 1 .. MaxTime : h[t] = Happens(events, h[t - 1], t)
  BY <1>6, <1>7
<1> QED
  BY <1>8 DEF h

\* What holds at time 0 and is passed on holds at every time.
LEMMA TimeInduction ==
  ASSUME NEW P, 0 \in P, \A t \in 1 .. MaxTime : t - 1 \in P => t \in P
  PROVE  \A t \in 0 .. MaxTime : t \in P
<1>1. MaxTime \in Nat
  BY DriftAssumption DEF DriftAssumption
<1> DEFINE S == {n \in Nat : n \in 0 .. MaxTime => n \in P}
<1>2. 0 \in S
  OBVIOUS
<1>3. ASSUME NEW n \in Nat, n \in S PROVE n + 1 \in S
  <2> SUFFICES ASSUME n + 1 \in 0 .. MaxTime PROVE n + 1 \in P
    OBVIOUS
  <2>1. n \in P /\ n + 1 \in 1 .. MaxTime /\ (n + 1) - 1 = n
    BY <1>1, <1>3
  <2> QED
    BY <2>1
<1>4. Nat \subseteq S
  <2> HIDE DEF S
  <2> QED
    BY <1>2, <1>3, SetInduction
<1> QED
  BY <1>1, <1>4

\* Stored events, no two of them at one time.
Log(events) ==
  /\ events \in Seq(Stored)
  /\ \A m, n \in DOMAIN events : events[m].at = events[n].at => m = n

\* What happens at the time of an event is the event,
LEMMA EventHappens ==
  ASSUME NEW events, Log(events), NEW n \in DOMAIN events, NEW inc
  PROVE  Happens(events, inc, events[n].at) = FoldIncidents(inc, events[n])
<1>1. At(events, events[n].at) = {n}
  BY DEF Log, At
<1>2. (CHOOSE m \in {n} : TRUE) = n
  OBVIOUS
<1> QED
  BY <1>1, <1>2 DEF Happens

\* and at other times nothing.
LEMMA NothingHappens ==
  ASSUME NEW events, NEW inc, NEW t, \A n \in DOMAIN events : events[n].at # t
  PROVE  Happens(events, inc, t) = inc
BY DEF Happens, At

Report == [status : Resolutions \cup {"open"}, occurrences : Nat, promoted : Items \cup {Nothing}]

\* What the replay knows at t: a violation has had no more generations than there were
\* times, the incidents seen are of these generations, and one of the current generation is open.
Shaped(inc, t) ==
  /\ \E latest \in [Violations -> 1 .. t + 1], D \in SUBSET Incidents : \E seen \in [D -> Report] :
       inc = [latest |-> latest, seen |-> seen]
  /\ \A i \in DOMAIN inc.seen :
       /\ i[2] <= inc.latest[i[1]]
       /\ i[2] = inc.latest[i[1]] => inc.seen[i].status = "open"

\* The same, taken apart.
LEMMA ShapedParts ==
  ASSUME NEW t \in Nat, NEW inc, Shaped(inc, t)
  PROVE  /\ inc.latest \in [Violations -> 1 .. t + 1]
         /\ inc.seen \in [DOMAIN inc.seen -> Report]
         /\ DOMAIN inc.seen \subseteq Incidents
         /\ inc = [latest |-> inc.latest, seen |-> inc.seen]
BY DEF Shaped

\* The current incident of v.
Current(inc, v) == <<v, inc.latest[v]>>

\* What an observation does.
LEMMA ObserveEffect ==
  ASSUME NEW t \in 1 .. MaxTime, NEW inc, Shaped(inc, t - 1), NEW v \in Violations
  PROVE  LET new == Observe(inc, v)
             i == Current(inc, v)
         IN  /\ Shaped(new, t)
             /\ new.latest = inc.latest
             /\ i \in Incidents
             /\ DOMAIN new.seen = DOMAIN inc.seen \cup {i}
             /\ \A j \in DOMAIN inc.seen \ {i} : new.seen[j] = inc.seen[j]
             /\ new.seen[i].status = "open"
             /\ new.seen[i].occurrences =
                  (IF i \in DOMAIN inc.seen THEN inc.seen[i].occurrences ELSE 0) + 1
<1> DEFINE new == Observe(inc, v)
           i == Current(inc, v)
           latest == inc.latest
           seen == inc.seen
           D == DOMAIN seen \cup {i}
<1>0. MaxTime \in Nat /\ t \in Nat /\ t - 1 \in Nat
  BY DriftAssumption DEF DriftAssumption
<1>1. /\ latest \in [Violations -> 1 .. t] /\ seen \in [DOMAIN seen -> Report]
      /\ DOMAIN seen \subseteq Incidents /\ inc = [latest |-> latest, seen |-> seen]
  BY <1>0, ShapedParts
<1>2. i \in Incidents /\ i[1] = v /\ i[2] = latest[v]
  BY <1>0, <1>1 DEF Incidents, Current
<1>3. i \in DOMAIN seen => seen[i].status = "open" /\ seen[i] \in Report
  BY <1>1, <1>2 DEF Shaped
<1>4. PICK s \in [D -> Report] :
        /\ new = [latest |-> latest, seen |-> s]
        /\ \A j \in DOMAIN seen \ {i} : s[j] = seen[j]
        /\ s[i].status = "open"
        /\ s[i].occurrences = (IF i \in DOMAIN seen THEN seen[i].occurrences ELSE 0) + 1
  <2>1. CASE i \in DOMAIN seen
    <3> DEFINE s == [seen EXCEPT ![i].occurrences = @ + 1]
    <3>1. new = [latest |-> latest, seen |-> s]
      BY <1>1, <2>1 DEF Observe, Current
    <3>2. s[i] = [seen[i] EXCEPT !.occurrences = @ + 1] /\ \A j \in DOMAIN seen \ {i} : s[j] = seen[j]
      BY <1>1, <2>1
    <3>3. s[i] \in Report /\ s[i].status = "open" /\ s[i].occurrences = seen[i].occurrences + 1
      BY <1>3, <2>1, <3>2 DEF Report
    <3>4. s \in [D -> Report]
      BY <1>1, <2>1, <3>2, <3>3
    <3> QED
      BY <2>1, <3>1, <3>2, <3>3, <3>4
  <2>2. CASE i \notin DOMAIN seen
    <3> DEFINE s == Opened(seen, i)
    <3>1. new = [latest |-> latest, seen |-> s]
      BY <1>1, <2>2 DEF Observe, Current
    <3>2. s[i] = [status |-> "open", occurrences |-> 1, promoted |-> Nothing]
      BY DEF Opened
    <3>3. \A j \in DOMAIN seen \ {i} : s[j] = seen[j]
      BY DEF Opened
    <3>4. s[i] \in Report
      BY <3>2 DEF Report
    <3>5. s \in [D -> Report]
      BY <1>1, <3>3, <3>4 DEF Opened
    <3> QED
      BY <2>2, <3>1, <3>2, <3>3, <3>5
  <2> QED
    BY <2>1, <2>2
<1> HIDE DEF new
<1>5. new.latest = latest /\ new.seen = s
  BY <1>4
<1>6. Shaped(new, t)
  <2>1. latest \in [Violations -> 1 .. t + 1] /\ D \in SUBSET Incidents
    BY <1>0, <1>1, <1>2
  <2>2. \A j \in DOMAIN s : j[2] <= latest[j[1]] /\ (j[2] = latest[j[1]] => s[j].status = "open")
    <3> SUFFICES ASSUME NEW j \in D
                 PROVE  j[2] <= latest[j[1]] /\ (j[2] = latest[j[1]] => s[j].status = "open")
      BY <1>4
    <3>1. CASE j = i
      BY <1>0, <1>1, <1>2, <1>4, <3>1
    <3>2. CASE j # i
      BY <1>4, <3>2 DEF Shaped
    <3> QED
      BY <3>1, <3>2
  <2> QED
    BY <1>4, <1>5, <2>1, <2>2 DEF Shaped
<1> QED
  BY <1>2, <1>4, <1>5, <1>6 DEF new

\* What a resolution does.
LEMMA CloseEffect ==
  ASSUME NEW t \in 1 .. MaxTime, NEW inc, Shaped(inc, t - 1),
         NEW i \in DOMAIN inc.seen, NEW r \in Resolutions
  PROVE  LET new == Close(inc, i, r)
         IN  /\ Shaped(new, t)
             /\ new.latest = [inc.latest EXCEPT ![i[1]] = @ + 1]
             /\ DOMAIN new.seen = DOMAIN inc.seen
             /\ \A j \in DOMAIN inc.seen \ {i} : new.seen[j] = inc.seen[j]
             /\ new.seen[i].status = r
             /\ new.seen[i].occurrences = inc.seen[i].occurrences
<1> DEFINE new == Close(inc, i, r)
           latest == [inc.latest EXCEPT ![i[1]] = @ + 1]
           seen == inc.seen
           s == [seen EXCEPT ![i].status = r]
<1>0. MaxTime \in Nat /\ t \in Nat /\ t - 1 \in Nat
  BY DriftAssumption DEF DriftAssumption
<1>1. /\ inc.latest \in [Violations -> 1 .. t] /\ seen \in [DOMAIN seen -> Report]
      /\ DOMAIN seen \subseteq Incidents /\ inc = [latest |-> inc.latest, seen |-> seen]
  BY <1>0, ShapedParts
<1>2. i \in Incidents /\ i[1] \in Violations
  BY <1>1 DEF Incidents
<1>3. new = [latest |-> latest, seen |-> s]
  BY DEF Close
<1>4. s[i] = [seen[i] EXCEPT !.status = r] /\ \A j \in DOMAIN seen \ {i} : s[j] = seen[j]
  BY <1>1
<1>5. s[i] \in Report /\ s[i].status = r /\ s[i].occurrences = seen[i].occurrences
  BY <1>1, <1>4 DEF Report
<1>6. s \in [DOMAIN seen -> Report] /\ DOMAIN s = DOMAIN seen
  BY <1>1, <1>4, <1>5
<1>7. latest \in [Violations -> 1 .. t + 1]
  BY <1>0, <1>1, <1>2
<1>8. /\ latest[i[1]] = inc.latest[i[1]] + 1
      /\ \A v \in Violations \ {i[1]} : latest[v] = inc.latest[v]
  BY <1>1, <1>2
<1> HIDE DEF new, latest, s
<1>9. new.latest = latest /\ new.seen = s
  BY <1>3
<1>10. \A j \in DOMAIN s : j[2] <= latest[j[1]] /\ (j[2] = latest[j[1]] => s[j].status = "open")
  <2> SUFFICES ASSUME NEW j \in DOMAIN seen
               PROVE  j[2] <= latest[j[1]] /\ (j[2] = latest[j[1]] => s[j].status = "open")
    BY <1>6
  <2>1. /\ j[1] \in Violations /\ j[2] \in Nat /\ inc.latest[j[1]] \in Nat
        /\ j[2] <= inc.latest[j[1]]
        /\ j[2] = inc.latest[j[1]] => seen[j].status = "open"
    BY <1>0, <1>1 DEF Shaped, Incidents
  <2>2. CASE j[1] = i[1]
    BY <1>8, <2>1, <2>2
  <2>3. CASE j[1] # i[1]
    BY <1>4, <1>8, <2>1, <2>3
  <2> QED
    BY <2>2, <2>3
<1>11. Shaped(new, t)
  BY <1>1, <1>3, <1>6, <1>7, <1>9, <1>10 DEF Shaped
<1> QED
  BY <1>4, <1>5, <1>6, <1>9, <1>11 DEF new, latest

\* A resolution adds and removes no occurrences.
LEMMA CloseKeeps ==
  ASSUME NEW t \in 1 .. MaxTime, NEW inc, Shaped(inc, t - 1), NEW i \in DOMAIN inc.seen,
         NEW r \in Resolutions, NEW new, new = Close(inc, i, r)
  PROVE  /\ DOMAIN new.seen = DOMAIN inc.seen
         /\ \A j \in DOMAIN inc.seen : new.seen[j].occurrences = inc.seen[j].occurrences
<1>1. /\ new.latest = [inc.latest EXCEPT ![i[1]] = @ + 1]
      /\ DOMAIN new.seen = DOMAIN inc.seen
      /\ \A j \in DOMAIN inc.seen \ {i} : new.seen[j] = inc.seen[j]
      /\ new.seen[i].status = r
      /\ new.seen[i].occurrences = inc.seen[i].occurrences
  BY CloseEffect
<1> QED
  BY <1>1

\* What a promotion does.
LEMMA PromoteEffect ==
  ASSUME NEW t \in 1 .. MaxTime, NEW inc, Shaped(inc, t - 1), NEW i \in DOMAIN inc.seen
  PROVE  LET new == [inc EXCEPT !.seen[i].promoted = ItemOf[i]]
         IN  /\ Shaped(new, t)
             /\ new.latest = inc.latest
             /\ DOMAIN new.seen = DOMAIN inc.seen
             /\ \A j \in DOMAIN inc.seen : /\ new.seen[j].status = inc.seen[j].status
                                           /\ new.seen[j].occurrences = inc.seen[j].occurrences
<1> DEFINE new == [inc EXCEPT !.seen[i].promoted = ItemOf[i]]
           seen == inc.seen
           s == [seen EXCEPT ![i].promoted = ItemOf[i]]
<1>0. MaxTime \in Nat /\ t \in Nat /\ t - 1 \in Nat
  BY DriftAssumption DEF DriftAssumption
<1>1. /\ inc.latest \in [Violations -> 1 .. t] /\ seen \in [DOMAIN seen -> Report]
      /\ DOMAIN seen \subseteq Incidents /\ inc = [latest |-> inc.latest, seen |-> seen]
  BY <1>0, ShapedParts
<1>2. ItemOf[i] \in Items
  BY <1>1, DriftAssumption DEF DriftAssumption
<1>3. new = [latest |-> inc.latest, seen |-> s]
  BY <1>1
<1>4. s[i] = [seen[i] EXCEPT !.promoted = ItemOf[i]] /\ \A j \in DOMAIN seen \ {i} : s[j] = seen[j]
  BY <1>1
<1>5. s[i] \in Report /\ s[i].status = seen[i].status /\ s[i].occurrences = seen[i].occurrences
  BY <1>1, <1>2, <1>4 DEF Report
<1>6. s \in [DOMAIN seen -> Report] /\ DOMAIN s = DOMAIN seen
  BY <1>1, <1>4, <1>5
<1>7. \A j \in DOMAIN seen : s[j].status = seen[j].status /\ s[j].occurrences = seen[j].occurrences
  BY <1>4, <1>5
<1>8. inc.latest \in [Violations -> 1 .. t + 1]
  BY <1>0, <1>1
<1> HIDE DEF new, s
<1>9. new.latest = inc.latest /\ new.seen = s
  BY <1>3
<1>10. \A j \in DOMAIN s :
         j[2] <= inc.latest[j[1]] /\ (j[2] = inc.latest[j[1]] => s[j].status = "open")
  BY <1>6, <1>7 DEF Shaped
<1>11. Shaped(new, t)
  BY <1>1, <1>3, <1>6, <1>8, <1>9, <1>10 DEF Shaped
<1> QED
  BY <1>6, <1>7, <1>9, <1>11 DEF new

\* Time passing alone.
LEMMA ShapedLater ==
  ASSUME NEW t \in 1 .. MaxTime, NEW inc, Shaped(inc, t - 1)
  PROVE  Shaped(inc, t)
<1>0. MaxTime \in Nat /\ t \in Nat /\ t - 1 \in Nat
  BY DriftAssumption DEF DriftAssumption
<1>1. PICK latest \in [Violations -> 1 .. t], D \in SUBSET Incidents :
        \E seen \in [D -> Report] : inc = [latest |-> latest, seen |-> seen]
  BY <1>0 DEF Shaped
<1>2. latest \in [Violations -> 1 .. t + 1]
  BY <1>0, <1>1
<1> QED
  BY <1>1, <1>2 DEF Shaped

\* What an event does to what is known.
Effect(inc, e, new) ==
  \/ /\ e.type = "RuntimeObservationRecorded"
     /\ e.of \in Violations
     /\ new = Observe(inc, e.of)
  \/ /\ e.type = "DriftIncidentResolved"
     /\ e.of \in DOMAIN inc.seen /\ e.as \in Resolutions
     /\ new = Close(inc, e.of, e.as)
  \/ /\ e.type = "DriftPromotedToCandidate"
     /\ e.of \in DOMAIN inc.seen
     /\ new = [inc EXCEPT !.seen[e.of].promoted = ItemOf[e.of]]
  \/ /\ e.type # "RuntimeObservationRecorded"
     /\ e.type = "DriftIncidentResolved" => e.of \notin DOMAIN inc.seen
     /\ new = inc

\* FoldIncidents has one of these effects.
LEMMA FoldHasEffect ==
  ASSUME NEW inc, NEW e \in Stored
  PROVE  Effect(inc, e, FoldIncidents(inc, e))
<1>1. \/ e.type = "RuntimeObservationRecorded" /\ e.of \in Violations
      \/ e.type = "DriftIncidentResolved" /\ e.as \in Resolutions
      \/ e.type = "DriftPromotedToCandidate"
      \/ e.type \in OnItem
  BY StoredKinds
<1>2. CASE e.type = "RuntimeObservationRecorded"
  BY <1>1, <1>2 DEF Effect, FoldIncidents, OnItem
<1>3. CASE e.type = "DriftIncidentResolved"
  <2>1. CASE e.of \in DOMAIN inc.seen
    BY <1>1, <1>3, <2>1 DEF Effect, FoldIncidents, OnItem
  <2>2. CASE e.of \notin DOMAIN inc.seen
    BY <1>1, <1>3, <2>2 DEF Effect, FoldIncidents, OnItem
  <2> QED
    BY <2>1, <2>2
<1>4. CASE e.type = "DriftPromotedToCandidate"
  <2>1. CASE e.of \in DOMAIN inc.seen
    BY <1>1, <1>4, <2>1 DEF Effect, FoldIncidents, OnItem
  <2>2. CASE e.of \notin DOMAIN inc.seen
    BY <1>1, <1>4, <2>2 DEF Effect, FoldIncidents, OnItem
  <2> QED
    BY <2>1, <2>2
<1>5. CASE e.type \in OnItem
  BY <1>1, <1>5 DEF Effect, FoldIncidents, OnItem
<1> QED
  BY <1>1, <1>2, <1>3, <1>4, <1>5

\* Every effect keeps the shape.
LEMMA EffectShaped ==
  ASSUME NEW t \in 1 .. MaxTime, NEW inc, Shaped(inc, t - 1), NEW e, NEW new, Effect(inc, e, new)
  PROVE  Shaped(new, t)
<1>1. CASE e.of \in Violations /\ new = Observe(inc, e.of)
  BY <1>1, ObserveEffect
<1>2. CASE e.of \in DOMAIN inc.seen /\ e.as \in Resolutions /\ new = Close(inc, e.of, e.as)
  BY <1>2, CloseEffect
<1>3. CASE e.of \in DOMAIN inc.seen /\ new = [inc EXCEPT !.seen[e.of].promoted = ItemOf[e.of]]
  <2> DEFINE i == e.of
  <2>1. i \in DOMAIN inc.seen /\ new = [inc EXCEPT !.seen[i].promoted = ItemOf[i]]
    BY <1>3
  <2> HIDE DEF i
  <2> QED
    BY <2>1, PromoteEffect
<1>4. CASE new = inc
  BY <1>4, ShapedLater
<1> QED
  BY <1>1, <1>2, <1>3, <1>4 DEF Effect

\* Other events than observations and resolutions change neither what is seen nor the
\* status and the occurrences of it.
LEMMA OtherEffect ==
  ASSUME NEW t \in 1 .. MaxTime, NEW inc, Shaped(inc, t - 1), NEW e, NEW new, Effect(inc, e, new),
         e.type \notin {"RuntimeObservationRecorded", "DriftIncidentResolved"}
  PROVE  /\ new.latest = inc.latest
         /\ DOMAIN new.seen = DOMAIN inc.seen
         /\ \A j \in DOMAIN inc.seen : /\ new.seen[j].status = inc.seen[j].status
                                       /\ new.seen[j].occurrences = inc.seen[j].occurrences
<1>1. CASE e.of \in DOMAIN inc.seen /\ new = [inc EXCEPT !.seen[e.of].promoted = ItemOf[e.of]]
  <2> DEFINE i == e.of
  <2>1. i \in DOMAIN inc.seen /\ new = [inc EXCEPT !.seen[i].promoted = ItemOf[i]]
    BY <1>1
  <2> HIDE DEF i
  <2> QED
    BY <2>1, PromoteEffect
<1>2. CASE new = inc
  BY <1>2
<1> QED
  BY <1>1, <1>2 DEF Effect

\* From one time to the next: an event has its effect, or there is none.
LEMMA ReplayMoves ==
  ASSUME NEW events, Log(events), NEW t \in 1 .. MaxTime
  PROVE  \/ /\ \A n \in DOMAIN events : events[n].at # t
            /\ Replay(events)[t] = Replay(events)[t - 1]
         \/ \E n \in DOMAIN events : /\ events[n].at = t
                                     /\ Effect(Replay(events)[t - 1], events[n], Replay(events)[t])
<1>1. Replay(events)[t] = Happens(events, Replay(events)[t - 1], t)
  BY ReplayStep
<1>2. CASE \A n \in DOMAIN events : events[n].at # t
  BY <1>1, <1>2, NothingHappens
<1>3. CASE \E n \in DOMAIN events : events[n].at = t
  <2>1. PICK n \in DOMAIN events : events[n].at = t
    BY <1>3
  <2>2. events[n] \in Stored
    BY DEF Log
  <2>3. Replay(events)[t] = FoldIncidents(Replay(events)[t - 1], events[n])
    BY <1>1, <2>1, EventHappens
  <2> QED
    BY <2>1, <2>2, <2>3, FoldHasEffect
<1> QED
  BY <1>2, <1>3

\* What is known is shaped at all times.
LEMMA ReplayShaped ==
  ASSUME NEW events, Log(events)
  PROVE  \A t \in 0 .. MaxTime : Shaped(Replay(events)[t], t)
<1>0. MaxTime \in Nat
  BY DriftAssumption DEF DriftAssumption
<1> DEFINE P == {t \in 0 .. MaxTime : Shaped(Replay(events)[t], t)}
<1>1. 0 \in P
  <2> DEFINE latest == [v \in Violations |-> 1]
             seen == <<>>
  <2>1. latest \in [Violations -> 1 .. 0 + 1] /\ {} \in SUBSET Incidents /\ seen \in [{} -> Report]
    OBVIOUS
  <2>2. Start.latest = latest /\ Start.seen = seen /\ Start = [latest |-> latest, seen |-> seen]
    BY DEF Start
  <2>3. Shaped(Start, 0)
    <3> HIDE DEF latest
    <3> QED
      BY <2>1, <2>2 DEF Shaped
  <2> QED
    BY <1>0, <2>3, ReplayStep
<1>2. ASSUME NEW t \in 1 .. MaxTime, t - 1 \in P PROVE t \in P
  <2>1. Shaped(Replay(events)[t - 1], t - 1) /\ t \in 0 .. MaxTime
    BY <1>0, <1>2
  <2>2. CASE Replay(events)[t] = Replay(events)[t - 1]
    BY <2>1, <2>2, ShapedLater
  <2>3. CASE \E n \in DOMAIN events : Effect(Replay(events)[t - 1], events[n], Replay(events)[t])
    BY <2>1, <2>3, EffectShaped
  <2> QED
    BY <2>2, <2>3, ReplayMoves
<1> HIDE DEF P
<1>3. \A t \in 0 .. MaxTime : t \in P
  BY <1>1, <1>2, TimeInduction
<1> QED
  BY <1>3 DEF P

\* An observation later than all resolutions so far has an incident of the current generation.
Surfaced(events, inc, t) ==
  \A v \in Violations :
    (\E n \in Observed(events, v) :
       /\ events[n].at <= t
       /\ \A r \in Resolved(events, v) : events[r].at <= t => events[r].at < events[n].at)
    => Current(inc, v) \in DOMAIN inc.seen

\* No resolution buries a later observation.
LEMMA ReplaySurfaces ==
  ASSUME NEW events, Log(events)
  PROVE  \A t \in 0 .. MaxTime : Surfaced(events, Replay(events)[t], t)
<1>0. MaxTime \in Nat
  BY DriftAssumption DEF DriftAssumption
<1>1. \A n \in DOMAIN events : /\ events[n] \in Stored /\ events[n].at \in Nat /\ events[n].at >= 1
                               /\ events[n].type = "DriftIncidentResolved" => events[n].of \in Incidents
  BY <1>0, StoredKinds DEF Log, OnItem
<1> DEFINE P == {t \in 0 .. MaxTime : Surfaced(events, Replay(events)[t], t)}
<1>2. 0 \in P
  BY <1>0, <1>1 DEF Surfaced, Observed
<1>3. ASSUME NEW t \in 1 .. MaxTime, t - 1 \in P PROVE t \in P
  <2> DEFINE old == Replay(events)[t - 1]
             new == Replay(events)[t]
  <2>1. Surfaced(events, old, t - 1) /\ Shaped(old, t - 1) /\ t \in 0 .. MaxTime
    BY <1>0, <1>3, ReplayShaped
  <2> HIDE DEF old, new
  <2> SUFFICES ASSUME NEW v \in Violations, NEW n \in Observed(events, v), events[n].at <= t,
                      \A r \in Resolved(events, v) : events[r].at <= t => events[r].at < events[n].at
               PROVE  Current(new, v) \in DOMAIN new.seen
    BY <2>1 DEF Surfaced, new
  <2>2. n \in DOMAIN events /\ events[n].type = "RuntimeObservationRecorded" /\ events[n].of = v
    BY DEF Observed
  \* An earlier observation has surfaced already.
  <2>3. events[n].at # t => Current(old, v) \in DOMAIN old.seen
    <3> SUFFICES ASSUME events[n].at # t PROVE Current(old, v) \in DOMAIN old.seen
      OBVIOUS
    <3>1. events[n].at <= t - 1
      BY <1>0, <1>1, <2>2
    <3>2. \A r \in Resolved(events, v) : events[r].at <= t - 1 => events[r].at < events[n].at
      BY <1>0, <1>1 DEF Resolved
    <3> QED
      BY <2>1, <3>1, <3>2 DEF Surfaced
  <2>4. CASE \A m \in DOMAIN events : events[m].at # t
    <3>1. new = old
      BY <2>4, ReplayMoves DEF new, old
    <3> QED
      BY <2>2, <2>3, <2>4, <3>1
  <2>5. ASSUME NEW m \in DOMAIN events, events[m].at = t, Effect(old, events[m], new)
        PROVE  Current(new, v) \in DOMAIN new.seen
    <3>1. m # n => Current(old, v) \in DOMAIN old.seen
      BY <2>2, <2>3, <2>5 DEF Log
    <3>2. CASE events[m].type = "RuntimeObservationRecorded"
      <4>1. events[m].of \in Violations /\ new = Observe(old, events[m].of)
        BY <2>5, <3>2 DEF Effect
      <4>2. new.latest = old.latest /\ DOMAIN new.seen = DOMAIN old.seen \cup {Current(old, events[m].of)}
        BY <2>1, <4>1, ObserveEffect
      <4> QED
        BY <2>2, <3>1, <4>2 DEF Current
    <3>3. CASE events[m].type = "DriftIncidentResolved"
      <4>1. m # n /\ events[m].of[1] # v
        <5>1. m \notin Resolved(events, v)
          BY <1>0, <1>1, <2>2, <2>5
        <5> QED
          BY <2>2, <3>3, <5>1 DEF Resolved
      <4>2. CASE events[m].of \notin DOMAIN old.seen
        <5>1. new = old
          BY <2>5, <3>3, <4>2 DEF Effect
        <5> QED
          BY <3>1, <4>1, <5>1
      <4>3. CASE events[m].of \in DOMAIN old.seen
        <5>1. events[m].as \in Resolutions /\ new = Close(old, events[m].of, events[m].as)
          BY <2>5, <3>3, <4>3 DEF Effect
        <5>2. /\ new.latest = [old.latest EXCEPT ![events[m].of[1]] = @ + 1]
              /\ DOMAIN new.seen = DOMAIN old.seen
          BY <2>1, <4>3, <5>1, CloseEffect
        <5>3. old.latest \in [Violations -> 1 .. (t - 1) + 1]
          <6>1. t - 1 \in Nat
            BY <1>0
          <6> QED
            BY <2>1, <6>1, ShapedParts
        <5>4. new.latest[v] = old.latest[v]
          BY <4>1, <5>2, <5>3
        <5> QED
          BY <3>1, <4>1, <5>2, <5>4 DEF Current
      <4> QED
        BY <4>2, <4>3
    <3>4. CASE events[m].type \notin {"RuntimeObservationRecorded", "DriftIncidentResolved"}
      <4>1. m # n
        BY <2>2, <3>4
      <4>2. new.latest = old.latest /\ DOMAIN new.seen = DOMAIN old.seen
        BY <2>1, <2>5, <3>4, OtherEffect
      <4> QED
        BY <3>1, <4>1, <4>2 DEF Current
    <3> QED
      BY <3>2, <3>3, <3>4
  <2> QED
    BY <2>4, <2>5, ReplayMoves DEF new, old
<1> HIDE DEF P
<1>4. \A t \in 0 .. MaxTime : t \in P
  BY <1>2, <1>3, TimeInduction
<1> QED
  BY <1>4 DEF P

\* As long as no incident is resolved twice, an incident that is not of the current
\* generation is closed, by an event that says so.
Tidy(events, inc, t) ==
  \A i \in DOMAIN inc.seen : i[2] # inc.latest[i[1]] =>
    /\ inc.seen[i].status # "open"
    /\ \E n \in DOMAIN events :
         events[n].type = "DriftIncidentResolved" /\ events[n].of = i /\ events[n].at <= t

\* The replay leaves no incident of an earlier generation open.
LEMMA ReplayTidies ==
  ASSUME NEW events, Log(events), ResolvedOnce(events)
  PROVE  \A t \in 0 .. MaxTime : Tidy(events, Replay(events)[t], t)
<1>0. MaxTime \in Nat
  BY DriftAssumption DEF DriftAssumption
<1>1. \A n \in DOMAIN events : events[n].at \in Nat
  BY <1>0, StoredKinds DEF Log
<1> DEFINE P == {t \in 0 .. MaxTime : Tidy(events, Replay(events)[t], t)}
<1>2. 0 \in P
  BY <1>0, ReplayStep DEF Tidy, Start
<1>3. ASSUME NEW t \in 1 .. MaxTime, t - 1 \in P PROVE t \in P
  <2> DEFINE old == Replay(events)[t - 1]
             new == Replay(events)[t]
  <2>0. t \in Nat /\ t - 1 \in Nat /\ t \in 0 .. MaxTime
    BY <1>0
  <2>1. Tidy(events, old, t - 1) /\ Shaped(old, t - 1)
    BY <1>0, <1>3, ReplayShaped
  <2> HIDE DEF old, new
  <2>2. /\ old.latest \in [Violations -> 1 .. (t - 1) + 1] /\ old.seen \in [DOMAIN old.seen -> Report]
        /\ DOMAIN old.seen \subseteq Incidents
    BY <2>0, <2>1, ShapedParts
  \* What was tidy stays so.
  <2>3. ASSUME NEW i \in DOMAIN old.seen, i[2] # old.latest[i[1]]
        PROVE  /\ old.seen[i].status # "open"
               /\ \E n \in DOMAIN events :
                    events[n].type = "DriftIncidentResolved" /\ events[n].of = i /\ events[n].at <= t
    BY <1>1, <2>0, <2>1, <2>3 DEF Tidy
  <2> SUFFICES Tidy(events, new, t)
    BY <2>0 DEF new
  <2>4. CASE new = old
    BY <2>3, <2>4 DEF Tidy
  <2>5. ASSUME NEW m \in DOMAIN events, events[m].at = t, Effect(old, events[m], new)
        PROVE  Tidy(events, new, t)
    <3> DEFINE e == events[m]
    <3>1. CASE e.type = "RuntimeObservationRecorded"
      <4>1. e.of \in Violations /\ new = Observe(old, e.of)
        BY <2>5, <3>1 DEF Effect
      <4> DEFINE j == Current(old, e.of)
      <4>2. /\ new.latest = old.latest /\ DOMAIN new.seen = DOMAIN old.seen \cup {j}
            /\ \A i \in DOMAIN old.seen \ {j} : new.seen[i] = old.seen[i]
        BY <2>1, <4>1, ObserveEffect
      <4>3. j[2] = new.latest[j[1]]
        BY <4>2 DEF Current
      <4> HIDE DEF j
      <4> QED
        BY <2>3, <4>2, <4>3 DEF Tidy
    <3>2. CASE e.type = "DriftIncidentResolved" /\ e.of \in DOMAIN old.seen
      <4> DEFINE i == e.of
                 v == i[1]
      <4>1. e.as \in Resolutions /\ new = Close(old, i, e.as) /\ i \in DOMAIN old.seen
        BY <2>5, <3>2 DEF Effect
      <4>2. /\ new.latest = [old.latest EXCEPT ![v] = @ + 1]
            /\ DOMAIN new.seen = DOMAIN old.seen
            /\ \A j \in DOMAIN old.seen \ {i} : new.seen[j] = old.seen[j]
            /\ new.seen[i].status = e.as
        <5> HIDE DEF i
        <5> QED
          BY <2>1, <4>1, CloseEffect
      \* It was the current one, or it would have been resolved before.
      <4>3. i[2] = old.latest[v]
        <5> SUFFICES ASSUME i[2] # old.latest[v] PROVE FALSE
          OBVIOUS
        <5>1. PICK n \in DOMAIN events :
                events[n].type = "DriftIncidentResolved" /\ events[n].of = i /\ events[n].at <= t - 1
          BY <2>1, <4>1 DEF Tidy
        <5>2. n = m
          BY <3>2, <5>1 DEF ResolvedOnce
        <5> QED
          BY <2>0, <2>5, <5>1, <5>2
      <4>4. e.as # "open"
        BY <4>1, DriftAssumption DEF DriftAssumption
      <4>5. ASSUME NEW j \in DOMAIN new.seen, j[2] # new.latest[j[1]]
            PROVE  /\ new.seen[j].status # "open"
                   /\ \E n \in DOMAIN events :
                        events[n].type = "DriftIncidentResolved" /\ events[n].of = j /\ events[n].at <= t
        <5>1. CASE j = i
          BY <2>0, <2>5, <3>2, <4>2, <4>4, <5>1
        <5>2. CASE j # i
          <6>1. j \in Incidents /\ i \in Incidents /\ j \in DOMAIN old.seen
            BY <2>2, <4>1, <4>2
          <6>2. j[2] # old.latest[j[1]]
            <7>1. CASE j[1] = v
              <8>1. j = <<j[1], j[2]>> /\ i = <<v, i[2]>>
                BY <6>1 DEF Incidents
              <8> QED
                BY <4>3, <5>2, <7>1, <8>1
            <7>2. CASE j[1] # v
              BY <2>2, <4>2, <4>5, <6>1, <7>2 DEF Incidents
            <7> QED
              BY <7>1, <7>2
          <6> QED
            BY <2>3, <4>2, <5>2, <6>1, <6>2
        <5> QED
          BY <5>1, <5>2
      <4> QED
        BY <4>5 DEF Tidy
    <3>3. CASE e.type = "DriftIncidentResolved" /\ e.of \notin DOMAIN old.seen
      <4>1. new = old
        BY <2>5, <3>3 DEF Effect
      <4> QED
        BY <2>4, <4>1
    <3>4. CASE e.type \notin {"RuntimeObservationRecorded", "DriftIncidentResolved"}
      <4>1. /\ new.latest = old.latest /\ DOMAIN new.seen = DOMAIN old.seen
            /\ \A i \in DOMAIN old.seen : new.seen[i].status = old.seen[i].status
        BY <2>1, <2>5, <3>4, OtherEffect
      <4> QED
        BY <2>3, <4>1 DEF Tidy
    <3> QED
      BY <3>1, <3>2, <3>3, <3>4
  <2> QED
    BY <2>4, <2>5, ReplayMoves DEF new, old
<1> HIDE DEF P
<1>4. \A t \in 0 .. MaxTime : t \in P
  BY <1>2, <1>3, TimeInduction
<1> QED
  BY <1>4 DEF P
-----------------------------------------------------------------------------
\* f are the sums up to n.
SumsUpTo(seen, v, f, n) ==
  f = [g \in 0 .. n |-> IF g = 0 THEN 0 ELSE f[g - 1] + Occurrences(seen, <<v, g>>)]

\* There are such sums.
LEMMA SumsExist ==
  ASSUME NEW seen, NEW v
  PROVE  \A n \in Nat : \E f : SumsUpTo(seen, v, f, n)
<1> DEFINE S == {n \in Nat : \E f : SumsUpTo(seen, v, f, n)}
<1>1. 0 \in S
  <2> DEFINE f == [g \in 0 .. 0 |-> 0]
  <2>1. f = [g \in 0 .. 0 |-> IF g = 0 THEN 0 ELSE f[g - 1] + Occurrences(seen, <<v, g>>)]
    OBVIOUS
  <2>2. SumsUpTo(seen, v, f, 0)
    BY <2>1 DEF SumsUpTo
  <2> QED
    BY <2>2
<1>2. ASSUME NEW n \in Nat, n \in S PROVE n + 1 \in S
  <2>1. PICK f : SumsUpTo(seen, v, f, n)
    BY <1>2
  <2> DEFINE Next1(h, g) == IF g = 0 THEN 0 ELSE h[g - 1] + Occurrences(seen, <<v, g>>)
             h == [g \in 0 .. n + 1 |-> IF g <= n THEN f[g] ELSE f[n] + Occurrences(seen, <<v, n + 1>>)]
  <2>2. \A g \in 0 .. n : f[g] = Next1(f, g)
    <3>1. f = [g \in 0 .. n |-> Next1(f, g)]
      BY <2>1 DEF SumsUpTo
    <3> HIDE DEF Next1
    <3> QED
      BY <3>1
  <2>3. \A g \in 0 .. n : h[g] = f[g]
    OBVIOUS
  <2>4. h[n + 1] = f[n] + Occurrences(seen, <<v, n + 1>>)
    OBVIOUS
  <2>5. \A g \in 0 .. n + 1 : g # 0 => g - 1 \in 0 .. n /\ h[g - 1] = f[g - 1]
    BY <2>3
  <2> HIDE DEF h
  <2>6. ASSUME NEW g \in 0 .. n + 1 PROVE h[g] = Next1(h, g)
    <3>1. CASE g = n + 1
      BY <2>4, <2>5, <3>1
    <3>2. CASE g # n + 1
      BY <2>2, <2>3, <2>5, <3>2
    <3> QED
      BY <3>1, <3>2
  <2>7. h = [g \in 0 .. n + 1 |-> h[g]]
    BY DEF h
  <2>8. h = [g \in 0 .. n + 1 |-> Next1(h, g)]
    <3> HIDE DEF Next1
    <3> QED
      BY <2>6, <2>7
  <2>9. SumsUpTo(seen, v, h, n + 1)
    BY <2>8 DEF SumsUpTo
  <2> QED
    BY <2>9
<1>3. Nat \subseteq S
  <2> HIDE DEF S
  <2> QED
    BY <1>1, <1>2, SetInduction
<1> QED
  BY <1>3

\* Sums is what its recursive definition says.
LEMMA SumsAdd ==
  ASSUME NEW seen, NEW v
  PROVE  /\ Sums(seen, v)[0] = 0
         /\ \A g \in 1 .. MaxTime :
              Sums(seen, v)[g] = Sums(seen, v)[g - 1] + Occurrences(seen, <<v, g>>)
<1>1. MaxTime \in Nat
  BY DriftAssumption DEF DriftAssumption
<1>2. PICK f : SumsUpTo(seen, v, f, MaxTime)
  BY <1>1, SumsExist
<1>3. Sums(seen, v) = CHOOSE h : SumsUpTo(seen, v, h, MaxTime)
  BY DEF Sums, SumsUpTo
<1>4. SumsUpTo(seen, v, Sums(seen, v), MaxTime)
  BY <1>2, <1>3
<1> DEFINE h == Sums(seen, v)
           Next1(g) == IF g = 0 THEN 0 ELSE h[g - 1] + Occurrences(seen, <<v, g>>)
<1>5. h = [g \in 0 .. MaxTime |-> Next1(g)]
  BY <1>4 DEF SumsUpTo
<1> HIDE DEF h
<1>6. \A g \in 0 .. MaxTime : h[g] = Next1(g)
  <2> HIDE DEF Next1
  <2> QED
    BY <1>5
<1>7. 0 \in 0 .. MaxTime /\ \A g \in 1 .. MaxTime : g \in 0 .. MaxTime /\ g # 0
  BY <1>1
<1>8. h[0] = 0 /\ \A g \in 1 .. MaxTime : h[g] = h[g - 1] + Occurrences(seen, <<v, g>>)
  BY <1>6, <1>7
<1> QED
  BY <1>8 DEF h

\* Sums of natural numbers are natural numbers.
LEMMA SumsNat ==
  ASSUME NEW seen, NEW v, \A g \in 1 .. MaxTime : Occurrences(seen, <<v, g>>) \in Nat
  PROVE  \A g \in 0 .. MaxTime : Sums(seen, v)[g] \in Nat
<1>1. MaxTime \in Nat
  BY DriftAssumption DEF DriftAssumption
<1> DEFINE P == {g \in 0 .. MaxTime : Sums(seen, v)[g] \in Nat}
<1>2. 0 \in P
  BY <1>1, SumsAdd
<1>3. ASSUME NEW g \in 1 .. MaxTime, g - 1 \in P PROVE g \in P
  <2>1. /\ Sums(seen, v)[g] = Sums(seen, v)[g - 1] + Occurrences(seen, <<v, g>>)
        /\ Sums(seen, v)[g - 1] \in Nat /\ Occurrences(seen, <<v, g>>) \in Nat /\ g \in 0 .. MaxTime
    BY <1>1, <1>3, SumsAdd
  <2> QED
    BY <2>1
<1> HIDE DEF P
<1>4. \A g \in 0 .. MaxTime : g \in P
  BY <1>2, <1>3, TimeInduction
<1> QED
  BY <1>4 DEF P

\* The same occurrences, the same sum.
LEMMA SumsSame ==
  ASSUME NEW old, NEW new, NEW v,
         \A g \in 1 .. MaxTime : Occurrences(new, <<v, g>>) = Occurrences(old, <<v, g>>)
  PROVE  \A g \in 0 .. MaxTime : Sums(new, v)[g] = Sums(old, v)[g]
<1>1. MaxTime \in Nat
  BY DriftAssumption DEF DriftAssumption
<1> DEFINE P == {g \in 0 .. MaxTime : Sums(new, v)[g] = Sums(old, v)[g]}
<1>2. 0 \in P
  BY <1>1, SumsAdd
<1>3. ASSUME NEW g \in 1 .. MaxTime, g - 1 \in P PROVE g \in P
  <2>1. /\ Sums(new, v)[g] = Sums(new, v)[g - 1] + Occurrences(new, <<v, g>>)
        /\ Sums(old, v)[g] = Sums(old, v)[g - 1] + Occurrences(old, <<v, g>>)
        /\ Sums(new, v)[g - 1] = Sums(old, v)[g - 1] /\ g \in 0 .. MaxTime
    BY <1>1, <1>3, SumsAdd
  <2> QED
    BY <2>1
<1> HIDE DEF P
<1>4. \A g \in 0 .. MaxTime : g \in P
  BY <1>2, <1>3, TimeInduction
<1> QED
  BY <1>4 DEF P

\* One occurrence more in one generation is one more in all.
LEMMA SumsOneMore ==
  ASSUME NEW old, NEW new, NEW v, NEW h \in 1 .. MaxTime,
         \A g \in 1 .. MaxTime : Occurrences(old, <<v, g>>) \in Nat,
         \A g \in (1 .. MaxTime) \ {h} : Occurrences(new, <<v, g>>) = Occurrences(old, <<v, g>>),
         Occurrences(new, <<v, h>>) = Occurrences(old, <<v, h>>) + 1
  PROVE  Sums(new, v)[MaxTime] = Sums(old, v)[MaxTime] + 1
<1>1. MaxTime \in Nat /\ h \in Nat
  BY DriftAssumption DEF DriftAssumption
<1> DEFINE P == {g \in 0 .. MaxTime : Sums(new, v)[g] = Sums(old, v)[g] + (IF g < h THEN 0 ELSE 1)}
<1>2. 0 \in P
  BY <1>1, SumsAdd
<1>3. ASSUME NEW g \in 1 .. MaxTime, g - 1 \in P PROVE g \in P
  <2>1. /\ Sums(new, v)[g] = Sums(new, v)[g - 1] + Occurrences(new, <<v, g>>)
        /\ Sums(old, v)[g] = Sums(old, v)[g - 1] + Occurrences(old, <<v, g>>)
        /\ Sums(new, v)[g - 1] = Sums(old, v)[g - 1] + (IF g - 1 < h THEN 0 ELSE 1)
        /\ g \in 0 .. MaxTime /\ g - 1 \in 0 .. MaxTime
    BY <1>1, <1>3, SumsAdd
  <2>2. Sums(old, v)[g - 1] \in Nat /\ Occurrences(old, <<v, g>>) \in Nat
    BY <2>1, SumsNat
  <2>3. CASE g = h
    BY <1>1, <2>1, <2>2, <2>3
  <2>4. CASE g # h
    BY <1>1, <2>1, <2>2, <2>4
  <2> QED
    BY <2>3, <2>4
<1> HIDE DEF P
<1>4. \A g \in 0 .. MaxTime : g \in P
  BY <1>2, <1>3, TimeInduction
<1>5. MaxTime \in P
  BY <1>1, <1>4
<1> QED
  BY <1>1, <1>5 DEF P

\* Nothing seen adds up to nothing.
LEMMA SumsZero ==
  ASSUME NEW v
  PROVE  Sums(<<>>, v)[MaxTime] = 0
<1>1. MaxTime \in Nat
  BY DriftAssumption DEF DriftAssumption
<1> DEFINE P == {g \in 0 .. MaxTime : Sums(<<>>, v)[g] = 0}
<1>2. 0 \in P
  BY <1>1, SumsAdd
<1>3. ASSUME NEW g \in 1 .. MaxTime, g - 1 \in P PROVE g \in P
  <2>1. /\ Sums(<<>>, v)[g] = Sums(<<>>, v)[g - 1] + Occurrences(<<>>, <<v, g>>)
        /\ Sums(<<>>, v)[g - 1] = 0 /\ g \in 0 .. MaxTime
    BY <1>1, <1>3, SumsAdd
  <2>2. Occurrences(<<>>, <<v, g>>) = 0
    BY DEF Occurrences
  <2> QED
    BY <2>1, <2>2
<1> HIDE DEF P
<1>4. \A g \in 0 .. MaxTime : g \in P
  BY <1>2, <1>3, TimeInduction
<1>5. MaxTime \in P
  BY <1>1, <1>4
<1> QED
  BY <1>5 DEF P

\* The observations of v up to t.
ObservedBy(events, v, t) == {n \in Observed(events, v) : events[n].at <= t}

Counted(events, inc, t) ==
  \A v \in Violations : Sums(inc.seen, v)[MaxTime] = Cardinality(ObservedBy(events, v, t))

\* The occurrences of the incidents are the observations so far.
LEMMA ReplayCounts ==
  ASSUME NEW events, Log(events)
  PROVE  \A t \in 0 .. MaxTime : Counted(events, Replay(events)[t], t)
<1>0. MaxTime \in Nat
  BY DriftAssumption DEF DriftAssumption
<1>1. \A n \in DOMAIN events : events[n].at \in Nat /\ events[n].at >= 1
  BY <1>0, StoredKinds DEF Log
<1> DEFINE P == {t \in 0 .. MaxTime : Counted(events, Replay(events)[t], t)}
<1>2. 0 \in P
  <2>1. \A v \in Violations : ObservedBy(events, v, 0) = {}
    BY <1>1 DEF ObservedBy, Observed
  <2>2. Replay(events)[0].seen = <<>>
    BY ReplayStep DEF Start
  <2>3. Cardinality({}) = 0
    BY FS_EmptySet
  <2> QED
    <3>1. Counted(events, Replay(events)[0], 0)
      BY <2>1, <2>2, <2>3, SumsZero DEF Counted
    <3> QED
      BY <1>0, <3>1
<1>3. ASSUME NEW t \in 1 .. MaxTime, t - 1 \in P PROVE t \in P
  <2> DEFINE old == Replay(events)[t - 1]
             new == Replay(events)[t]
  <2>0. t \in Nat /\ t - 1 \in Nat /\ t \in 0 .. MaxTime
    BY <1>0
  <2>1. Counted(events, old, t - 1) /\ Shaped(old, t - 1)
    BY <1>0, <1>3, ReplayShaped
  <2> HIDE DEF old, new
  <2>2. /\ old.latest \in [Violations -> 1 .. (t - 1) + 1] /\ old.seen \in [DOMAIN old.seen -> Report]
    BY <2>0, <2>1, ShapedParts
  <2>3. \A i : Occurrences(old.seen, i) \in Nat
    BY <2>2 DEF Occurrences, Report
  <2> SUFFICES ASSUME NEW v \in Violations
               PROVE  Sums(new.seen, v)[MaxTime] = Cardinality(ObservedBy(events, v, t))
    BY <2>0 DEF Counted, new
  <2>4. Sums(old.seen, v)[MaxTime] = Cardinality(ObservedBy(events, v, t - 1))
    BY <2>1 DEF Counted
  <2>5. ASSUME \A n \in Observed(events, v) : events[n].at # t,
               \A i : Occurrences(new.seen, i) = Occurrences(old.seen, i) \/ i[1] # v
        PROVE  Sums(new.seen, v)[MaxTime] = Cardinality(ObservedBy(events, v, t))
    <3>1. ObservedBy(events, v, t) = ObservedBy(events, v, t - 1)
      BY <1>1, <2>0, <2>5 DEF ObservedBy, Observed
    <3>2. \A g \in 1 .. MaxTime : Occurrences(new.seen, <<v, g>>) = Occurrences(old.seen, <<v, g>>)
      BY <2>5
    <3>3. Sums(new.seen, v)[MaxTime] = Sums(old.seen, v)[MaxTime]
      BY <1>0, <3>2, SumsSame
    <3> QED
      BY <2>4, <3>1, <3>3
  <2>6. CASE \A n \in DOMAIN events : events[n].at # t
    <3>1. new = old
      BY <2>6, ReplayMoves DEF new, old
    <3> QED
      BY <2>5, <2>6, <3>1 DEF Observed
  <2>7. ASSUME NEW m \in DOMAIN events, events[m].at = t, Effect(old, events[m], new)
        PROVE  Sums(new.seen, v)[MaxTime] = Cardinality(ObservedBy(events, v, t))
    <3> DEFINE e == events[m]
    <3>0. \A n \in DOMAIN events : events[n].at = t => n = m
      BY <2>7 DEF Log
    <3>1. CASE e.type = "RuntimeObservationRecorded"
      <4>1. e.of \in Violations /\ new = Observe(old, e.of)
        BY <2>7, <3>1 DEF Effect
      <4> DEFINE i == Current(old, e.of)
      <4>2. /\ DOMAIN new.seen = DOMAIN old.seen \cup {i}
            /\ \A j \in DOMAIN old.seen \ {i} : new.seen[j] = old.seen[j]
            /\ new.seen[i].occurrences =
                 (IF i \in DOMAIN old.seen THEN old.seen[i].occurrences ELSE 0) + 1
        BY <2>1, <4>1, ObserveEffect
      <4>3. i = <<e.of, old.latest[e.of]>> /\ old.latest[e.of] \in 1 .. MaxTime
        BY <1>0, <2>0, <2>2, <4>1 DEF Current
      <4> HIDE DEF i
      <4>4. \A j : j # i => Occurrences(new.seen, j) = Occurrences(old.seen, j)
        BY <4>2 DEF Occurrences
      <4>5. Occurrences(new.seen, i) = Occurrences(old.seen, i) + 1
        BY <4>2 DEF Occurrences
      <4>6. CASE e.of = v
        <5> DEFINE h == old.latest[e.of]
        <5>1. \A g \in (1 .. MaxTime) \ {h} : <<v, g>> # i
          BY <4>3, <4>6
        <5>2. Sums(new.seen, v)[MaxTime] = Sums(old.seen, v)[MaxTime] + 1
          <6>1. i = <<v, h>> /\ h \in 1 .. MaxTime
            BY <4>3, <4>6
          <6> HIDE DEF h
          <6> QED
            BY <2>3, <4>4, <4>5, <5>1, <6>1, SumsOneMore
        <5>3. ObservedBy(events, v, t) = ObservedBy(events, v, t - 1) \cup {m}
          BY <1>1, <2>0, <2>7, <3>0, <3>1, <4>6 DEF ObservedBy, Observed
        <5>4. m \notin ObservedBy(events, v, t - 1)
          BY <2>0, <2>7 DEF ObservedBy
        <5>5. IsFiniteSet(ObservedBy(events, v, t - 1))
          <6>1. DOMAIN events = 1 .. Len(events) /\ Len(events) \in Nat
            BY DEF Log
          <6>2. IsFiniteSet(DOMAIN events)
            BY <6>1, FS_Interval
          <6> QED
            BY <6>2, FS_Subset DEF ObservedBy, Observed
        <5>6. Cardinality(ObservedBy(events, v, t)) = Cardinality(ObservedBy(events, v, t - 1)) + 1
          BY <5>3, <5>4, <5>5, FS_AddElement
        <5> QED
          BY <2>4, <5>2, <5>6
      <4>7. CASE e.of # v
        <5>1. \A n \in Observed(events, v) : events[n].at # t
          BY <3>0, <4>7 DEF Observed
        <5>2. i[1] # v
          BY <4>3, <4>7
        <5>3. \A j : Occurrences(new.seen, j) = Occurrences(old.seen, j) \/ j[1] # v
          BY <4>4, <5>2
        <5> QED
          BY <2>5, <5>1, <5>3
      <4> QED
        BY <4>6, <4>7
    <3>2. CASE e.type # "RuntimeObservationRecorded"
      <4>1. \A n \in Observed(events, v) : events[n].at # t
        BY <3>0, <3>2 DEF Observed
      <4>2. /\ DOMAIN new.seen = DOMAIN old.seen
            /\ \A j \in DOMAIN old.seen : new.seen[j].occurrences = old.seen[j].occurrences
        <5>1. CASE e.type = "DriftIncidentResolved" /\ e.of \in DOMAIN old.seen
          <6> DEFINE i == e.of
                     r == e.as
          <6>1. r \in Resolutions /\ new = Close(old, i, r) /\ i \in DOMAIN old.seen
            BY <2>7, <5>1 DEF Effect
          <6> HIDE DEF i, r
          <6> QED
            BY <2>1, <6>1, CloseKeeps
        <5>2. CASE e.type = "DriftIncidentResolved" /\ e.of \notin DOMAIN old.seen
          <6>1. new = old
            BY <2>7, <5>2 DEF Effect
          <6> QED
            BY <6>1
        <5>3. CASE e.type # "DriftIncidentResolved"
          BY <2>1, <2>7, <3>2, <5>3, OtherEffect
        <5> QED
          BY <5>1, <5>2, <5>3
      <4>3. \A j : Occurrences(new.seen, j) = Occurrences(old.seen, j)
        BY <4>2 DEF Occurrences
      <4> QED
        BY <2>5, <4>1, <4>3
    <3> QED
      BY <3>1, <3>2
  <2> QED
    BY <2>6, <2>7, ReplayMoves DEF new, old
<1> HIDE DEF P
<1>4. \A t \in 0 .. MaxTime : t \in P
  BY <1>2, <1>3, TimeInduction
<1> QED
  BY <1>4 DEF P
-----------------------------------------------------------------------------
\* What the incidents of any log are.
LEMMA LogOfIncidents ==
  ASSUME Log(ledger)
  PROVE  EveryObservationCounts /\ RecurrenceSurfaces /\ OneOpenIncident
<1>0. MaxTime \in 0 .. MaxTime /\ MaxTime \in Nat
  BY DriftAssumption DEF DriftAssumption
<1> DEFINE inc == Replay(ledger)[MaxTime]
<1>1. IncidentsIn(ledger) = inc.seen
  BY DEF IncidentsIn
<1>2. \A n \in DOMAIN ledger : ledger[n].at <= MaxTime
  BY <1>0, StoredKinds DEF Log
<1>3. /\ Shaped(inc, MaxTime) /\ Surfaced(ledger, inc, MaxTime) /\ Counted(ledger, inc, MaxTime)
      /\ ResolvedOnce(ledger) => Tidy(ledger, inc, MaxTime)
  BY <1>0, ReplayShaped, ReplaySurfaces, ReplayCounts, ReplayTidies
<1> HIDE DEF inc
<1>4. EveryObservationCounts
  <2>1. \A v \in Violations : ObservedBy(ledger, v, MaxTime) = Observed(ledger, v)
    BY <1>2 DEF ObservedBy, Observed
  <2> QED
    BY <1>1, <1>3, <2>1 DEF EveryObservationCounts, Counted
<1>5. RecurrenceSurfaces
  <2> SUFFICES ASSUME NEW v \in Violations, NEW n \in Observed(ledger, v),
                      \A r \in Resolved(ledger, v) : ledger[r].at < ledger[n].at
               PROVE  \E i \in DOMAIN IncidentsIn(ledger) : i[1] = v /\ IsOpen(i)
    BY DEF RecurrenceSurfaces
  <2> DEFINE i == Current(inc, v)
  <2>1. i \in DOMAIN inc.seen
    BY <1>2, <1>3 DEF Surfaced, Observed
  <2>2. i[1] = v /\ i[2] = inc.latest[v]
    BY DEF Current
  <2>3. inc.seen[i].status = "open"
    BY <1>3, <2>1, <2>2 DEF Shaped
  <2> QED
    BY <1>1, <2>1, <2>2, <2>3 DEF IsOpen
<1>6. OneOpenIncident
  <2> SUFFICES ASSUME ResolvedOnce(ledger), NEW i \in DOMAIN inc.seen, NEW j \in DOMAIN inc.seen,
                      i[1] = j[1], inc.seen[i].status = "open", inc.seen[j].status = "open"
               PROVE  i = j
    BY <1>1 DEF OneOpenIncident, IsOpen
  <2>1. i[2] = inc.latest[i[1]] /\ j[2] = inc.latest[j[1]]
    BY <1>3 DEF Tidy
  <2>2. i \in Incidents /\ j \in Incidents
    BY <1>0, <1>3, ShapedParts
  <2> QED
    BY <2>1, <2>2 DEF Incidents
<1> QED
  BY <1>4, <1>5, <1>6
-----------------------------------------------------------------------------
(* Events that join late. *)

\* Nothing happens after the last event.
LEMMA ReplayRests ==
  ASSUME NEW events, Log(events), NEW last \in 0 .. MaxTime, \A n \in DOMAIN events : events[n].at <= last
  PROVE  \A t \in 0 .. MaxTime : t >= last => Replay(events)[t] = Replay(events)[last]
<1>0. MaxTime \in Nat /\ last \in Nat
  BY DriftAssumption DEF DriftAssumption
<1> DEFINE P == {t \in 0 .. MaxTime : t >= last => Replay(events)[t] = Replay(events)[last]}
<1>1. 0 \in P
  BY <1>0
<1>2. ASSUME NEW t \in 1 .. MaxTime, t - 1 \in P PROVE t \in P
  <2>1. t \in 0 .. MaxTime /\ t \in Nat
    BY <1>0
  <2>2. CASE t <= last
    BY <1>0, <2>1, <2>2
  <2>3. CASE t > last
    <3>1. \A n \in DOMAIN events : events[n].at # t
      <4>1. \A n \in DOMAIN events : events[n].at \in Nat
        BY <1>0, StoredKinds DEF Log
      <4> QED
        BY <1>0, <2>1, <2>3, <4>1
    <3>2. Replay(events)[t] = Replay(events)[t - 1]
      BY <3>1, ReplayMoves
    <3>3. t - 1 >= last /\ Replay(events)[t - 1] = Replay(events)[last]
      BY <1>0, <1>2, <2>1, <2>3
    <3> QED
      BY <2>1, <3>2, <3>3
  <2> QED
    BY <1>0, <2>1, <2>2, <2>3
<1> HIDE DEF P
<1>3. \A t \in 0 .. MaxTime : t \in P
  BY <1>1, <1>2, TimeInduction
<1> QED
  BY <1>3 DEF P

\* An event joins the log, earlier or later than what is there.
Joins(events, e, new) ==
  /\ Log(events) /\ Log(new)
  /\ new = Append(events, e)

\* What joining leaves as it is.
LEMMA JoinMeans ==
  ASSUME NEW events, NEW e, NEW new, Joins(events, e, new)
  PROVE  /\ Len(events) \in Nat /\ DOMAIN events = 1 .. Len(events)
         /\ DOMAIN new = 1 .. (Len(events) + 1)
         /\ \A n \in DOMAIN events : n \in DOMAIN new /\ new[n] = events[n] /\ events[n].at # e.at
         /\ \A n \in DOMAIN new : n \in DOMAIN events \/ (n = Len(events) + 1 /\ new[n] = e)
         /\ new[Len(events) + 1] = e /\ e \in Stored
         /\ ResolvedOnce(new) => ResolvedOnce(events)
<1>1. Len(events) \in Nat /\ DOMAIN events = 1 .. Len(events) /\ events \in Seq(Stored)
  BY DEF Joins, Log
<1>2. DOMAIN new = 1 .. (Len(events) + 1) /\ new[Len(events) + 1] = e
  BY <1>1 DEF Joins
<1>3. \A n \in DOMAIN events : n \in DOMAIN new /\ new[n] = events[n]
  BY <1>1, <1>2 DEF Joins
<1>4. \A n \in DOMAIN events : events[n].at # e.at
  <2> SUFFICES ASSUME NEW n \in DOMAIN events, events[n].at = e.at PROVE FALSE
    OBVIOUS
  <2>1. n \in DOMAIN new /\ Len(events) + 1 \in DOMAIN new /\ n # Len(events) + 1
    BY <1>1, <1>2
  <2>2. new[n].at = new[Len(events) + 1].at
    BY <1>2, <1>3
  <2> QED
    BY <2>1, <2>2 DEF Joins, Log
<1>5. \A n \in DOMAIN new : n \in DOMAIN events \/ (n = Len(events) + 1 /\ new[n] = e)
  BY <1>1, <1>2
<1>6. e \in Stored
  BY <1>1, <1>2 DEF Joins, Log
<1>7. ResolvedOnce(new) => ResolvedOnce(events)
  BY <1>3 DEF ResolvedOnce
<1> QED
  BY <1>1, <1>2, <1>3, <1>4, <1>5, <1>6, <1>7

\* The replay of the longer log: the new event happens at its time,
LEMMA JoinedMoves ==
  ASSUME NEW events, NEW e, NEW new, Joins(events, e, new), NEW t \in 1 .. MaxTime
  PROVE  LET old == Replay(events)[t - 1]
             then == Replay(events)[t]
             before == Replay(new)[t - 1]
             after == Replay(new)[t]
         IN  \/ /\ t # e.at
                /\ then = old /\ after = before
             \/ /\ t # e.at
                /\ \E n \in DOMAIN events : /\ events[n].at = t
                                            /\ Effect(old, events[n], then)
                                            /\ Effect(before, events[n], after)
             \/ /\ t = e.at
                /\ then = old
                /\ Effect(before, e, after)
<1>1. /\ \A n \in DOMAIN events : n \in DOMAIN new /\ new[n] = events[n] /\ events[n].at # e.at
      /\ \A n \in DOMAIN new : n \in DOMAIN events \/ new[n] = e
      /\ \E n \in DOMAIN new : new[n] = e
      /\ Log(events) /\ Log(new)
  <2>1. Len(events) \in Nat /\ DOMAIN new = 1 .. (Len(events) + 1) /\ new[Len(events) + 1] = e
    BY JoinMeans
  <2>2. \E n \in DOMAIN new : new[n] = e
    BY <2>1
  <2>3. Log(events) /\ Log(new)
    BY DEF Joins
  <2>4. /\ \A n \in DOMAIN events : n \in DOMAIN new /\ new[n] = events[n] /\ events[n].at # e.at
        /\ \A n \in DOMAIN new : n \in DOMAIN events \/ (n = Len(events) + 1 /\ new[n] = e)
    BY JoinMeans
  <2> QED
    BY <2>2, <2>3, <2>4
<1> DEFINE old == Replay(events)[t - 1]
           then == Replay(events)[t]
           before == Replay(new)[t - 1]
           after == Replay(new)[t]
<1>2. /\ \/ (\A n \in DOMAIN events : events[n].at # t) /\ then = old
         \/ \E n \in DOMAIN events : events[n].at = t /\ Effect(old, events[n], then)
      /\ \/ (\A n \in DOMAIN new : new[n].at # t) /\ after = before
         \/ \E n \in DOMAIN new : new[n].at = t /\ Effect(before, new[n], after)
  BY <1>1, ReplayMoves
<1>3. \A m, n \in DOMAIN new : new[m].at = new[n].at => m = n
  BY <1>1 DEF Log
<1> HIDE DEF old, then, before, after
<1>4. CASE t = e.at
  <2>1. then = old
    BY <1>1, <1>2, <1>4
  <2>2. PICK n \in DOMAIN new : new[n].at = t /\ Effect(before, new[n], after)
    BY <1>1, <1>2, <1>4
  <2>3. new[n] = e
    BY <1>1, <1>4, <2>2
  <2> QED
    BY <1>4, <2>1, <2>2, <2>3 DEF old, then, before, after
<1>5. CASE t # e.at /\ \A n \in DOMAIN events : events[n].at # t
  <2>1. then = old
    BY <1>2, <1>5
  <2>2. \A n \in DOMAIN new : new[n].at # t
    BY <1>1, <1>5
  <2> QED
    BY <1>2, <1>5, <2>1, <2>2 DEF old, then, before, after
<1>6. CASE t # e.at /\ \E n \in DOMAIN events : events[n].at = t
  <2>1. PICK n \in DOMAIN events : events[n].at = t /\ Effect(old, events[n], then)
    BY <1>2, <1>6
  <2>2. n \in DOMAIN new /\ new[n] = events[n]
    BY <1>1
  <2>3. Effect(before, events[n], after)
    BY <1>2, <1>3, <2>1, <2>2
  <2> QED
    BY <1>6, <2>1, <2>3 DEF old, then, before, after
<1> QED
  BY <1>4, <1>5, <1>6

\* What two replays have in common: b knows more, and nothing else.
Agree(a, b) ==
  /\ b.latest = a.latest
  /\ DOMAIN a.seen \subseteq DOMAIN b.seen
  /\ \A i \in DOMAIN a.seen : b.seen[i].status = a.seen[i].status

\* In b the current incident j is resolved.
Ahead(a, b, j) ==
  /\ j \in DOMAIN a.seen /\ j[2] = a.latest[j[1]]
  /\ b.latest = [a.latest EXCEPT ![j[1]] = @ + 1]
  /\ DOMAIN a.seen \subseteq DOMAIN b.seen
  /\ \A i \in DOMAIN a.seen \ {j} : b.seen[i].status = a.seen[i].status

\* What an observation does, in terms of what is seen.
LEMMA ObservedStatus ==
  ASSUME NEW t \in 1 .. MaxTime, NEW inc, Shaped(inc, t - 1), NEW e, NEW new, Effect(inc, e, new),
         e.type = "RuntimeObservationRecorded"
  PROVE  /\ e.of \in Violations /\ Current(inc, e.of) \in Incidents
         /\ new.latest = inc.latest
         /\ DOMAIN new.seen = DOMAIN inc.seen \cup {Current(inc, e.of)}
         /\ \A i \in DOMAIN inc.seen : new.seen[i].status = inc.seen[i].status
         /\ new.seen[Current(inc, e.of)].status = "open"
<1> DEFINE v == e.of
           i == Current(inc, v)
<1>1. v \in Violations /\ new = Observe(inc, v)
  BY DEF Effect
<1> HIDE DEF v
<1>2. /\ Shaped(new, t)
      /\ new.latest = inc.latest
      /\ i \in Incidents
      /\ DOMAIN new.seen = DOMAIN inc.seen \cup {i}
      /\ \A j \in DOMAIN inc.seen \ {i} : new.seen[j] = inc.seen[j]
      /\ new.seen[i].status = "open"
  BY <1>1, ObserveEffect
<1>3. i \in DOMAIN inc.seen => inc.seen[i].status = "open"
  BY DEF Shaped, Current
<1> HIDE DEF i
<1>4. \A j \in DOMAIN inc.seen : new.seen[j].status = inc.seen[j].status
  BY <1>2, <1>3
<1> QED
  BY <1>1, <1>2, <1>4 DEF i, v

\* What the resolution of a seen incident does.
LEMMA ResolvedStatus ==
  ASSUME NEW t \in 1 .. MaxTime, NEW inc, Shaped(inc, t - 1), NEW e, NEW new, Effect(inc, e, new),
         e.type = "DriftIncidentResolved", e.of \in DOMAIN inc.seen
  PROVE  /\ new.latest = [inc.latest EXCEPT ![e.of[1]] = @ + 1]
         /\ DOMAIN new.seen = DOMAIN inc.seen
         /\ \A i \in DOMAIN inc.seen \ {e.of} : new.seen[i].status = inc.seen[i].status
         /\ new.seen[e.of].status = e.as
<1> DEFINE i == e.of
           r == e.as
<1>1. i \in DOMAIN inc.seen /\ r \in Resolutions /\ new = Close(inc, i, r)
  BY DEF Effect
<1> HIDE DEF i, r
<1>2. /\ new.latest = [inc.latest EXCEPT ![i[1]] = @ + 1]
      /\ DOMAIN new.seen = DOMAIN inc.seen
      /\ \A j \in DOMAIN inc.seen \ {i} : new.seen[j] = inc.seen[j]
      /\ new.seen[i].status = r
  BY <1>1, CloseEffect
<1> QED
  BY <1>2 DEF i, r

\* The same event keeps the replays in agreement,
LEMMA EffectsAgree ==
  ASSUME NEW t \in 1 .. MaxTime, NEW a, NEW b, Shaped(a, t - 1), Shaped(b, t - 1), Agree(a, b),
         NEW e, NEW a1, NEW b1, Effect(a, e, a1), Effect(b, e, b1),
         e.type = "DriftIncidentResolved" => e.of \in DOMAIN a.seen
  PROVE  Agree(a1, b1)
<1>1. CASE e.type = "RuntimeObservationRecorded"
  <2> DEFINE i == Current(a, e.of)
  <2>1. Current(b, e.of) = i
    BY DEF Agree, Current
  <2>2. /\ a1.latest = a.latest /\ DOMAIN a1.seen = DOMAIN a.seen \cup {i}
        /\ \A j \in DOMAIN a.seen : a1.seen[j].status = a.seen[j].status
        /\ a1.seen[i].status = "open"
    BY <1>1, ObservedStatus
  <2>3. /\ b1.latest = b.latest /\ DOMAIN b1.seen = DOMAIN b.seen \cup {i}
        /\ \A j \in DOMAIN b.seen : b1.seen[j].status = b.seen[j].status
        /\ b1.seen[i].status = "open"
    BY <1>1, <2>1, ObservedStatus
  <2> HIDE DEF i
  <2> QED
    BY <2>2, <2>3 DEF Agree
<1>2. CASE e.type = "DriftIncidentResolved"
  <2> DEFINE i == e.of
  <2>1. i \in DOMAIN a.seen /\ i \in DOMAIN b.seen
    BY <1>2 DEF Agree
  <2>2. /\ a1.latest = [a.latest EXCEPT ![i[1]] = @ + 1] /\ DOMAIN a1.seen = DOMAIN a.seen
        /\ \A j \in DOMAIN a.seen \ {i} : a1.seen[j].status = a.seen[j].status
        /\ a1.seen[i].status = e.as
    BY <1>2, <2>1, ResolvedStatus
  <2>3. /\ b1.latest = [b.latest EXCEPT ![i[1]] = @ + 1] /\ DOMAIN b1.seen = DOMAIN b.seen
        /\ \A j \in DOMAIN b.seen \ {i} : b1.seen[j].status = b.seen[j].status
        /\ b1.seen[i].status = e.as
    BY <1>2, <2>1, ResolvedStatus
  <2> HIDE DEF i
  <2> QED
    BY <2>2, <2>3 DEF Agree
<1>3. CASE e.type \notin {"RuntimeObservationRecorded", "DriftIncidentResolved"}
  <2>1. /\ a1.latest = a.latest /\ DOMAIN a1.seen = DOMAIN a.seen
        /\ \A j \in DOMAIN a.seen : a1.seen[j].status = a.seen[j].status
    BY <1>3, OtherEffect
  <2>2. /\ b1.latest = b.latest /\ DOMAIN b1.seen = DOMAIN b.seen
        /\ \A j \in DOMAIN b.seen : b1.seen[j].status = b.seen[j].status
    BY <1>3, OtherEffect
  <2> QED
    BY <2>1, <2>2 DEF Agree
<1> QED
  BY <1>1, <1>2, <1>3

\* an event of one of them, that resolves nothing, too.
LEMMA MoreAgrees ==
  ASSUME NEW t \in 1 .. MaxTime, NEW a, NEW b, Shaped(b, t - 1), Agree(a, b),
         NEW e, NEW b1, Effect(b, e, b1), e.type # "DriftIncidentResolved"
  PROVE  Agree(a, b1)
<1>1. /\ b1.latest = b.latest /\ DOMAIN b.seen \subseteq DOMAIN b1.seen
      /\ \A j \in DOMAIN b.seen : b1.seen[j].status = b.seen[j].status
  <2>1. CASE e.type = "RuntimeObservationRecorded"
    BY <2>1, ObservedStatus
  <2>2. CASE e.type # "RuntimeObservationRecorded"
    BY <2>2, OtherEffect
  <2> QED
    BY <2>1, <2>2
<1> QED
  BY <1>1 DEF Agree

\* Resolving the current incident goes ahead,
LEMMA ResolvingGoesAhead ==
  ASSUME NEW t \in 1 .. MaxTime, NEW a, NEW b, Shaped(b, t - 1), Agree(a, b),
         NEW e, NEW b1, Effect(b, e, b1), e.type = "DriftIncidentResolved",
         e.of \in DOMAIN a.seen, e.of[2] = a.latest[e.of[1]]
  PROVE  Ahead(a, b1, e.of)
<1> DEFINE i == e.of
<1>1. i \in DOMAIN b.seen
  BY DEF Agree
<1>2. /\ b1.latest = [b.latest EXCEPT ![i[1]] = @ + 1] /\ DOMAIN b1.seen = DOMAIN b.seen
      /\ \A j \in DOMAIN b.seen \ {i} : b1.seen[j].status = b.seen[j].status
  BY <1>1, ResolvedStatus
<1>3. i \in DOMAIN a.seen /\ i[2] = a.latest[i[1]]
  OBVIOUS
<1> HIDE DEF i
<1>4. Ahead(a, b1, i)
  BY <1>2, <1>3 DEF Ahead, Agree
<1> QED
  BY <1>4 DEF i

\* and stays ahead, if nothing else about the violation is resolved.
LEMMA EffectsStayAhead ==
  ASSUME NEW t \in 1 .. MaxTime, NEW a, NEW b, Shaped(a, t - 1), Shaped(b, t - 1),
         NEW j, Ahead(a, b, j),
         NEW e, NEW a1, NEW b1, Effect(a, e, a1), Effect(b, e, b1),
         e.type = "DriftIncidentResolved" => e.of \in DOMAIN a.seen /\ e.of[1] # j[1]
  PROVE  Ahead(a1, b1, j)
<1>0. t - 1 \in Nat
  BY DriftAssumption DEF DriftAssumption
<1>1. a.latest \in [Violations -> 1 .. (t - 1) + 1] /\ DOMAIN a.seen \subseteq Incidents
  BY <1>0, ShapedParts
<1>2. j[1] \in Violations /\ j \in DOMAIN a.seen
  BY <1>1 DEF Ahead, Incidents
<1>3. CASE e.type = "RuntimeObservationRecorded"
  <2> DEFINE i == Current(a, e.of)
             k == Current(b, e.of)
  <2>1. /\ e.of \in Violations /\ a1.latest = a.latest /\ DOMAIN a1.seen = DOMAIN a.seen \cup {i}
        /\ \A x \in DOMAIN a.seen : a1.seen[x].status = a.seen[x].status
        /\ a1.seen[i].status = "open"
    BY <1>3, ObservedStatus
  <2>2. /\ b1.latest = b.latest /\ DOMAIN b1.seen = DOMAIN b.seen \cup {k}
        /\ \A x \in DOMAIN b.seen : b1.seen[x].status = b.seen[x].status
        /\ b1.seen[k].status = "open"
    BY <1>3, ObservedStatus
  <2>3. e.of # j[1] => k = i
    BY <1>1, <1>2, <2>1 DEF Current, Ahead
  <2>4. e.of = j[1] => i = j
    <3>1. j = <<j[1], j[2]>>
      BY <1>1, <1>2 DEF Incidents
    <3> QED
      BY <3>1 DEF Current, Ahead
  <2> HIDE DEF i, k
  <2>5. CASE e.of # j[1]
    BY <2>1, <2>2, <2>3, <2>5 DEF Ahead
  <2>6. CASE e.of = j[1]
    BY <2>1, <2>2, <2>4, <2>6 DEF Ahead
  <2> QED
    BY <2>5, <2>6
<1>4. CASE e.type = "DriftIncidentResolved"
  <2> DEFINE i == e.of
  <2>1. i \in DOMAIN a.seen /\ i \in DOMAIN b.seen /\ i[1] # j[1] /\ i[1] \in Violations
    BY <1>1, <1>4 DEF Ahead, Incidents
  <2>2. /\ a1.latest = [a.latest EXCEPT ![i[1]] = @ + 1] /\ DOMAIN a1.seen = DOMAIN a.seen
        /\ \A x \in DOMAIN a.seen \ {i} : a1.seen[x].status = a.seen[x].status
        /\ a1.seen[i].status = e.as
    BY <1>4, <2>1, ResolvedStatus
  <2>3. /\ b1.latest = [b.latest EXCEPT ![i[1]] = @ + 1] /\ DOMAIN b1.seen = DOMAIN b.seen
        /\ \A x \in DOMAIN b.seen \ {i} : b1.seen[x].status = b.seen[x].status
        /\ b1.seen[i].status = e.as
    BY <1>4, <2>1, ResolvedStatus
  <2> HIDE DEF i
  <2>4. a1.latest[j[1]] = a.latest[j[1]] /\ b.latest = [a.latest EXCEPT ![j[1]] = @ + 1]
    BY <1>1, <1>2, <2>1, <2>2 DEF Ahead
  <2>5. b1.latest = [a1.latest EXCEPT ![j[1]] = @ + 1]
    BY <1>1, <1>2, <2>1, <2>2, <2>3, <2>4
  <2> QED
    BY <2>1, <2>2, <2>3, <2>4, <2>5 DEF Ahead
<1>5. CASE e.type \notin {"RuntimeObservationRecorded", "DriftIncidentResolved"}
  <2>1. /\ a1.latest = a.latest /\ DOMAIN a1.seen = DOMAIN a.seen
        /\ \A x \in DOMAIN a.seen : a1.seen[x].status = a.seen[x].status
    BY <1>5, OtherEffect
  <2>2. /\ b1.latest = b.latest /\ DOMAIN b1.seen = DOMAIN b.seen
        /\ \A x \in DOMAIN b.seen : b1.seen[x].status = b.seen[x].status
    BY <1>5, OtherEffect
  <2> QED
    BY <2>1, <2>2 DEF Ahead
<1> QED
  BY <1>3, <1>4, <1>5

\* What is resolved was seen before.
Seen(events) ==
  \A n \in DOMAIN events : events[n].type = "DriftIncidentResolved" =>
    events[n].of \in DOMAIN Replay(events)[events[n].at - 1].seen

\* An event that resolves nothing leaves the replays in agreement, whenever it joins.
LEMMA JoinAgrees ==
  ASSUME NEW events, NEW e, NEW new, Joins(events, e, new), Seen(events),
         e.type # "DriftIncidentResolved"
  PROVE  \A t \in 0 .. MaxTime : Agree(Replay(events)[t], Replay(new)[t])
<1>0. MaxTime \in Nat /\ Log(events) /\ Log(new)
  BY DriftAssumption DEF DriftAssumption, Joins
<1> DEFINE P == {t \in 0 .. MaxTime : Agree(Replay(events)[t], Replay(new)[t])}
<1>1. 0 \in P
  BY <1>0, ReplayStep DEF Agree
<1>2. ASSUME NEW t \in 1 .. MaxTime, t - 1 \in P PROVE t \in P
  <2> DEFINE old == Replay(events)[t - 1]
             then == Replay(events)[t]
             before == Replay(new)[t - 1]
             after == Replay(new)[t]
  <2>1. t \in 0 .. MaxTime /\ t - 1 \in 0 .. MaxTime
    BY <1>0
  <2>2. Shaped(old, t - 1) /\ Shaped(before, t - 1) /\ Agree(old, before)
    BY <1>0, <1>2, <2>1, ReplayShaped
  <2>3. \/ then = old /\ after = before
        \/ \E n \in DOMAIN events : /\ events[n].at = t
                                    /\ Effect(old, events[n], then)
                                    /\ Effect(before, events[n], after)
        \/ then = old /\ Effect(before, e, after)
    BY JoinedMoves
  <2>4. \A n \in DOMAIN events : events[n].at = t /\ events[n].type = "DriftIncidentResolved" =>
          events[n].of \in DOMAIN old.seen
    BY DEF Seen
  <2> HIDE DEF old, then, before, after
  <2>5. Agree(then, after)
    <3>1. ASSUME NEW n \in DOMAIN events, events[n].at = t,
                 Effect(old, events[n], then), Effect(before, events[n], after)
          PROVE  Agree(then, after)
      BY <2>2, <2>4, <3>1, EffectsAgree
    <3>2. CASE then = old /\ Effect(before, e, after)
      BY <2>2, <3>2, MoreAgrees
    <3> QED
      BY <2>2, <2>3, <3>1, <3>2
  <2> QED
    BY <2>1, <2>5 DEF then, after
<1> HIDE DEF P
<1>3. \A t \in 0 .. MaxTime : t \in P
  BY <1>1, <1>2, TimeInduction
<1> QED
  BY <1>3 DEF P

\* A resolution that joins late goes ahead from its time on: it resolves what was the current
\* incident then and, as nothing else about the violation is resolved later, still is.
LEMMA JoinGoesAhead ==
  ASSUME NEW events, NEW e, NEW new, Joins(events, e, new), Seen(events), ResolvedOnce(new),
         e.type = "DriftIncidentResolved", e.of \in DOMAIN Replay(events)[e.at - 1].seen
  PROVE  \A t \in 0 .. MaxTime :
           IF t < e.at THEN Agree(Replay(events)[t], Replay(new)[t])
                       ELSE Ahead(Replay(events)[t], Replay(new)[t], e.of)
<1> DEFINE j == e.of
<1>0. MaxTime \in Nat /\ Log(events) /\ Log(new) /\ ResolvedOnce(events)
  BY JoinMeans, DriftAssumption DEF DriftAssumption, Joins
<1>1. e.at \in 1 .. MaxTime /\ j \in Incidents
  <2>1. e \in Stored
    BY JoinMeans
  <2> QED
    BY <2>1, StoredKinds DEF OnItem
\* Nothing else resolves j.
<1>2. \A n \in DOMAIN events : ~(events[n].type = "DriftIncidentResolved" /\ events[n].of = j)
  <2>1. /\ Len(events) \in Nat /\ DOMAIN events = 1 .. Len(events)
        /\ DOMAIN new = 1 .. (Len(events) + 1) /\ new[Len(events) + 1] = e
        /\ \A n \in DOMAIN events : n \in DOMAIN new /\ new[n] = events[n]
    BY JoinMeans
  <2>2. Len(events) + 1 \in DOMAIN new /\ \A n \in DOMAIN events : n # Len(events) + 1
    BY <2>1
  <2> QED
    BY <2>1, <2>2 DEF ResolvedOnce
<1>3. \A n \in DOMAIN events : events[n].type = "DriftIncidentResolved" => events[n].of \in Incidents
  BY <1>0, StoredKinds DEF Log, OnItem
<1> DEFINE Holds(t) == IF t < e.at THEN Agree(Replay(events)[t], Replay(new)[t])
                                   ELSE Ahead(Replay(events)[t], Replay(new)[t], j)
           P == {t \in 0 .. MaxTime : Holds(t)}
<1>4. 0 \in P
  BY <1>0, <1>1, ReplayStep DEF Agree
<1>5. ASSUME NEW t \in 1 .. MaxTime, t - 1 \in P PROVE t \in P
  <2> DEFINE old == Replay(events)[t - 1]
             then == Replay(events)[t]
             before == Replay(new)[t - 1]
             after == Replay(new)[t]
  <2>1. t \in 0 .. MaxTime /\ t - 1 \in 0 .. MaxTime /\ t \in Nat /\ e.at \in Nat /\ t - 1 \in Nat
    BY <1>0, <1>1
  <2>2. Shaped(old, t - 1) /\ Shaped(before, t - 1) /\ Tidy(events, old, t - 1)
    BY <1>0, <2>1, ReplayShaped, ReplayTidies
  <2>3. /\ t - 1 < e.at => Agree(old, before)
        /\ t - 1 >= e.at => Ahead(old, before, j)
    BY <1>5, <2>1
  <2>4. \/ t # e.at /\ then = old /\ after = before
        \/ /\ t # e.at
           /\ \E n \in DOMAIN events : /\ events[n].at = t
                                       /\ Effect(old, events[n], then)
                                       /\ Effect(before, events[n], after)
        \/ t = e.at /\ then = old /\ Effect(before, e, after)
    BY JoinedMoves
  <2>5. \A n \in DOMAIN events : events[n].at = t /\ events[n].type = "DriftIncidentResolved" =>
          events[n].of \in DOMAIN old.seen
    BY DEF Seen
  <2>6. t = e.at => j \in DOMAIN old.seen
    OBVIOUS
  <2> HIDE DEF old, then, before, after
  <2>7. CASE t < e.at
    <3>1. Agree(old, before)
      BY <2>1, <2>3, <2>7
    <3>2. ASSUME NEW n \in DOMAIN events, events[n].at = t,
                 Effect(old, events[n], then), Effect(before, events[n], after)
          PROVE  Agree(then, after)
      BY <2>2, <2>5, <3>1, <3>2, EffectsAgree
    <3>3. Agree(then, after)
      BY <2>1, <2>4, <2>7, <3>1, <3>2
    <3> QED
      BY <2>1, <2>7, <3>3 DEF then, after
  <2>8. CASE t = e.at
    <3>1. Agree(old, before) /\ then = old /\ Effect(before, e, after) /\ j \in DOMAIN old.seen
      BY <2>1, <2>3, <2>4, <2>6, <2>8
    <3>2. j[2] = old.latest[j[1]]
      BY <1>2, <3>1, <2>2 DEF Tidy
    <3>3. Ahead(old, after, j)
      BY <2>2, <3>1, <3>2, ResolvingGoesAhead
    <3>4. ~(t < e.at)
      BY <2>1, <2>8
    <3> QED
      BY <2>1, <3>1, <3>3, <3>4 DEF then, after
  <2>9. CASE t > e.at
    <3>1. Ahead(old, before, j) /\ ~(t < e.at)
      BY <2>1, <2>3, <2>9
    <3>2. ASSUME NEW n \in DOMAIN events, events[n].at = t,
                 Effect(old, events[n], then), Effect(before, events[n], after)
          PROVE  Ahead(then, after, j)
      <4>1. ASSUME events[n].type = "DriftIncidentResolved"
            PROVE  events[n].of \in DOMAIN old.seen /\ events[n].of[1] # j[1]
        <5> DEFINE i == events[n].of
        <5>1. i \in DOMAIN old.seen /\ i \in Incidents
          BY <1>3, <2>5, <3>2, <4>1
        <5>2. i[2] = old.latest[i[1]]
          <6> SUFFICES ASSUME i[2] # old.latest[i[1]] PROVE FALSE
            OBVIOUS
          <6>1. PICK m \in DOMAIN events :
                  events[m].type = "DriftIncidentResolved" /\ events[m].of = i /\ events[m].at <= t - 1
            BY <2>2, <5>1 DEF Tidy
          <6>2. m = n
            BY <1>0, <4>1, <6>1 DEF ResolvedOnce
          <6> QED
            BY <2>1, <3>2, <6>1, <6>2
        <5>3. i # j
          BY <1>2, <4>1
        <5>4. i = <<i[1], i[2]>> /\ j = <<j[1], j[2]>>
          BY <1>1, <5>1 DEF Incidents
        <5>5. j[2] = old.latest[j[1]]
          BY <3>1 DEF Ahead
        <5> HIDE DEF i, j
        <5>6. i[1] # j[1]
          BY <5>2, <5>3, <5>4, <5>5
        <5> QED
          BY <5>1, <5>6 DEF i
      <4> HIDE DEF j
      <4> QED
        BY <2>2, <3>1, <3>2, <4>1, EffectsStayAhead
    <3>3. Ahead(then, after, j)
      BY <2>1, <2>4, <2>9, <3>1, <3>2
    <3> QED
      BY <2>1, <3>1, <3>3 DEF then, after
  <2> QED
    BY <2>1, <2>7, <2>8, <2>9
<1> HIDE DEF P
<1>6. \A t \in 0 .. MaxTime : t \in P
  BY <1>4, <1>5, TimeInduction
<1> QED
  BY <1>6 DEF P

\* Whatever joins, what was seen stays seen, and what was resolved stays resolved.
LEMMA JoinKeeps ==
  ASSUME NEW events, NEW e, NEW new, Joins(events, e, new), Seen(events), ResolvedOnce(new),
         e.type = "DriftIncidentResolved" => e.of \in DOMAIN Replay(events)[e.at - 1].seen
  PROVE  \A t \in 0 .. MaxTime :
           /\ DOMAIN Replay(events)[t].seen \subseteq DOMAIN Replay(new)[t].seen
           /\ \A i \in DOMAIN Replay(events)[t].seen :
                Replay(events)[t].seen[i].status # "open" =>
                  Replay(new)[t].seen[i].status = Replay(events)[t].seen[i].status
<1> SUFFICES ASSUME NEW t \in 0 .. MaxTime
             PROVE  /\ DOMAIN Replay(events)[t].seen \subseteq DOMAIN Replay(new)[t].seen
                    /\ \A i \in DOMAIN Replay(events)[t].seen :
                         Replay(events)[t].seen[i].status # "open" =>
                           Replay(new)[t].seen[i].status = Replay(events)[t].seen[i].status
  OBVIOUS
<1> DEFINE a == Replay(events)[t]
           b == Replay(new)[t]
<1>1. Agree(a, b) \/ Ahead(a, b, e.of)
  <2>1. CASE e.type = "DriftIncidentResolved"
    BY <2>1, JoinGoesAhead
  <2>2. CASE e.type # "DriftIncidentResolved"
    BY <2>2, JoinAgrees
  <2> QED
    BY <2>1, <2>2
<1>2. Shaped(a, t)
  BY ReplayShaped DEF Joins
<1> HIDE DEF a, b
<1>3. CASE Agree(a, b)
  BY <1>3 DEF Agree, a, b
<1>4. CASE Ahead(a, b, e.of)
  <2> DEFINE j == e.of
  <2>1. /\ j \in DOMAIN a.seen /\ j[2] = a.latest[j[1]]
        /\ DOMAIN a.seen \subseteq DOMAIN b.seen
        /\ \A i \in DOMAIN a.seen \ {j} : b.seen[i].status = a.seen[i].status
    BY <1>4 DEF Ahead
  <2> HIDE DEF j
  <2>2. a.seen[j].status = "open"
    BY <1>2, <2>1 DEF Shaped
  <2> QED
    BY <2>1, <2>2 DEF a, b
<1> QED
  BY <1>1, <1>3, <1>4
-----------------------------------------------------------------------------
(* The theorems. *)

\* The ledger is a log.
LEMMA LedgerIsLog ==
  ASSUME IInv
  PROVE  Log(ledger)
BY DEF IInv, TypeOK, TimesDiffer, Log

\* SeenBeforeResolved, said of the events of one command.
SeenFirst(events, stored, t) ==
  events # <<>> /\ Head(events).type = "DriftIncidentResolved" =>
    Head(events).of \in DOMAIN Replay(stored)[t].seen

\* The time up to which c has seen what its command is about.
Saw(c) == IF time[c] > 0 THEN time[c] - 1 ELSE clock

\* The same for all clients, before and after a step.
LEMMA SeenBeforeResolvedMeans ==
  /\ SeenBeforeResolved <=>
       (ResolvedOnce(ledger) => Seen(ledger) /\ \A c \in Clients : SeenFirst(todo[c], ledger, Saw(c)))
  /\ SeenBeforeResolved' <=>
       (ResolvedOnce(ledger') =>
          Seen(ledger') /\ \A c \in Clients : SeenFirst(todo'[c], ledger', Saw(c)'))
<1>1. SeenBeforeResolved <=>
       (ResolvedOnce(ledger) => Seen(ledger) /\ \A c \in Clients : SeenFirst(todo[c], ledger, Saw(c)))
  BY Zenon DEF SeenBeforeResolved, Seen, SeenFirst, Saw
<1>2. SeenBeforeResolved' <=>
       (ResolvedOnce(ledger') =>
          Seen(ledger') /\ \A c \in Clients : SeenFirst(todo'[c], ledger', Saw(c)'))
  BY Zenon DEF SeenBeforeResolved, Seen, SeenFirst, Saw, ResolvedOnce, Replay, Happens, At
<1> QED
  BY <1>1, <1>2

\* Storing an event is a join.
LEMMA StoreJoins ==
  ASSUME IInv, SeenBeforeResolved, NEW c \in Clients, Store(c), ResolvedOnce(ledger')
  PROVE  /\ Joins(ledger, Row(Head(todo[c]), time[c]), ledger')
         /\ Seen(ledger)
         /\ Row(Head(todo[c]), time[c]).type = "DriftIncidentResolved" =>
              Row(Head(todo[c]), time[c]).of
                \in DOMAIN Replay(ledger)[Row(Head(todo[c]), time[c]).at - 1].seen
<1> DEFINE r == Row(Head(todo[c]), time[c])
<1>1. Log(ledger) /\ Log(ledger')
  <2>1. IInv'
    BY StoreStep
  <2>2. Log(ledger')
    BY <2>1 DEF IInv, TypeOK, TimesDiffer, Log
  <2> QED
    BY <2>2, LedgerIsLog
<1>2. Joins(ledger, r, ledger')
  BY <1>1 DEF Joins, Store
<1>3. ResolvedOnce(ledger)
  <2> HIDE DEF r
  <2> QED
    BY <1>2, JoinMeans
<1>4. Seen(ledger) /\ SeenFirst(todo[c], ledger, Saw(c))
  BY <1>3, SeenBeforeResolvedMeans
<1>5. r.type = Head(todo[c]).type /\ r.of = Head(todo[c]).of /\ r.at = time[c]
  BY DEF Row
<1>6. todo[c] # <<>> /\ Saw(c) = time[c] - 1
  BY DEF Store, Saw, IInv, TypeOK
<1> HIDE DEF r
<1>7. r.type = "DriftIncidentResolved" => r.of \in DOMAIN Replay(ledger)[r.at - 1].seen
  BY <1>4, <1>5, <1>6 DEF SeenFirst
<1> QED
  BY <1>2, <1>4, <1>7 DEF r

\* Before the first command.
LEMMA InitSees == Init => SeenBeforeResolved
BY DEF Init, SeenBeforeResolved

\* A client that resolves an incident has seen it by now.
LEMMA CommandsSee ==
  ASSUME IInv, NEW c \in Clients, Command(c)
  PROVE  \E events : Begin(c, events) /\ SeenFirst(events, ledger, clock)
<1>1. ASSUME NEW v \in Violations, RecordRuntimeObservation(c, v)
      PROVE  \E events : Begin(c, events) /\ SeenFirst(events, ledger, clock)
  <2>1. SeenFirst(<<Event("RuntimeObservationRecorded", v)>>, ledger, clock)
    BY DEF SeenFirst, Event
  <2> QED
    BY <1>1, <2>1 DEF RecordRuntimeObservation
<1>2. ASSUME NEW i \in Incidents, PromoteDriftIncident(c, i)
      PROVE  \E events : Begin(c, events) /\ SeenFirst(events, ledger, clock)
  <2> DEFINE events == <<Event("DriftPromotedToCandidate", i), Event("ContextProposed", ItemOf[i])>>
  <2>1. Head(events).type = "DriftPromotedToCandidate"
    BY DEF Event
  <2>2. SeenFirst(events, ledger, clock)
    BY <2>1 DEF SeenFirst
  <2> QED
    BY <1>2, <2>2 DEF PromoteDriftIncident
<1>3. ASSUME NEW i \in Incidents, NEW r \in Resolutions, ResolveDriftIncident(c, i, r)
      PROVE  \E events : Begin(c, events) /\ SeenFirst(events, ledger, clock)
  <2> DEFINE e == [Event("DriftIncidentResolved", i) EXCEPT !.as = r]
  <2>1. Head(<<e>>).of = i
    BY DEF Event
  <2>2. i \in DOMAIN Replay(ledger)[MaxTime].seen
    BY <1>3 DEF ResolveDriftIncident, IncidentsIn
  <2>3. Replay(ledger)[MaxTime] = Replay(ledger)[clock]
    <3>1. clock \in 0 .. MaxTime /\ MaxTime \in 0 .. MaxTime /\ MaxTime >= clock
      BY TimesAreNat DEF IInv, TypeOK
    <3>2. \A n \in DOMAIN ledger : ledger[n].at <= clock
      BY DEF IInv, TypeOK
    <3> QED
      BY <3>1, <3>2, LedgerIsLog, ReplayRests
  <2>4. SeenFirst(<<e>>, ledger, clock)
    BY <2>1, <2>2, <2>3 DEF SeenFirst
  <2> QED
    BY <1>3, <2>4 DEF ResolveDriftIncident
<1>4. ASSUME NEW x \in Known, \/ ConfirmContext(c, x)
                              \/ ChallengeContext(c, x)
                              \/ CorrectContext(c, x)
      PROVE  \E events : Begin(c, events) /\ SeenFirst(events, ledger, clock)
  <2>1. PICK type \in OnItem : Begin(c, <<Event(type, x)>>)
    BY <1>4 DEF ConfirmContext, ChallengeContext, CorrectContext, OnItem
  <2>2. SeenFirst(<<Event(type, x)>>, ledger, clock)
    BY <2>1 DEF SeenFirst, Event, OnItem
  <2> QED
    BY <2>1, <2>2
<1> QED
  BY <1>1, <1>2, <1>3, <1>4 DEF Command

\* A command begins,
LEMMA CommandSees ==
  ASSUME IInv, SeenBeforeResolved, NEW c \in Clients, Command(c)
  PROVE  SeenBeforeResolved'
<1>1. PICK events : Begin(c, events) /\ SeenFirst(events, ledger, clock)
  BY CommandsSee
<1>2. /\ time[c] = 0 /\ todo'[c] = events /\ \A d \in Clients \ {c} : todo'[d] = todo[d]
      /\ ledger' = ledger /\ clock' = clock /\ time' = time
  BY <1>1 DEF IInv, TypeOK, Begin
<1>3. Saw(c) = clock /\ \A d \in Clients : Saw(d)' = Saw(d)
  BY <1>2 DEF Saw
<1> QED
  BY <1>1, <1>2, <1>3, SeenBeforeResolvedMeans

\* an event is prepared: nothing has happened at its time,
LEMMA PrepareSees ==
  ASSUME IInv, SeenBeforeResolved, NEW c \in Clients, Prepare(c)
  PROVE  SeenBeforeResolved'
<1>1. /\ time' = [time EXCEPT ![c] = clock + 1] /\ clock' = clock + 1 /\ clock < MaxTime
      /\ ledger' = ledger /\ todo' = todo /\ time[c] = 0
      /\ time \in [Clients -> 0 .. MaxTime] /\ clock \in Nat /\ MaxTime \in Nat
  BY TimesAreNat DEF Prepare, IInv, TypeOK
<1>2. Replay(ledger)[clock + 1] = Replay(ledger)[clock]
  <2>1. clock \in 0 .. MaxTime /\ clock + 1 \in 0 .. MaxTime /\ clock + 1 >= clock
    BY <1>1
  <2>2. \A n \in DOMAIN ledger : ledger[n].at <= clock
    BY DEF IInv, TypeOK
  <2> QED
    BY <2>1, <2>2, LedgerIsLog, ReplayRests
<1>3. \A d \in Clients : Saw(d)' = Saw(d) \/ (Saw(d)' = clock + 1 /\ Saw(d) = clock)
  <2>1. time'[c] = clock + 1 /\ Saw(c) = clock /\ Saw(c)' = clock
    BY <1>1 DEF Saw
  <2>2. \A d \in Clients \ {c} : time'[d] = time[d]
    BY <1>1
  <2> QED
    BY <1>1, <2>1, <2>2 DEF Saw
<1>4. \A d \in Clients : SeenFirst(todo[d], ledger, Saw(d)) => SeenFirst(todo[d], ledger, Saw(d)')
  BY <1>2, <1>3 DEF SeenFirst
<1> QED
  BY <1>1, <1>4, SeenBeforeResolvedMeans

\* a command is given up,
LEMMA FailSees ==
  ASSUME IInv, SeenBeforeResolved, NEW c \in Clients, Fail(c)
  PROVE  SeenBeforeResolved'
<1>1. /\ todo'[c] = <<>>
      /\ \A d \in Clients \ {c} : time'[d] = time[d] /\ todo'[d] = todo[d]
      /\ ledger' = ledger /\ clock' = clock
  BY DEF Fail, IInv, TypeOK
<1>2. \A d \in Clients \ {c} : Saw(d)' = Saw(d)
  BY <1>1 DEF Saw
<1>3. SeenFirst(todo'[c], ledger', Saw(c)')
  BY <1>1 DEF SeenFirst
<1> QED
  BY <1>1, <1>2, <1>3, SeenBeforeResolvedMeans

\* or an event is stored, and hides nothing.
LEMMA StoreSees ==
  ASSUME IInv, SeenBeforeResolved, NEW c \in Clients, Store(c)
  PROVE  SeenBeforeResolved'
<1> SUFFICES ASSUME ResolvedOnce(ledger')
             PROVE  Seen(ledger') /\ \A d \in Clients : SeenFirst(todo'[d], ledger', Saw(d)')
  BY SeenBeforeResolvedMeans
<1> DEFINE r == Row(Head(todo[c]), time[c])
<1>1. /\ Joins(ledger, r, ledger') /\ Seen(ledger)
      /\ r.type = "DriftIncidentResolved" => r.of \in DOMAIN Replay(ledger)[r.at - 1].seen
  BY StoreJoins
<1> HIDE DEF r
<1>2. /\ \A n \in DOMAIN ledger' : n \in DOMAIN ledger \/ ledger'[n] = r
      /\ \A n \in DOMAIN ledger : ledger'[n] = ledger[n]
      /\ ResolvedOnce(ledger)
  BY <1>1, JoinMeans
<1>3. \A t \in 0 .. MaxTime : DOMAIN Replay(ledger)[t].seen \subseteq DOMAIN Replay(ledger')[t].seen
  BY <1>1, JoinKeeps
<1>4. \A d \in Clients : SeenFirst(todo[d], ledger, Saw(d))
  BY <1>2, SeenBeforeResolvedMeans
<1>5. MaxTime \in Nat /\ \A e \in Stored : e.at - 1 \in 0 .. MaxTime
  <2>1. MaxTime \in Nat /\ \A e \in Stored : e.at \in 1 .. MaxTime
    BY StoredKinds, DriftAssumption DEF DriftAssumption
  <2> QED
    BY <2>1
<1>6. Seen(ledger')
  <2> SUFFICES ASSUME NEW n \in DOMAIN ledger', ledger'[n].type = "DriftIncidentResolved"
               PROVE  ledger'[n].of \in DOMAIN Replay(ledger')[ledger'[n].at - 1].seen
    BY DEF Seen
  <2>1. ledger'[n] \in Stored
    BY <1>1 DEF Joins, Log
  <2>2. ledger'[n].of \in DOMAIN Replay(ledger)[ledger'[n].at - 1].seen
    BY <1>1, <1>2 DEF Seen
  <2> QED
    BY <1>3, <1>5, <2>1, <2>2
<1>7. ASSUME NEW d \in Clients PROVE SeenFirst(todo'[d], ledger', Saw(d)')
  <2>1. CASE d = c
    <3>1. todo'[c] = Tail(todo[c]) /\ todo[c] \in Seq(Events) /\ todo[c] # <<>>
      BY DEF Store, IInv, TypeOK
    <3>2. LinkedFirst(todo[c], ledger)
      BY LinkComesFirstMeans DEF IInv
    <3>3. Len(todo[c]) = 1 \/ Len(todo[c]) = 2
      <4>1. Len(todo[c]) <= 2
        BY <3>2, Zenon DEF LinkedFirst
      <4>2. Len(todo[c]) \in Nat /\ Len(todo[c]) # 0
        BY <3>1
      <4> QED
        BY <4>1, <4>2, AtMostTwo, Zenon
    <3>4. CASE Len(todo[c]) = 1
      <4>1. Tail(todo[c]) \in Seq(Events) /\ Len(Tail(todo[c])) = 0
        BY <3>1, <3>4
      <4>2. \A s \in Seq(Events) : Len(s) = 0 => s = <<>>
        OBVIOUS
      <4>3. Tail(todo[c]) = <<>>
        BY <4>1, <4>2
      <4> QED
        BY <2>1, <3>1, <4>3 DEF SeenFirst
    <3>5. CASE Len(todo[c]) = 2
      <4>1. Head(Tail(todo[c])) = todo[c][2]
        BY <3>1, <3>5
      <4>2. todo[c][2].type = "ContextProposed"
        BY <3>2, <3>5, Zenon DEF LinkedFirst
      <4> QED
        BY <2>1, <3>1, <4>1, <4>2 DEF SeenFirst
    <3> QED
      BY <3>3, <3>4, <3>5
  <2>2. CASE d # c
    <3>1. todo'[d] = todo[d] /\ time'[d] = time[d] /\ clock' = clock
      BY <2>2 DEF Store, IInv, TypeOK
    <3>2. Saw(d)' = Saw(d)
      BY <3>1 DEF Saw
    <3>3. Saw(d) \in 0 .. MaxTime
      BY <1>5 DEF Saw, IInv, TypeOK
    <3>4. SeenFirst(todo[d], ledger, Saw(d)) => SeenFirst(todo[d], ledger', Saw(d))
      BY <1>3, <3>3 DEF SeenFirst
    <3> QED
      BY <1>4, <3>1, <3>2, <3>4
  <2> QED
    BY <2>1, <2>2
<1> QED
  BY <1>6, <1>7

\* What is resolved was seen before: the step.
LEMMA NextSees == IInv /\ SeenBeforeResolved /\ [Next]_vars => SeenBeforeResolved'
<1> SUFFICES ASSUME IInv, SeenBeforeResolved, [Next]_vars PROVE SeenBeforeResolved'
  OBVIOUS
<1>1. ASSUME NEW c \in Clients, Command(c) PROVE SeenBeforeResolved'
  BY <1>1, CommandSees
<1>2. ASSUME NEW c \in Clients, Prepare(c) PROVE SeenBeforeResolved'
  BY <1>2, PrepareSees
<1>3. ASSUME NEW c \in Clients, Store(c) PROVE SeenBeforeResolved'
  BY <1>3, StoreSees
<1>4. ASSUME NEW c \in Clients, Fail(c) PROVE SeenBeforeResolved'
  BY <1>4, FailSees
<1>5. CASE UNCHANGED vars
  <2>1. ledger' = ledger /\ todo' = todo /\ time' = time /\ clock' = clock
    BY <1>5 DEF vars
  <2>2. \A d \in Clients : Saw(d)' = Saw(d)
    BY <2>1 DEF Saw
  <2> QED
    BY <2>1, <2>2, SeenBeforeResolvedMeans
<1> QED
  BY <1>1, <1>2, <1>3, <1>4, <1>5 DEF Next

\* What a step may do to resolved incidents.
ResolvedKept ==
  ResolvedOnce(ledger') =>
    \A i \in DOMAIN IncidentsIn(ledger) :
      IncidentsIn(ledger)[i].status # "open" =>
        /\ i \in DOMAIN IncidentsIn(ledger')
        /\ IncidentsIn(ledger')[i].status = IncidentsIn(ledger)[i].status

\* Every step keeps them.
LEMMA NextKeepsResolved == IInv /\ SeenBeforeResolved /\ [Next]_vars => ResolvedKept
<1> SUFFICES ASSUME IInv, SeenBeforeResolved, [Next]_vars, ResolvedOnce(ledger') PROVE ResolvedKept
  BY DEF ResolvedKept
<1>1. CASE ledger' = ledger
  BY <1>1 DEF ResolvedKept
<1>2. ASSUME NEW c \in Clients, Store(c) PROVE ResolvedKept
  <2>1. PICK r : /\ Joins(ledger, r, ledger') /\ Seen(ledger)
                 /\ r.type = "DriftIncidentResolved" => r.of \in DOMAIN Replay(ledger)[r.at - 1].seen
    BY <1>2, StoreJoins
  <2>2. MaxTime \in 0 .. MaxTime
    BY DriftAssumption DEF DriftAssumption
  <2>3. /\ DOMAIN Replay(ledger)[MaxTime].seen \subseteq DOMAIN Replay(ledger')[MaxTime].seen
        /\ \A i \in DOMAIN Replay(ledger)[MaxTime].seen :
             Replay(ledger)[MaxTime].seen[i].status # "open" =>
               Replay(ledger')[MaxTime].seen[i].status = Replay(ledger)[MaxTime].seen[i].status
    BY <2>1, <2>2, JoinKeeps
  <2>4. /\ IncidentsIn(ledger) = Replay(ledger)[MaxTime].seen
        /\ IncidentsIn(ledger') = Replay(ledger')[MaxTime].seen
    BY DEF IncidentsIn
  <2> QED
    BY <2>3, <2>4 DEF ResolvedKept
<1>3. ledger' = ledger \/ \E c \in Clients : Store(c)
  <2>1. ASSUME NEW c \in Clients, Command(c) PROVE ledger' = ledger
    BY <2>1, CommandsBegin DEF Begin
  <2> QED
    BY <2>1 DEF Next, Prepare, Fail, vars
<1> QED
  BY <1>1, <1>2, <1>3

\* The inductive invariant holds in every behaviour.
THEOREM Invariance == Spec => []IInv
<1>1. Init => IInv
  BY InitIInv
<1>2. IInv /\ [Next]_vars => IInv'
  BY NextIInv
<1> QED
  BY <1>1, <1>2, PTL DEF Spec

\* The variables keep their shape.
THEOREM TypeCorrectness == Spec => []TypeOK
<1>1. IInv => TypeOK
  BY DEF IInv
<1> QED
  BY <1>1, Invariance, PTL

\* The order of versions in a stream is the order of times, although an event
\* gets its time before it is known to be stored: contextItemFrom, which sorts
\* by version, and driftIncidentsFrom, which sorts by time, agree on a stream.
THEOREM StreamsOrdered == Spec => []StreamsInClockOrder
<1>1. IInv => StreamsInClockOrder
  BY DEF IInv
<1> QED
  BY <1>1, Invariance, PTL

\* A promotion that fails between its two appends never leaves a candidate
\* that no incident points to.
THEOREM NoOrphanCandidate == Spec => []CandidatesLinked
<1>1. IInv => CandidatesLinked
  BY DEF IInv
<1> QED
  BY <1>1, Invariance, PTL

\* Every observation is counted in exactly one incident, whatever arrives late
\* and whatever is resolved, promoted or resolved again meanwhile.
THEOREM ObservationsCounted == Spec => []EveryObservationCounts
<1>1. IInv => EveryObservationCounts
  BY LedgerIsLog, LogOfIncidents
<1> QED
  BY <1>1, Invariance, PTL

\* A violation observed after everything that was resolved about it has an open
\* incident: driftIncidentsFrom never buries a recurrence in a closed report.
THEOREM RecurrencesSurface == Spec => []RecurrenceSurfaces
<1>1. IInv => RecurrenceSurfaces
  BY LedgerIsLog, LogOfIncidents
<1> QED
  BY <1>1, Invariance, PTL

\* As long as no incident is resolved twice, a violation has at most one open incident.
THEOREM AtMostOneOpen == Spec => []OneOpenIncident
<1>1. IInv => OneOpenIncident
  BY LedgerIsLog, LogOfIncidents
<1> QED
  BY <1>1, Invariance, PTL

\* An incident stays seen before its resolution, whatever arrives late.
THEOREM ResolvedWereSeen == Spec => [](IInv /\ SeenBeforeResolved)
<1>1. Init => IInv /\ SeenBeforeResolved
  BY InitIInv, InitSees
<1>2. IInv /\ SeenBeforeResolved /\ [Next]_vars => (IInv /\ SeenBeforeResolved)'
  BY NextIInv, NextSees
<1> QED
  BY <1>1, <1>2, PTL DEF Spec

\* A resolution lasts: as long as no incident is resolved twice, no event that
\* is stored later, with an earlier or a later time, opens the incident again.
THEOREM ResolutionsLast == Spec => ResolutionLasts
<1>1. IInv /\ SeenBeforeResolved /\ [Next]_vars => [ResolvedKept]_vars
  BY NextKeepsResolved
<1>2. Spec => [][ResolvedKept]_vars
  BY <1>1, ResolvedWereSeen, PTL DEF Spec
<1>3. ResolutionLasts <=> [][ResolvedKept]_vars
  BY DEF ResolutionLasts, ResolvedKept
<1> QED
  BY <1>2, <1>3
-----------------------------------------------------------------------------
(* What the promise that corrections stand hinges on.                       *)

ItemStates == [confidence : {"absent", "unverified", "confirmed"}, disputed : BOOLEAN,
               correctedAt : Nat]

\* What one event makes of an item.
Amend(item, e, x) == IF e.type \in OnItem /\ e.of = x THEN FoldItem(item, e) ELSE item

\* f is what is known of x after each of the first n events.
Reads(events, x, f, n) ==
  f = [k \in 0 .. n |-> IF k = 0 THEN Absent ELSE Amend(f[k - 1], events[k], x)]

\* The same, event by event.
LEMMA ReadsSteps ==
  ASSUME NEW events, NEW x, NEW n \in Nat, NEW f, Reads(events, x, f, n)
  PROVE  f[0] = Absent /\ \A k \in 1 .. n : f[k] = Amend(f[k - 1], events[k], x)
<1> DEFINE At1(k) == IF k = 0 THEN Absent ELSE Amend(f[k - 1], events[k], x)
<1>1. f = [k \in 0 .. n |-> At1(k)]
  BY DEF Reads
<1>2. \A k \in 0 .. n : f[k] = At1(k)
  <2> HIDE DEF At1
  <2> QED
    BY <1>1
<1>3. 0 \in 0 .. n /\ \A k \in 1 .. n : k \in 0 .. n /\ k # 0
  OBVIOUS
<1> QED
  BY <1>2, <1>3

\* Reading goes on with the next event,
LEMMA ReadsOn ==
  ASSUME NEW events, NEW x, NEW n \in Nat, NEW f, Reads(events, x, f, n)
  PROVE  \E g : Reads(events, x, g, n + 1) /\ g[n] = f[n]
<1> DEFINE At1(h, k) == IF k = 0 THEN Absent ELSE Amend(h[k - 1], events[k], x)
           g == [k \in 0 .. n + 1 |-> IF k <= n THEN f[k] ELSE Amend(f[n], events[n + 1], x)]
<1>1. \A k \in 0 .. n : f[k] = At1(f, k)
  <2>1. f = [k \in 0 .. n |-> At1(f, k)]
    BY DEF Reads
  <2> HIDE DEF At1
  <2> QED
    BY <2>1
<1>2. \A k \in 0 .. n : g[k] = f[k]
  OBVIOUS
<1>3. g[n + 1] = Amend(f[n], events[n + 1], x)
  OBVIOUS
<1>4. \A k \in 0 .. n + 1 : k # 0 => k - 1 \in 0 .. n /\ g[k - 1] = f[k - 1]
  BY <1>2
<1> HIDE DEF g
<1>5. ASSUME NEW k \in 0 .. n + 1 PROVE g[k] = At1(g, k)
  <2>1. CASE k = n + 1
    BY <1>3, <1>4, <2>1
  <2>2. CASE k # n + 1
    BY <1>1, <1>2, <1>4, <2>2
  <2> QED
    BY <2>1, <2>2
<1>6. g = [k \in 0 .. n + 1 |-> g[k]]
  BY DEF g
<1>7. g = [k \in 0 .. n + 1 |-> At1(g, k)]
  <2> HIDE DEF At1
  <2> QED
    BY <1>5, <1>6
<1>8. Reads(events, x, g, n + 1)
  BY <1>7 DEF Reads
<1>9. g[n] = f[n]
  BY <1>2
<1> QED
  BY <1>8, <1>9

\* so a log can be read to its end.
LEMMA ReadsExist ==
  ASSUME NEW events, NEW x
  PROVE  \A n \in Nat : \E f : Reads(events, x, f, n)
<1> DEFINE S == {n \in Nat : \E f : Reads(events, x, f, n)}
<1>1. 0 \in S
  <2> DEFINE f == [k \in 0 .. 0 |-> Absent]
  <2>1. f = [k \in 0 .. 0 |-> IF k = 0 THEN Absent ELSE Amend(f[k - 1], events[k], x)]
    OBVIOUS
  <2>2. Reads(events, x, f, 0)
    BY <2>1 DEF Reads
  <2> QED
    BY <2>2
<1>2. ASSUME NEW n \in Nat, n \in S PROVE n + 1 \in S
  BY <1>2, ReadsOn
<1>3. Nat \subseteq S
  <2> HIDE DEF S
  <2> QED
    BY <1>1, <1>2, SetInduction
<1> QED
  BY <1>3

\* contextItemFrom reads the log to its end.
LEMMA ItemInReads ==
  ASSUME NEW events, Len(events) \in Nat, NEW x
  PROVE  \E f : Reads(events, x, f, Len(events)) /\ ItemIn(events, x) = f[Len(events)]
<1> DEFINE f == CHOOSE h : Reads(events, x, h, Len(events))
<1>1. Reads(events, x, f, Len(events))
  BY ReadsExist
<1>2. ItemIn(events, x) = f[Len(events)]
  BY DEF ItemIn, Reads, Amend
<1> QED
  BY <1>1, <1>2

\* Two logs that agree on the first n events are read alike up to there.
LEMMA ReadsAgree ==
  ASSUME NEW old, NEW new, NEW x, NEW n \in Nat, NEW m \in Nat, n <= m,
         NEW f, Reads(old, x, f, n), NEW g, Reads(new, x, g, m),
         \A k \in 1 .. n : new[k] = old[k]
  PROVE  g[n] = f[n]
<1> DEFINE S == {k \in Nat : k <= n => g[k] = f[k]}
<1>1. /\ f[0] = Absent /\ \A k \in 1 .. n : f[k] = Amend(f[k - 1], old[k], x)
      /\ g[0] = Absent /\ \A k \in 1 .. m : g[k] = Amend(g[k - 1], new[k], x)
  BY ReadsSteps
<1>2. 0 \in S
  BY <1>1
<1>3. ASSUME NEW k \in Nat, k \in S PROVE k + 1 \in S
  <2> SUFFICES ASSUME k + 1 <= n PROVE g[k + 1] = f[k + 1]
    OBVIOUS
  <2>1. k + 1 \in 1 .. n /\ k + 1 \in 1 .. m /\ (k + 1) - 1 = k /\ g[k] = f[k]
    BY <1>3
  <2>2. f[k + 1] = Amend(f[k], old[k + 1], x) /\ g[k + 1] = Amend(g[k], new[k + 1], x)
    BY <1>1, <2>1
  <2> QED
    BY <2>1, <2>2
<1>4. Nat \subseteq S
  <2> HIDE DEF S
  <2> QED
    BY <1>2, <1>3, SetInduction
<1> QED
  BY <1>4

\* An event at the end of the log amends what the log says of the item.
LEMMA ItemAfterAppend ==
  ASSUME NEW events \in Seq(Stored), NEW r, NEW x
  PROVE  ItemIn(Append(events, r), x) = Amend(ItemIn(events, x), r, x)
<1> DEFINE n == Len(events)
           new == Append(events, r)
<1>1. n \in Nat /\ Len(new) = n + 1 /\ new[n + 1] = r /\ \A k \in 1 .. n : new[k] = events[k]
  OBVIOUS
<1>2. PICK f : Reads(events, x, f, n) /\ ItemIn(events, x) = f[n]
  BY <1>1, ItemInReads
<1> HIDE DEF new
<1>3. PICK g : Reads(new, x, g, n + 1) /\ ItemIn(new, x) = g[n + 1]
  BY <1>1, ItemInReads
<1> HIDE DEF n
<1>4. g[n] = f[n]
  BY <1>1, <1>2, <1>3, ReadsAgree
<1>5. g[n + 1] = Amend(g[n], new[n + 1], x)
  <2>1. n + 1 \in Nat /\ n + 1 \in 1 .. n + 1 /\ (n + 1) - 1 = n
    BY <1>1
  <2>2. \A k \in 1 .. n + 1 : g[k] = Amend(g[k - 1], new[k], x)
    BY <1>3, <2>1, ReadsSteps
  <2> QED
    BY <2>1, <2>2
<1> QED
  BY <1>1, <1>2, <1>3, <1>4, <1>5 DEF new

\* What is known of an item has its type, came with a proposal, and a correction
\* with an event that made it.
Founded(item, events, x, n) ==
  /\ item \in ItemStates
  /\ item # Absent =>
       \E m \in 1 .. n : events[m].type = "ContextProposed" /\ events[m].of = x
  /\ item.correctedAt > 0 =>
       \E m \in 1 .. n : events[m].type = "ContextCorrected" /\ events[m].of = x

\* An event that amends an item founds what is new.
LEMMA AmendFounded ==
  ASSUME NEW events, NEW x, NEW n \in Nat, NEW item, Founded(item, events, x, n),
         events[n + 1] \in Stored
  PROVE  Founded(Amend(item, events[n + 1], x), events, x, n + 1)
<1> DEFINE e == events[n + 1]
<1>1. e.at \in Nat /\ item \in ItemStates /\ n + 1 \in 1 .. n + 1 /\ 1 .. n \subseteq 1 .. n + 1
  BY StoredKinds, TimesAreNat DEF Founded
<1>2. /\ item.confidence \in {"absent", "unverified", "confirmed"}
      /\ item.disputed \in BOOLEAN /\ item.correctedAt \in Nat
  BY <1>1 DEF ItemStates
<1>3. Absent \in ItemStates /\ Absent.correctedAt = 0
  BY DEF Absent, ItemStates
<1> HIDE DEF e
<1>4. CASE ~(e.type \in OnItem /\ e.of = x)
  BY <1>1, <1>4 DEF Amend, Founded, e
<1>5. CASE e.type = "ContextProposed" /\ e.of = x
  <2>1. Amend(item, e, x) = [Absent EXCEPT !.confidence = "unverified"]
    BY <1>5 DEF Amend, FoldItem, OnItem
  <2>2. Amend(item, e, x) \in ItemStates /\ Amend(item, e, x).correctedAt = 0
    BY <1>3, <2>1 DEF ItemStates
  <2> QED
    BY <1>1, <1>5, <2>2 DEF Founded, e
<1>6. CASE e.type \in {"ContextConfirmed", "ContextChallenged"} /\ e.of = x
  <2>1. /\ Amend(item, e, x) \in ItemStates
        /\ Amend(item, e, x).correctedAt = item.correctedAt
        /\ Amend(item, e, x) # Absent => item # Absent
    BY <1>1, <1>2, <1>6 DEF Amend, FoldItem, OnItem, ItemStates
  <2> QED
    BY <1>1, <2>1 DEF Founded, e
<1>7. CASE e.type = "ContextCorrected" /\ e.of = x
  <2>1. /\ Amend(item, e, x) \in ItemStates
        /\ Amend(item, e, x) # Absent => item # Absent
    BY <1>1, <1>2, <1>7 DEF Amend, FoldItem, OnItem, ItemStates
  <2> QED
    BY <1>1, <1>7, <2>1 DEF Founded, e
<1> QED
  BY <1>4, <1>5, <1>6, <1>7 DEF OnItem

\* contextItemFrom makes nothing up.
LEMMA ItemFounded ==
  ASSUME NEW events \in Seq(Stored), NEW x
  PROVE  Founded(ItemIn(events, x), events, x, Len(events))
<1>1. Len(events) \in Nat /\ \A k \in 1 .. Len(events) : events[k] \in Stored
  OBVIOUS
<1>2. PICK f : Reads(events, x, f, Len(events)) /\ ItemIn(events, x) = f[Len(events)]
  BY <1>1, ItemInReads
<1>3. f[0] = Absent /\ \A k \in 1 .. Len(events) : f[k] = Amend(f[k - 1], events[k], x)
  BY <1>1, <1>2, ReadsSteps
<1> DEFINE S == {k \in Nat : k <= Len(events) => Founded(f[k], events, x, k)}
<1>4. 0 \in S
  <2>1. Absent \in ItemStates /\ Absent.correctedAt = 0
    BY DEF Absent, ItemStates
  <2>2. Founded(f[0], events, x, 0)
    BY <1>3, <2>1 DEF Founded
  <2> QED
    BY <2>2
<1>5. ASSUME NEW k \in Nat, k \in S PROVE k + 1 \in S
  <2> SUFFICES ASSUME k + 1 <= Len(events) PROVE Founded(f[k + 1], events, x, k + 1)
    OBVIOUS
  <2>1. k + 1 \in 1 .. Len(events) /\ (k + 1) - 1 = k /\ Founded(f[k], events, x, k)
    BY <1>1, <1>5
  <2>2. f[k + 1] = Amend(f[k], events[k + 1], x) /\ events[k + 1] \in Stored
    BY <1>1, <1>3, <2>1
  <2> QED
    BY <2>1, <2>2, AmendFounded
<1>6. Nat \subseteq S
  <2> HIDE DEF S
  <2> QED
    BY <1>4, <1>5, SetInduction
<1> QED
  BY <1>1, <1>2, <1>6

\* No item is proposed twice, or corrected twice.
AmendedOnce ==
  \A m, n \in DOMAIN ledger :
    /\ ledger[m].type \in {"ContextProposed", "ContextCorrected"}
    /\ ledger[m].type = ledger[n].type /\ ledger[m].of = ledger[n].of
    => m = n

CorrectionsKept ==
  \A x \in Items :
    ItemIn(ledger, x).correctedAt > 0 =>
      ItemIn(ledger', x).correctedAt = ItemIn(ledger, x).correctedAt

\* Only an event that proposes or corrects the item again touches its correction.
LEMMA StoreKeepsCorrection ==
  ASSUME IInv, AmendedOnce', NEW c \in Clients, Store(c)
  PROVE  CorrectionsKept
<1> SUFFICES ASSUME NEW x \in Items, ItemIn(ledger, x).correctedAt > 0
             PROVE  ItemIn(ledger', x).correctedAt = ItemIn(ledger, x).correctedAt
  BY DEF CorrectionsKept
<1> DEFINE r == Row(Head(todo[c]), time[c])
           n == Len(ledger)
<1>1. ledger \in Seq(Stored) /\ ledger' = Append(ledger, r)
  BY DEF Store, IInv, TypeOK
<1> HIDE DEF r
<1>2. /\ n \in Nat /\ DOMAIN ledger' = 1 .. n + 1 /\ ledger'[n + 1] = r
      /\ \A m \in 1 .. n : ledger'[m] = ledger[m]
  BY <1>1
<1>3. ItemIn(ledger', x) = Amend(ItemIn(ledger, x), r, x)
  BY <1>1, ItemAfterAppend
<1>4. /\ ItemIn(ledger, x) \in ItemStates /\ ItemIn(ledger, x) # Absent
      /\ \A type \in {"ContextProposed", "ContextCorrected"} :
           \E m \in 1 .. n : ledger[m].type = type /\ ledger[m].of = x
  <2>1. Founded(ItemIn(ledger, x), ledger, x, n)
    BY <1>1, ItemFounded
  <2>2. ItemIn(ledger, x) # Absent
    BY DEF Absent
  <2> QED
    BY <2>1, <2>2 DEF Founded
<1> HIDE DEF n
<1>5. ~(r.type \in {"ContextProposed", "ContextCorrected"} /\ r.of = x)
  <2> SUFFICES ASSUME r.type \in {"ContextProposed", "ContextCorrected"}, r.of = x PROVE FALSE
    OBVIOUS
  <2>1. PICK m \in 1 .. n : ledger[m].type = r.type /\ ledger[m].of = x
    BY <1>4
  <2>2. m \in 1 .. n + 1 /\ n + 1 \in 1 .. n + 1 /\ m # n + 1
    BY <1>2
  <2> QED
    BY <1>2, <2>1, <2>2 DEF AmendedOnce
<1>6. CASE ~(r.type \in OnItem /\ r.of = x)
  BY <1>3, <1>6 DEF Amend
<1>7. CASE r.type \in {"ContextConfirmed", "ContextChallenged"} /\ r.of = x
  BY <1>3, <1>4, <1>7 DEF Amend, FoldItem, OnItem, ItemStates
<1> QED
  BY <1>5, <1>6, <1>7 DEF OnItem

\* INV-012 hinges on repetition, which the run drift_correction shows no guard prevents:
\* as long as no item is proposed twice, by a second promotion of an incident or of another
\* with the same item, and none corrected twice, every correction stands, whatever else
\* is confirmed, challenged, promoted and resolved.
THEOREM CorrectionsStandOnce == Spec /\ []AmendedOnce => CorrectionsStand
<1>1. ASSUME IInv, AmendedOnce', [Next]_vars PROVE CorrectionsKept
  <2>1. CASE ledger' = ledger
    BY <2>1 DEF CorrectionsKept
  <2>2. ASSUME NEW c \in Clients, Command(c) PROVE ledger' = ledger
    BY <1>1, <2>2, CommandsBegin DEF Begin
  <2>3. ledger' = ledger \/ \E c \in Clients : Store(c)
    BY <1>1, <2>2 DEF Next, Prepare, Fail, vars
  <2> QED
    BY <1>1, <2>1, <2>3, StoreKeepsCorrection
<1>2. IInv /\ AmendedOnce' /\ [Next]_vars => [CorrectionsKept]_vars
  BY <1>1
<1>3. Spec /\ []AmendedOnce => [][CorrectionsKept]_vars
  BY <1>2, Invariance, PTL DEF Spec
<1>4. CorrectionsStand <=> [][CorrectionsKept]_vars
  BY DEF CorrectionsStand, CorrectionsKept
<1> QED
  BY <1>3, <1>4
=============================================================================
