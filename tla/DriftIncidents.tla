--------------------------- MODULE DriftIncidents ---------------------------
(***************************************************************************)
(* Runtime observations, the drift incidents derived from them, and the    *)
(* context items that open incidents are promoted to.                      *)
(*                                                                         *)
(* An event gets its time when its row is prepared, and joins the ledger   *)
(* later: by then events with later times may be there, of other streams.  *)
(* driftIncidentsFrom folds all streams by time, so a late event changes   *)
(* what was already seen; contextItemFrom folds one stream by version.     *)
(* A promotion is two appends to two streams, and each of them can fail.   *)
(***************************************************************************)
EXTENDS Naturals, Sequences, FiniteSets

CONSTANTS Clients,
          Violations,   \* what is observed: kind, operation, environment, detail
          Items,        \* context items
          ItemOf,       \* the item an incident is promoted to
          Resolutions,
          Nothing,
          MaxTime       \* bound: events prepared

Incidents == Violations \X (1 .. MaxTime)

ASSUME DriftAssumption ==
  /\ MaxTime \in Nat
  /\ ItemOf \in [Incidents -> Items]
  /\ "open" \notin Resolutions

VARIABLES ledger,  \* the events, in the order in which they were stored
          clock,   \* the latest time given to an event
          todo,    \* the events each client's command has still to append
          time,    \* the time of the first of them, 0 until it is prepared
          based    \* the length its stream had then

vars == <<ledger, clock, todo, time, based>>

OnIncident == {"DriftIncidentResolved", "DriftPromotedToCandidate"}

OnItem == {"ContextProposed", "ContextConfirmed", "ContextChallenged", "ContextCorrected"}

\* 'of' is the violation, incident or context item, 'as' the resolution.
Events == [type : {"RuntimeObservationRecorded"}, of : Violations, as : {Nothing}]
          \cup [type : {"DriftIncidentResolved"}, of : Incidents, as : Resolutions]
          \cup [type : {"DriftPromotedToCandidate"}, of : Incidents, as : {Nothing}]
          \cup [type : OnItem, of : Items, as : {Nothing}]

\* The row of an event that was prepared at t.
Row(e, t) == [type |-> e.type, of |-> e.of, as |-> e.as, at |-> t]

Stored == {Row(e, t) : e \in Events, t \in 1 .. MaxTime}

Event(type, of) == [type |-> type, of |-> of, as |-> Nothing]

\* aggregateOf: an observation has a stream of its own.
SameStream(d, e) ==
  /\ d.type # "RuntimeObservationRecorded" /\ e.type # "RuntimeObservationRecorded"
  /\ d.type \in OnIncident <=> e.type \in OnIncident
  /\ d.of = e.of
-----------------------------------------------------------------------------
(* The projections. *)

\* An incident that is observed first.
Opened(seen, i) ==
  [j \in DOMAIN seen \cup {i} |->
     IF j = i THEN [status |-> "open", occurrences |-> 1, promoted |-> Nothing] ELSE seen[j]]

\* Mutant: the first observation after a resolution is lost.
ObserveKnown(inc, v) ==
  LET i == <<v, inc.latest[v]>>
  IN  CASE i \in DOMAIN inc.seen -> [inc EXCEPT !.seen[i].occurrences = @ + 1]
        [] inc.latest[v] = 1 /\ i \notin DOMAIN inc.seen -> [inc EXCEPT !.seen = Opened(@, i)]
        [] OTHER -> inc

\* Mutant: a recurrence opens the first incident again.
ObserveReopening(inc, v) == [inc EXCEPT !.seen = Opened(@, <<v, 1>>)]

\* A violation folds into the incident of its current generation.
Observe(inc, v) ==
  LET i == <<v, inc.latest[v]>>
  IN  IF i \in DOMAIN inc.seen
      THEN [inc EXCEPT !.seen[i].occurrences = @ + 1]
      ELSE [inc EXCEPT !.seen = Opened(@, i)]

\* Mutant: a resolution does not start a new generation.
CloseForGood(inc, i, resolution) == [inc EXCEPT !.seen[i].status = resolution]

\* Mutant: a new generation starts and the old one stays open.
CloseNothing(inc, i, resolution) == [inc EXCEPT !.latest[i[1]] = @ + 1]

\* A resolution starts a new generation, also when the incident is an old one.
Close(inc, i, resolution) ==
  [latest |-> [inc.latest EXCEPT ![i[1]] = @ + 1],
   seen |-> [inc.seen EXCEPT ![i].status = resolution]]

FoldIncidents(inc, e) ==
  CASE e.type = "RuntimeObservationRecorded" -> Observe(inc, e.of)
    [] e.type = "DriftIncidentResolved" /\ e.of \in DOMAIN inc.seen
         -> Close(inc, e.of, e.as)
    [] e.type = "DriftPromotedToCandidate" /\ e.of \in DOMAIN inc.seen
         -> [inc EXCEPT !.seen[e.of].promoted = ItemOf[e.of]]
    [] OTHER -> inc

\* The events of a time: at most one, TimesDiffer says.
At(events, t) == {n \in DOMAIN events : events[n].at = t}

\* An event happens at t, or nothing.
Happens(events, inc, t) ==
  IF At(events, t) = {} THEN inc ELSE FoldIncidents(inc, events[CHOOSE n \in At(events, t) : TRUE])

\* driftIncidentsFrom, sorted by occurredAt: what is seen in the events up to each time.
Replay(events) ==
  LET upTo[t \in 0 .. MaxTime] ==
        IF t = 0 THEN [latest |-> [v \in Violations |-> 1], seen |-> <<>>]
        ELSE Happens(events, upTo[t - 1], t)
  IN  upTo

IncidentsIn(events) == Replay(events)[MaxTime].seen

Absent == [confidence |-> "absent", disputed |-> FALSE, correctedAt |-> 0]

\* contextItemFrom: a further proposal replaces whatever was known.
FoldItem(item, e) ==
  CASE e.type = "ContextProposed" -> [Absent EXCEPT !.confidence = "unverified"]
    [] e.type = "ContextConfirmed" /\ item # Absent -> [item EXCEPT !.confidence = "confirmed"]
    [] e.type = "ContextChallenged" /\ item # Absent -> [item EXCEPT !.disputed = TRUE]
    [] e.type = "ContextCorrected" /\ item # Absent -> [item EXCEPT !.correctedAt = e.at]
    [] OTHER -> item

ItemIn(events, x) ==
  LET upTo[n \in 0 .. Len(events)] ==
        IF n = 0 THEN Absent
        ELSE IF events[n].type \in OnItem /\ events[n].of = x THEN FoldItem(upTo[n - 1], events[n])
        ELSE upTo[n - 1]
  IN  upTo[Len(events)]
-----------------------------------------------------------------------------
Init ==
  /\ ledger = <<>>
  /\ clock = 0
  /\ todo = [c \in Clients |-> <<>>]
  /\ time = [c \in Clients |-> 0]
  /\ based = [c \in Clients |-> 0]

\* The guards of a command are satisfied and its appends are to follow.
Begin(c, events) ==
  /\ todo[c] = <<>>
  /\ clock < MaxTime
  /\ todo' = [todo EXCEPT ![c] = events]
  /\ UNCHANGED <<ledger, clock, time, based>>

RecordRuntimeObservation(c, v) ==
  Begin(c, <<Event("RuntimeObservationRecorded", v)>>)

\* Nothing asks whether the incident is open; the caller has seen it.
ResolveDriftIncident(c, i, resolution) ==
  /\ i \in DOMAIN IncidentsIn(ledger)
  /\ Begin(c, <<[Event("DriftIncidentResolved", i) EXCEPT !.as = resolution]>>)

IsOpen(i) == i \in DOMAIN IncidentsIn(ledger) /\ IncidentsIn(ledger)[i].status = "open"

\* Nothing asks whether the incident has been promoted before.
PromoteDriftIncident(c, i) ==
  /\ IsOpen(i)
  /\ Begin(c, <<Event("DriftPromotedToCandidate", i), Event("ContextProposed", ItemOf[i])>>)

\* Callers name incidents and items they have seen.
Known == {x \in Items : ItemIn(ledger, x) # Absent}

\* No guard reads the ledger.  Narrowing, evidence, expiry and visibility are
\* amendments like a challenge.
ConfirmContext(c, x) == Begin(c, <<Event("ContextConfirmed", x)>>)
ChallengeContext(c, x) == Begin(c, <<Event("ContextChallenged", x)>>)

CorrectContext(c, x) ==
  /\ x \in Known
  /\ ItemIn(ledger, x).correctedAt = 0
  /\ Begin(c, <<Event("ContextCorrected", x)>>)

\* The version of the stream the next event of c goes to.
Version(c) == Cardinality({n \in DOMAIN ledger : SameStream(ledger[n], Head(todo[c]))})

\* The version has been read, the row gets its time.
Prepare(c) ==
  /\ todo[c] # <<>>
  /\ time[c] = 0
  /\ clock < MaxTime
  /\ clock' = clock + 1
  /\ time' = [time EXCEPT ![c] = clock + 1]
  /\ based' = [based EXCEPT ![c] = Version(c)]
  /\ UNCHANGED <<ledger, todo>>

\* Mutant: nothing keeps two appends from taking the same version.
NeverTaken(c) == FALSE

\* The primary key: somebody else appended to the stream since.
KeyTaken(c) == Version(c) # based[c]

Store(c) ==
  /\ time[c] > 0
  /\ ~KeyTaken(c)
  /\ ledger' = Append(ledger, Row(Head(todo[c]), time[c]))
  /\ todo' = [todo EXCEPT ![c] = Tail(@)]
  /\ time' = [time EXCEPT ![c] = 0]
  /\ based' = [based EXCEPT ![c] = 0]
  /\ UNCHANGED clock

\* Mutant: after an error the rest of the command is still appended.
SkipFailed(c) ==
  /\ todo[c] # <<>>
  /\ todo' = [todo EXCEPT ![c] = Tail(@)]
  /\ time' = [time EXCEPT ![c] = 0]
  /\ based' = [based EXCEPT ![c] = 0]
  /\ UNCHANGED <<ledger, clock>>

\* Mutant: the time of the failed append is used for the next one.
FailKeepsTime(c) ==
  /\ todo[c] # <<>>
  /\ todo' = [todo EXCEPT ![c] = <<>>]
  /\ UNCHANGED <<ledger, clock, time, based>>

\* A ConcurrencyError or a failing query: what the command has appended before
\* stays, and the rest is given up.
Fail(c) ==
  /\ todo[c] # <<>>
  /\ todo' = [todo EXCEPT ![c] = <<>>]
  /\ time' = [time EXCEPT ![c] = 0]
  /\ based' = [based EXCEPT ![c] = 0]
  /\ UNCHANGED <<ledger, clock>>

Command(c) ==
  \/ \E v \in Violations : RecordRuntimeObservation(c, v)
  \/ \E i \in Incidents : \/ PromoteDriftIncident(c, i)
                          \/ \E r \in Resolutions : ResolveDriftIncident(c, i, r)
  \/ \E x \in Known : ConfirmContext(c, x) \/ ChallengeContext(c, x) \/ CorrectContext(c, x)

Next == \E c \in Clients : Command(c) \/ Prepare(c) \/ Store(c) \/ Fail(c)

Spec == Init /\ [][Next]_vars
-----------------------------------------------------------------------------
\* The variables have the shape the code gives them: an event is prepared only
\* for a command in progress, and nothing has a time that is still to come.
TypeOK ==
  /\ ledger \in Seq(Stored)
  /\ clock \in 0 .. MaxTime
  /\ todo \in [Clients -> Seq(Events)]
  /\ time \in [Clients -> 0 .. MaxTime]
  /\ based \in [Clients -> Nat]
  /\ \A c \in Clients : time[c] <= clock /\ (time[c] > 0 => todo[c] # <<>>)
  /\ \A n \in DOMAIN ledger : ledger[n].at <= clock

Observed(events, v) == {n \in DOMAIN events : /\ events[n].type = "RuntimeObservationRecorded"
                                              /\ events[n].of = v}

Resolved(events, v) == {n \in DOMAIN events : /\ events[n].type = "DriftIncidentResolved"
                                              /\ events[n].of[1] = v}

\* How often i has been seen.
Occurrences(seen, i) == IF i \in DOMAIN seen THEN seen[i].occurrences ELSE 0

\* The occurrences of the incidents of v up to each generation.
Sums(seen, v) ==
  LET sum[g \in 0 .. MaxTime] == IF g = 0 THEN 0 ELSE sum[g - 1] + Occurrences(seen, <<v, g>>)
  IN  sum

\* Every observation is counted in exactly one incident, in whatever order the
\* events of the different streams arrive.
EveryObservationCounts ==
  \A v \in Violations :
    Sums(IncidentsIn(ledger), v)[MaxTime] = Cardinality(Observed(ledger, v))

\* A recurrence is not buried in a closed report: a violation observed after
\* everything that was resolved about it has an open incident.
RecurrenceSurfaces ==
  \A v \in Violations :
    (\E n \in Observed(ledger, v) : \A r \in Resolved(ledger, v) : ledger[r].at < ledger[n].at)
    => \E i \in DOMAIN IncidentsIn(ledger) : i[1] = v /\ IsOpen(i)

ResolvedOnce(events) ==
  \A m, n \in DOMAIN events :
    /\ events[m].type = "DriftIncidentResolved" /\ events[n].type = "DriftIncidentResolved"
    /\ events[m].of = events[n].of
    => m = n

\* The same violation folds into one incident: as long as no incident is
\* resolved twice, at most one of a violation is open.
OneOpenIncident ==
  ResolvedOnce(ledger) =>
    \A i, j \in DOMAIN IncidentsIn(ledger) : i[1] = j[1] /\ IsOpen(i) /\ IsOpen(j) => i = j

\* A promoted item is a candidate of an incident that says so: a promotion
\* that breaks half-way leaves a link without item, never an item without link.
CandidatesLinked ==
  \A n \in DOMAIN ledger :
    ledger[n].type = "ContextProposed" =>
      \E m \in 1 .. (n - 1) : /\ ledger[m].type = "DriftPromotedToCandidate"
                             /\ ItemOf[ledger[m].of] = ledger[n].of

\* Sorting a stream by time and sorting it by version is the same.
StreamsInClockOrder ==
  \A m, n \in DOMAIN ledger :
    m < n /\ SameStream(ledger[m], ledger[n]) => ledger[m].at < ledger[n].at

\* What is known of a client with a prepared event: its stream is no shorter
\* than it was, and as long as it is not longer the event is its latest.
PreparedIsLatest ==
  \A c \in Clients : time[c] > 0 =>
    /\ based[c] <= Version(c)
    /\ ~KeyTaken(c) => \A n \in DOMAIN ledger :
                          SameStream(ledger[n], Head(todo[c])) => ledger[n].at < time[c]

Linked(x) == \E m \in DOMAIN ledger :
  ledger[m].type = "DriftPromotedToCandidate" /\ ItemOf[ledger[m].of] = x

\* A command that still has a candidate to propose has linked it, or will first.
LinkComesFirst ==
  \A c \in Clients :
    /\ Len(todo[c]) <= 2
    /\ Len(todo[c]) >= 1 /\ todo[c][1].type = "ContextProposed" => Linked(todo[c][1].of)
    /\ Len(todo[c]) = 2 => /\ todo[c][1].type = "DriftPromotedToCandidate"
                          /\ todo[c][2].type = "ContextProposed"
                          /\ ItemOf[todo[c][1].of] = todo[c][2].of

\* No time is given twice.
TimesDiffer ==
  /\ \A m, n \in DOMAIN ledger : ledger[m].at = ledger[n].at => m = n
  /\ \A c \in Clients : time[c] > 0 =>
       /\ \A n \in DOMAIN ledger : ledger[n].at # time[c]
       /\ \A d \in Clients : time[d] = time[c] => d = c

\* The inductive invariant.
IInv == /\ TypeOK /\ PreparedIsLatest /\ StreamsInClockOrder /\ LinkComesFirst /\ CandidatesLinked
        /\ TimesDiffer

\* Who resolves an incident has seen it: whatever arrives late, it stays seen in what was
\* before the resolution.
SeenBeforeResolved ==
  ResolvedOnce(ledger) =>
    /\ \A n \in DOMAIN ledger : ledger[n].type = "DriftIncidentResolved" =>
         ledger[n].of \in DOMAIN Replay(ledger)[ledger[n].at - 1].seen
    /\ \A c \in Clients : todo[c] # <<>> /\ Head(todo[c]).type = "DriftIncidentResolved" =>
         Head(todo[c]).of \in DOMAIN Replay(ledger)[IF time[c] > 0 THEN time[c] - 1 ELSE clock].seen

\* A resolution lasts, whatever arrives late, as long as no incident is
\* resolved twice: its incident neither opens again nor disappears.
ResolutionLasts ==
  [][ResolvedOnce(ledger') =>
       \A i \in DOMAIN IncidentsIn(ledger) :
         IncidentsIn(ledger)[i].status # "open" =>
           /\ i \in DOMAIN IncidentsIn(ledger')
           /\ IncidentsIn(ledger')[i].status = IncidentsIn(ledger)[i].status]_vars

\* INV-012: a correction of a context item is not destroyed afterwards.
CorrectionsStand ==
  [][\A x \in Items :
       ItemIn(ledger, x).correctedAt > 0 =>
         ItemIn(ledger', x).correctedAt = ItemIn(ledger, x).correctedAt]_vars
=============================================================================
