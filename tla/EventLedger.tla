---------------------------- MODULE EventLedger ----------------------------
(***************************************************************************)
(* PostgresEventStore and the #append wrapper every service puts in front  *)
(* of it.  An append is three statements on three autocommit connections,  *)
(* without a transaction and without a row lock:                           *)
(*                                                                         *)
(*   1. getStream, from which the service takes its expectedVersion;       *)
(*   2. SELECT MAX(version), compared with expectedVersion;                *)
(*   3. INSERT at MAX(version) + 1, which the primary key                  *)
(*      (aggregate_type, aggregate_id, version) may refuse; then the       *)
(*      current version is read again and a ConcurrencyError is raised.    *)
(*                                                                         *)
(* Any number of callers interleave between those statements, and any of   *)
(* the statements can fail, the INSERT also after it took effect.          *)
(***************************************************************************)
EXTENDS Naturals, Sequences, FiniteSetsExt

CONSTANTS Clients,       \* the callers, each with at most one append in flight
          Streams,       \* the (aggregate_type, aggregate_id) pairs
          Events,        \* the payloads
          NoExpectation, \* an AppendInput without expectedVersion
          NoRequest,
          MaxVersion     \* bound: no append starts on a stream this long

ASSUME LedgerAssumption ==
  /\ NoExpectation \notin Nat
  /\ MaxVersion \in Nat

VARIABLES table,   \* domain_event: for each stream, the rows by version
          pc,      \* the statement each caller is at
          req,     \* its AppendInput
          last,    \* the version step 2 read
          answer   \* the version its answer reports

vars == <<table, pc, req, last, answer>>

Requests ==
  [stream : Streams, event : Events, expected : Nat \cup {NoExpectation}]

Rows == [event : Events, actor : Clients]

\* SELECT COALESCE(MAX(version), 0).
CurrentVersion(s) == Max(DOMAIN table[s] \cup {0})

Entry(c) == [event |-> req[c].event, actor |-> c]

\* Mutant: a table without the primary key.
NoKey(c) == FALSE

\* The PRIMARY KEY refuses a version the stream already has.
KeyTaken(c) == last[c] + 1 \in DOMAIN table[req[c].stream]

Goto(c, label) == pc' = [pc EXCEPT ![c] = label]

Answer(c, label, version) ==
  /\ Goto(c, label)
  /\ answer' = [answer EXCEPT ![c] = version]

Init ==
  /\ table = [s \in Streams |-> <<>>]
  /\ pc = [c \in Clients |-> "idle"]
  /\ req = [c \in Clients |-> NoRequest]
  /\ last = [c \in Clients |-> 0]
  /\ answer = [c \in Clients |-> 0]

Request(c, s, e) ==
  /\ pc[c] = "idle"
  /\ CurrentVersion(s) < MaxVersion
  /\ req' = [req EXCEPT ![c] = [stream |-> s, event |-> e, expected |-> NoExpectation]]
  /\ UNCHANGED <<table, last, answer>>

\* A service command reaches its #append wrapper.
StartConditional(c, s, e) == Request(c, s, e) /\ Goto(c, "reading")

\* The seed calls the store directly, without expectedVersion.
StartUnconditional(c, s, e) == Request(c, s, e) /\ Goto(c, "appending")

\* The wrapper takes expectedVersion from the last event of the stream.
ReadStream(c) ==
  /\ pc[c] = "reading"
  /\ req' = [req EXCEPT ![c].expected = CurrentVersion(req[c].stream)]
  /\ Goto(c, "appending")
  /\ UNCHANGED <<table, last, answer>>

\* The query of the wrapper fails: append is never called.
ReadStreamFails(c) ==
  /\ pc[c] = "reading"
  /\ Goto(c, "idle")
  /\ req' = [req EXCEPT ![c] = NoRequest]
  /\ UNCHANGED <<table, last, answer>>

\* Mutant: expectedVersion is not compared.
InsertWhateverExpected(c) ==
  /\ pc[c] = "appending"
  /\ last' = [last EXCEPT ![c] = CurrentVersion(req[c].stream)]
  /\ Goto(c, "inserting")
  /\ UNCHANGED <<table, req, answer>>

\* Mutant: the next version is incremented twice.
IncrementTwice(c) ==
  /\ pc[c] = "appending"
  /\ req[c].expected \in {NoExpectation, CurrentVersion(req[c].stream)}
  /\ last' = [last EXCEPT ![c] = CurrentVersion(req[c].stream) + 1]
  /\ Goto(c, "inserting")
  /\ UNCHANGED <<table, req, answer>>

\* SELECT MAX(version) returns what the caller expected, or nothing was
\* expected: the INSERT is prepared for the next version.
VersionMatches(c) ==
  LET current == CurrentVersion(req[c].stream)
  IN  /\ pc[c] = "appending"
      /\ req[c].expected \in {NoExpectation, current}
      /\ last' = [last EXCEPT ![c] = current]
      /\ Goto(c, "inserting")
      /\ UNCHANGED <<table, req, answer>>

\* ConcurrencyError from the comparison.
VersionDiffers(c) ==
  LET current == CurrentVersion(req[c].stream)
  IN  /\ pc[c] = "appending"
      /\ req[c].expected \notin {NoExpectation, current}
      /\ Answer(c, "refused", current)
      /\ UNCHANGED <<table, req, last>>

StoreRow(c) ==
  /\ pc[c] = "inserting"
  /\ ~KeyTaken(c)
  /\ table' = [table EXCEPT ![req[c].stream] =
                 [v \in DOMAIN @ \cup {last[c] + 1} |->
                    IF v = last[c] + 1 THEN Entry(c) ELSE @[v]]]

Insert(c) ==
  /\ StoreRow(c)
  /\ Answer(c, "ok", last[c] + 1)
  /\ UNCHANGED <<req, last>>

\* The row is stored but the connection breaks before the answer arrives.
InsertUnacknowledged(c) ==
  /\ StoreRow(c)
  /\ Goto(c, "error")
  /\ UNCHANGED <<req, last, answer>>

\* Unique violation 23505: another append took the version in between.
Collide(c) ==
  /\ pc[c] = "inserting"
  /\ KeyTaken(c)
  /\ Goto(c, "collided")
  /\ UNCHANGED <<table, req, last, answer>>

\* Mutant: the error reports the version of the first query.
ReportOldVersion(c) ==
  /\ pc[c] = "collided"
  /\ Answer(c, "refused", last[c])
  /\ UNCHANGED <<table, req, last>>

\* The catch block reads the current version and raises ConcurrencyError.
ReportCollision(c) ==
  /\ pc[c] = "collided"
  /\ Answer(c, "refused", CurrentVersion(req[c].stream))
  /\ UNCHANGED <<table, req, last>>

\* A statement fails for any other reason and nothing was stored.
QueryFails(c) ==
  /\ pc[c] \in {"appending", "inserting", "collided"}
  /\ Goto(c, "error")
  /\ UNCHANGED <<table, req, last, answer>>

\* The caller has its answer; it may start over, also with the same event.
Return(c) ==
  /\ pc[c] \in {"ok", "refused", "error"}
  /\ Goto(c, "idle")
  /\ req' = [req EXCEPT ![c] = NoRequest]
  /\ last' = [last EXCEPT ![c] = 0]
  /\ answer' = [answer EXCEPT ![c] = 0]
  /\ UNCHANGED table

Start(c) ==
  \E s \in Streams, e \in Events :
    StartConditional(c, s, e) \/ StartUnconditional(c, s, e)

Step(c) ==
  \/ Start(c)
  \/ ReadStream(c) \/ ReadStreamFails(c)
  \/ VersionMatches(c) \/ VersionDiffers(c)
  \/ Insert(c) \/ InsertUnacknowledged(c)
  \/ Collide(c) \/ ReportCollision(c)
  \/ QueryFails(c)
  \/ Return(c)

Next == \E c \in Clients : Step(c)

Spec == Init /\ [][Next]_vars
-----------------------------------------------------------------------------
Labels == {"idle", "reading", "appending", "inserting", "collided",
           "ok", "refused", "error"}

TableOK ==
  /\ DOMAIN table = Streams
  /\ table = [s \in Streams |-> [v \in DOMAIN table[s] |-> table[s][v]]]
  /\ \A s \in Streams : /\ DOMAIN table[s] \subseteq Nat \ {0}
                        /\ \A v \in DOMAIN table[s] : table[s][v] \in Rows
                        /\ CurrentVersion(s) \in Nat

CallersOK ==
  /\ pc \in [Clients -> Labels]
  /\ req \in [Clients -> Requests \cup {NoRequest}]
  /\ \A c \in Clients : pc[c] # "idle" => req[c] \in Requests
  /\ last \in [Clients -> Nat]
  /\ answer \in [Clients -> Nat]

\* Every variable has the shape the code gives it; a caller has a request
\* exactly while its command is running.
TypeOK == TableOK /\ CallersOK

\* verifyLedgerIntegrity finds nothing to report: the versions of every
\* stream run from 1 without a gap, although each INSERT uses a MAX(version)
\* that other callers may have outrun since it was read.
Contiguous ==
  \A s \in Streams : DOMAIN table[s] = 1 .. CurrentVersion(s)

\* A caller that got a version back owns the row at that version: no other
\* append was given the same version and no later one replaced the row.
ReceiptHonoured ==
  \A c \in Clients :
    pc[c] = "ok" => /\ answer[c] \in DOMAIN table[req[c].stream]
                    /\ table[req[c].stream][answer[c]] = Entry(c)

\* A ConcurrencyError is never spurious: the version it reports lies beyond
\* the version the caller had read, so another append did get through.
ConflictIsReal ==
  \A c \in Clients :
    pc[c] = "refused" /\ req[c].expected # NoExpectation
      => answer[c] > req[c].expected

\* No step changes or removes a stored event: a stream only gets longer.
HistoryPreserved ==
  [][\A s \in Streams : \A v \in DOMAIN table[s] :
       v \in DOMAIN table'[s] /\ table'[s][v] = table[s][v]]_vars

\* Optimistic concurrency: when an append that named the version it expects
\* takes effect, the stream is still at that version, so nothing was appended
\* between the caller's read of the stream and its own event.
NoLostUpdate ==
  [][\A s \in Streams :
       table'[s] # table[s] =>
         \E c \in Clients :
           /\ pc[c] = "inserting" /\ req[c].stream = s
           /\ req[c].expected \in {NoExpectation, CurrentVersion(s)}]_vars

\* What is known of a version after it was read: the stream is still at it or
\* beyond it, and a caller sent to the catch block has been outrun.
ReadsLagBehind ==
  \A c \in Clients, s \in Streams :
    pc[c] # "idle" /\ req[c].stream = s =>
      /\ pc[c] = "appending" /\ req[c].expected # NoExpectation
           => req[c].expected <= CurrentVersion(s)
      /\ pc[c] \in {"inserting", "collided"}
           => /\ last[c] <= CurrentVersion(s)
              /\ req[c].expected \in {NoExpectation, last[c]}
      /\ pc[c] = "collided" => last[c] < CurrentVersion(s)

\* The inductive invariant.
IInv == TypeOK /\ Contiguous /\ ReadsLagBehind /\ ReceiptHonoured /\ ConflictIsReal
-----------------------------------------------------------------------------
(***************************************************************************)
(* The refinement: a stream without gaps is the sequence of its rows, a    *)
(* call is pending from the moment append is entered, and it takes effect  *)
(* when the row is stored.                                                 *)
(***************************************************************************)
PhaseOf(label) ==
  CASE label \in {"idle", "reading"} -> "idle"
    [] label \in {"appending", "inserting", "collided"} -> "pending"
    [] OTHER -> label

phaseBar == [c \in Clients |-> PhaseOf(pc[c])]

reqBar ==
  [c \in Clients |-> IF phaseBar[c] = "idle" THEN NoRequest ELSE req[c]]

Log == INSTANCE AppendOnlyLog WITH log <- table, phase <- phaseBar, req <- reqBar

\* The three statements together behave as the single atomic append of the
\* in-memory store, which is what the services and their tests assume.
ImplementsAppendOnlyLog == Log!Spec
=============================================================================
