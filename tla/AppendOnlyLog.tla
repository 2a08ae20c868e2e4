--------------------------- MODULE AppendOnlyLog ---------------------------
(***************************************************************************)
(* What the EventStore port promises its callers: every aggregate has one  *)
(* stream of events, an append adds one event at the end of one stream in  *)
(* a single atomic step, and an append that names the version it expects   *)
(* takes effect only if the stream is at that version.                     *)
(*                                                                         *)
(* InMemoryEventStore.append is this operation literally: it has no await  *)
(* between the comparison and the push.  The PostgreSQL store, modelled in *)
(* EventLedger, spreads the operation over several statements and is shown *)
(* to implement this module.                                               *)
(***************************************************************************)
EXTENDS Naturals, Sequences

CONSTANTS Clients,       \* the callers: API, MCP and worker request handlers
          Streams,       \* the (aggregateType, aggregateId) pairs
          Events,        \* the payloads
          NoExpectation, \* an AppendInput without expectedVersion
          NoRequest

VARIABLES log,     \* the events of each stream, in version order
          phase,   \* where each caller's append call stands
          req,     \* the AppendInput of the call
          answer   \* the version an answered call reports

vars == <<log, phase, req, answer>>

Requests ==
  [stream : Streams, event : Events, expected : Nat \cup {NoExpectation}]

Entry(c) == [event |-> req[c].event, actor |-> c]

Init ==
  /\ log = [s \in Streams |-> <<>>]
  /\ phase = [c \in Clients |-> "idle"]
  /\ req = [c \in Clients |-> NoRequest]
  /\ answer = [c \in Clients |-> 0]

Call(c) ==
  /\ phase[c] = "idle"
  /\ req'[c] \in Requests
  /\ req' = [req EXCEPT ![c] = req'[c]]
  /\ phase' = [phase EXCEPT ![c] = "pending"]
  /\ UNCHANGED <<log, answer>>

\* The stream grows by the caller's event, now and only once.
TakeEffect(c) ==
  LET s == req[c].stream
  IN  /\ req[c].expected \in {NoExpectation, Len(log[s])}
      /\ log' = [log EXCEPT ![s] = Append(@, Entry(c))]

Succeed(c) ==
  /\ phase[c] = "pending"
  /\ TakeEffect(c)
  /\ phase' = [phase EXCEPT ![c] = "ok"]
  /\ answer' = [answer EXCEPT ![c] = Len(log[req[c].stream]) + 1]
  /\ UNCHANGED req

\* ConcurrencyError: the reported version is the one the stream is at.  An
\* append without expectation may be refused too (two of them can collide).
Refuse(c) ==
  /\ phase[c] = "pending"
  /\ req[c].expected # Len(log[req[c].stream])
  /\ phase' = [phase EXCEPT ![c] = "refused"]
  /\ answer' = [answer EXCEPT ![c] = Len(log[req[c].stream])]
  /\ UNCHANGED <<log, req>>

\* The infrastructure fails under the call: the caller cannot tell whether
\* its event was stored.
Break(c) ==
  /\ phase[c] = "pending"
  /\ TakeEffect(c) \/ UNCHANGED log
  /\ phase' = [phase EXCEPT ![c] = "error"]
  /\ UNCHANGED <<req, answer>>

Return(c) ==
  /\ phase[c] \in {"ok", "refused", "error"}
  /\ phase' = [phase EXCEPT ![c] = "idle"]
  /\ req' = [req EXCEPT ![c] = NoRequest]
  /\ answer' = [answer EXCEPT ![c] = 0]
  /\ UNCHANGED log

Next ==
  \E c \in Clients : Call(c) \/ Succeed(c) \/ Refuse(c) \/ Break(c) \/ Return(c)

Spec == Init /\ [][Next]_vars
=============================================================================
