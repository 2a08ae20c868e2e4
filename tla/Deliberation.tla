---------------------------- MODULE Deliberation ----------------------------
(***************************************************************************)
(* Discussion entries and decision records, as the projections fold them:  *)
(* no operation asks what has been said before.  An entry created again is *)
(* open again, and belongs to the proposals of all its creations; a        *)
(* decision recorded again is no longer superseded.                        *)
(***************************************************************************)
EXTENDS Integers, FiniteSets

CONSTANTS Proposals, Entries, Decisions, None

VARIABLES entries,    \* each entry, or None
          raisedOn,   \* the proposals it was created for
          decisions   \* each decision, or None

deliberationVars == <<entries, raisedOn, decisions>>

\* The kinds the summary tells apart.
Kinds == {"question", "other"}

Closings == {"resolved", "wont-fix", "superseded"}

Entry == [kind : Kinds, blocking : BOOLEAN, status : {"open"} \cup Closings]
Decision == [proposal : Proposals, superseded : BOOLEAN]

DeliberationTypeOK ==
  /\ entries \in [Entries -> Entry \cup {None}]
  /\ raisedOn \in [Entries -> SUBSET Proposals]
  /\ decisions \in [Decisions -> Decision \cup {None}]

DeliberationInit ==
  /\ entries = [e \in Entries |-> None]
  /\ raisedOn = [e \in Entries |-> {}]
  /\ decisions = [d \in Decisions |-> None]

CreateDiscussionEntry(e, p, kind, blocking) ==
  /\ entries' = [entries EXCEPT ![e] = [kind |-> kind, blocking |-> blocking, status |-> "open"]]
  /\ raisedOn' = [raisedOn EXCEPT ![e] = @ \cup {p}]
  /\ UNCHANGED decisions

\* A resolution of an entry that was never created changes nothing.
ResolveDiscussionEntry(e, closing) ==
  /\ entries[e] # None
  /\ entries' = [entries EXCEPT ![e].status = closing]
  /\ UNCHANGED <<raisedOn, decisions>>

\* canRecordDecision: a statement, a rationale, a human approver, a valid time.
CanRecordDecision(stated, approvedByHuman) == stated /\ approvedByHuman

RecordDecision(d, p, stated, approvedByHuman) ==
  /\ CanRecordDecision(stated, approvedByHuman)
  /\ decisions' = [decisions EXCEPT ![d] = [proposal |-> p, superseded |-> FALSE]]
  /\ UNCHANGED <<entries, raisedOn>>

\* Nothing is asked of the decision that supersedes it.
SupersedeDecision(d) ==
  /\ decisions[d] # None
  /\ decisions' = [decisions EXCEPT ![d].superseded = TRUE]
  /\ UNCHANGED <<entries, raisedOn>>
-----------------------------------------------------------------------------
(* discussionSummary, of the entries created for a proposal.                *)

EntriesOf(p) == {e \in Entries : p \in raisedOn[e]}

OpenEntries(p) == {e \in EntriesOf(p) : entries[e].status = "open"}

UnresolvedQuestions(p) == {e \in OpenEntries(p) : entries[e].kind = "question"}

OpenBlockingObjections(p) == {e \in OpenEntries(p) : entries[e].blocking}

\* The decisions a compilation for a proposal may cite: superseded ones included.
LinkedDecisions(p) == {d \in Decisions : decisions[d] # None /\ decisions[d].proposal = p}

DeliberationNext ==
  \/ \E e \in Entries, p \in Proposals, kind \in Kinds, blocking \in BOOLEAN :
       CreateDiscussionEntry(e, p, kind, blocking)
  \/ \E e \in Entries, closing \in Closings : ResolveDiscussionEntry(e, closing)
  \/ \E d \in Decisions, p \in Proposals, stated, approvedByHuman \in BOOLEAN :
       RecordDecision(d, p, stated, approvedByHuman)
  \/ \E d \in Decisions : SupersedeDecision(d)
=============================================================================
