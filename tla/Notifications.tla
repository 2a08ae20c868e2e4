--------------------------- MODULE Notifications ---------------------------
(***************************************************************************)
(* Notifications about a proposal: what is generated from its state and    *)
(* the impacts recorded for it, how it is dispatched, folded by key, and   *)
(* shown in an inbox.  Every dispatch and status change is an event of the *)
(* stream of a notification id.  Ids number the notices of one generation, *)
(* so that the same id is given to other keys later.                       *)
(***************************************************************************)
EXTENDS Clock, Sequences, FiniteSets

CONSTANTS Parties,       \* principals and teams
          Approvers,
          Provider,      \* the provider's team
          TeamOf,        \* the recipient for a consumer
          DeadlineOf,    \* its deadline for the migration, 0 for none
          Subscriptions, \* what may be declared: [subscriber, scope, target, digest]
          Includes,      \* pairs <<t, u>> such that the text t includes the text u
          MaxNotices     \* bound: events stored

ASSUME NoticeAssumption ==
  /\ Provider \in Parties /\ Approvers \subseteq Parties /\ MaxNotices \in Nat
  /\ IsFiniteSet(Approvers) /\ IsFiniteSet(DOMAIN TeamOf)
  /\ TeamOf \in [DOMAIN TeamOf -> Parties]
  /\ DeadlineOf \in [DOMAIN TeamOf -> 0 .. MaxTime]

VARIABLES notices,  \* the events, in the order in which they were stored
          outbox,   \* the notices generated and still to be dispatched
          subscriptions

noticeVars == <<notices, outbox, subscriptions>>

\* A key is the kind of a notice and what it is about: a consumer, an approver or the
\* provider.  The proposal is the same for all.
Key(kind, about) == [kind |-> kind, about |-> about]

NoticeKinds == {"review-request", "approval-request", "implementation-request",
                "migration-request", "informational-change"}

NoticeKeys == [kind : NoticeKinds, about : Parties \cup DOMAIN TeamOf]

Changes == {"read", "acknowledged", "snoozed", "resolved"}

Notices == [key : NoticeKeys, to : Parties, deadline : 0 .. MaxTime]

NoticeEvents ==
  [type : {"dispatched", "changed"}, id : Nat, key : NoticeKeys, to : Parties,
   deadline : 0 .. MaxTime, status : Changes \cup {"unread"}, until : 0 .. MaxTime,
   at : 1 .. MaxTime, version : Nat]

NoticesTypeOK ==
  /\ notices \in Seq(NoticeEvents) /\ Len(notices) <= MaxNotices
  /\ outbox \in Seq([id : Nat, notice : Notices])
  /\ subscriptions \subseteq Subscriptions

NoticesInit == notices = <<>> /\ outbox = <<>> /\ subscriptions = {}
-----------------------------------------------------------------------------
(* generateNotificationsFromProposal.                                       *)

Notice(kind, about, to, deadline) ==
  [key |-> Key(kind, about), to |-> to, deadline |-> deadline]

\* The kind of notice for an impact; none when the impact is unknown.
KindFor(impact, accepted) ==
  CASE impact = "blocking" -> IF accepted THEN "implementation-request" ELSE "review-request"
    [] impact = "action-required" ->
         IF accepted THEN "migration-request" ELSE "informational-change"
    [] impact \in {"none", "informational"} -> "informational-change"
    [] OTHER -> "silent"

\* Only requests have the deadline of the consumer.
ImpactNotice(consumer, kind) ==
  Notice(kind, consumer, TeamOf[consumer],
         IF kind = "informational-change" THEN 0 ELSE DeadlineOf[consumer])

\* The consumers that are told.
Told(impacts, accepted) == {k \in DOMAIN impacts : KindFor(impacts[k], accepted) # "silent"}

\* The orders in which a caller may name the members of a set.
Orders(S) == {f \in [1 .. Cardinality(S) -> S] : \A i, j \in DOMAIN f : f[i] = f[j] => i = j}

\* In the order of the code: the provider, the approvers, the consumers.
Generated(accepted, objections, approvers, consumers, impacts) ==
  LET ToProvider == IF accepted \/ ~objections THEN <<>>
                    ELSE <<Notice("review-request", Provider, Provider, 0)>>
      ToApprovers == [i \in DOMAIN approvers |->
                        Notice("approval-request", approvers[i], approvers[i], 0)]
      ToConsumers == [i \in DOMAIN consumers |->
                        ImpactNotice(consumers[i], KindFor(impacts[consumers[i]], accepted))]
      all == ToProvider \o ToApprovers \o ToConsumers
  IN  [i \in DOMAIN all |-> [id |-> i, notice |-> all[i]]]
-----------------------------------------------------------------------------
(* notificationsFrom: the events in the order of their times, then of their *)
(* versions, folded by key.                                                 *)

Version(id) == Cardinality({i \in DOMAIN notices : notices[i].id = id})

\* Events that have both in common stay in the order in which they were stored.
Before(i, j) ==
  \/ notices[i].at < notices[j].at
  \/ /\ notices[i].at = notices[j].at
     /\ \/ notices[i].version < notices[j].version
        \/ notices[i].version = notices[j].version /\ i < j

First(S) == CHOOSE i \in S : \A j \in S \ {i} : Before(i, j)

Fresh(n) == [id |-> n.id, key |-> n.key, to |-> n.to, deadline |-> n.deadline,
             status |-> "unread", until |-> 0, occurrences |-> 1]

\* Mutant: a notice that is dispatched again is unread again.
FoldReopening(folded, n) ==
  LET known == n.key \in DOMAIN folded
  IN  CASE n.type = "dispatched" ->
             [k \in DOMAIN folded \cup {n.key} |-> IF k = n.key THEN Fresh(n) ELSE folded[k]]
        [] n.type = "changed" /\ known -> [folded EXCEPT ![n.key].status = n.status]
        [] OTHER -> folded

\* A change of status before the first dispatch is lost.  The time until which a
\* notice sleeps outlives a second "snoozed" that names none.
Fold(folded, n) ==
  LET known == n.key \in DOMAIN folded
  IN  CASE n.type = "dispatched" /\ ~known ->
             [k \in DOMAIN folded \cup {n.key} |-> IF k = n.key THEN Fresh(n) ELSE folded[k]]
        [] n.type = "dispatched" /\ known -> [folded EXCEPT ![n.key].occurrences = @ + 1]
        [] n.type = "changed" /\ known ->
             [folded EXCEPT ![n.key].status = n.status,
                            ![n.key].until = IF n.until # 0 THEN n.until
                                             ELSE IF n.status = "snoozed" THEN @ ELSE 0]
        [] OTHER -> folded

\* The next event is folded into what is known, and no longer left.
Consume(seen) ==
  LET next == First(seen.left)
  IN  [known |-> Fold(seen.known, notices[next]), left |-> seen.left \ {next}]

\* What is known of the first n events, and the events left.
Folding ==
  LET upTo[n \in 0 .. Len(notices)] ==
        IF n = 0 THEN [known |-> <<>>, left |-> DOMAIN notices] ELSE Consume(upTo[n - 1])
  IN  upTo

NotificationsFrom == Folding[Len(notices)].known
-----------------------------------------------------------------------------
(* buildActionInbox, for a recipient: what is mine and what is overdue, where *)
(* the times can be compared at all.                                        *)

Known == LET folded == NotificationsFrom IN {folded[k] : k \in DOMAIN folded}

\* Mutant: a notification that was snoozed is not shown again.
MineAsleep(party) ==
  {n \in Known :
     n.to = party /\ n.status \notin {"resolved", "acknowledged", "snoozed"}}

Mine(party) ==
  {n \in Known :
     /\ n.to = party /\ n.status \notin {"resolved", "acknowledged"}
     /\ ~(n.status = "snoozed" /\ n.until > now)}

Overdue(party) == {n \in Mine(party) : n.deadline # 0 /\ n.deadline < now}

\* InMemoryEventStore keeps the dates of an event.  PostgresEventStore keeps JSON, of which
\* rowToEnvelope makes no dates again: the first text whose time is asked for is an error.
\* revived says whether the dates that this inbox reads are dates.
InboxFails(party, revived) ==
  /\ ~revived
  /\ \/ \E n \in Known : n.to = party /\ n.status = "snoozed" /\ n.until # 0
     \/ \E n \in Mine(party) : n.deadline # 0

\* Instead of an inbox, an error: no section.
NoInbox == <<>>

\* A notice of another kind, "review-request" say, is in no section until it is overdue.
Inbox(party, revived) ==
  LET mine == Mine(party)
      overdue == Overdue(party)
      OfKind(kinds) == {n \in mine : n.key.kind \in kinds}
  IN  IF InboxFails(party, revived) THEN NoInbox ELSE
      [approval       |-> OfKind({"approval-request"}),
       implementation |-> OfKind({"implementation-request", "migration-request"}),
       contexts       |-> OfKind({"context-review"}),
       overdue        |-> overdue,
       informational  |-> OfKind({"informational-change"}) \ overdue]

\* subscriptionCovers
SubscriptionCovers(s, target) ==
  IF s.scope = "proposal" THEN s.target = target ELSE <<target, s.target>> \in Includes

\* shouldNotifyNow
NotifiesNow(kind, digest) ==
  \/ kind \in {"approval-request", "deployment-blocked", "contract-drift", "migration-request"}
  \/ digest = "immediate"

\* withFallbackOwner: of an owner and a stand-in, each possibly nobody.
OwnerOrFallback(primary, fallback, absent, nobody) ==
  CASE primary = nobody \/ (absent /\ fallback # nobody) -> fallback
    [] OTHER -> primary
-----------------------------------------------------------------------------
(* Operations.                                                              *)

Event(type, id, notice, status, until) ==
  [type |-> type, id |-> id, key |-> notice.key, to |-> notice.to, deadline |-> notice.deadline,
   status |-> status, until |-> until, at |-> now, version |-> Version(id) + 1]

\* What the caller generates, it dispatches one by one.
Generate(accepted, objections, missing, impacts) ==
  /\ outbox = <<>>
  /\ \E approvers \in Orders(missing), consumers \in Orders(Told(impacts, accepted)) :
       outbox' = Generated(accepted, objections, approvers, consumers, impacts)
  /\ UNCHANGED <<notices, subscriptions>>

\* dispatchNotification: an append, which can fail.
DispatchNotification ==
  /\ outbox # <<>> /\ outbox' = Tail(outbox)
  /\ \/ /\ Len(notices) < MaxNotices
        /\ notices' = Append(notices, Event("dispatched", Head(outbox).id, Head(outbox).notice, "unread", 0))
     \/ UNCHANGED notices
  /\ UNCHANGED subscriptions

\* changeNotificationStatus, with the id and the key of a notification that is shown.
ChangeNotificationStatus(n, status, until) ==
  /\ Len(notices) < MaxNotices
  /\ until # 0 => status = "snoozed"
  /\ notices' = Append(notices, Event("changed", n.id, n, status, until))
  /\ UNCHANGED <<outbox, subscriptions>>

DeclareSubscription(s) ==
  /\ subscriptions' = subscriptions \cup {s}
  /\ UNCHANGED <<notices, outbox>>

NoticesNext(impacts) ==
  \/ \E accepted, objections \in BOOLEAN, missing \in SUBSET Approvers :
       Generate(accepted, objections, missing, impacts)
  \/ DispatchNotification
  \/ \E n \in Known, status \in Changes, until \in 0 .. MaxTime :
       ChangeNotificationStatus(n, status, until)
  \/ \E s \in Subscriptions : DeclareSubscription(s)

\* ConsumerImpactSummary, of some of the consumers.
ImpactSummaries ==
  UNION {[known -> {"none", "informational", "action-required", "blocking", "unknown"}] :
           known \in SUBSET DOMAIN TeamOf}

\* The notifications by themselves, of whatever impacts, while time passes.
NoticesSpec ==
  /\ NoticesInit /\ ClockInit
  /\ [][\/ (\E impacts \in ImpactSummaries : NoticesNext(impacts)) /\ UNCHANGED now
        \/ Tick /\ UNCHANGED noticeVars]_<<noticeVars, now>>
-----------------------------------------------------------------------------
\* A notification has the status it was given last, and is not unread again when the
\* same notice is dispatched again, by whichever id; two changes at the same time, in
\* the streams of two ids, are in no order.
LatestStatusWins ==
  LET folded == NotificationsFrom
      changes(k) == {i \in DOMAIN notices : notices[i].type = "changed" /\ notices[i].key = k}
  IN  \A k \in DOMAIN folded :
        (\A i, j \in changes(k) : notices[i].at = notices[j].at => notices[i].id = notices[j].id) =>
          folded[k].status =
            IF changes(k) = {} THEN "unread"
            ELSE notices[CHOOSE i \in changes(k) : \A j \in changes(k) : j <= i].status

\* Whether no deadline and no end of a snooze is stored for the party, under any key of
\* which a notice was sent to it.
Undated(party) ==
  \A i, j \in DOMAIN notices :
    notices[i].to = party /\ notices[j].key = notices[i].key =>
      notices[j].deadline = 0 /\ notices[j].until = 0

\* What somebody was asked for and has not acknowledged or resolved is in the inbox,
\* unless it sleeps: over a store that gives back dates, and over one that does not if the
\* party has none.  A request to review is in no section.
OpenNoticesAreShown ==
  \A i \in DOMAIN notices, revived \in BOOLEAN :
    LET asked == notices[i]
        changes == {j \in DOMAIN notices : notices[j].type = "changed" /\ notices[j].key = asked.key}
        inbox == Inbox(asked.to, revived)
    IN  /\ revived \/ Undated(asked.to)
        /\ asked.type = "dispatched" /\ asked.key.kind # "review-request"
        /\ \A j \in changes : /\ notices[j].status \notin {"acknowledged", "resolved"}
                              /\ notices[j].until <= now
        => \E section \in DOMAIN inbox : \E shown \in inbox[section] : shown.key = asked.key
-----------------------------------------------------------------------------
(* What makes them inductive.                                               *)

\* The key of a notice tells whom it is for, but for requests to review.
Addressed(n) ==
  n.key.kind # "review-request" =>
    n.to = IF n.key.kind = "approval-request" THEN n.key.about ELSE TeamOf[n.key.about]

\* No clock runs back, and no stream.
StoredInOrder ==
  /\ \A i \in DOMAIN notices : notices[i].at <= now /\ notices[i].version <= Version(notices[i].id)
  /\ \A i, j \in DOMAIN notices : i < j =>
       /\ notices[i].at <= notices[j].at
       /\ notices[i].id = notices[j].id => notices[i].version < notices[j].version

\* A change follows a dispatch of its key in its own stream.
ChangesFollow ==
  \A i \in DOMAIN notices : notices[i].type = "changed" =>
    \E j \in 1 .. (i - 1) : /\ notices[j].type = "dispatched"
                            /\ notices[j].key = notices[i].key /\ notices[j].id = notices[i].id

NoticesIInv ==
  /\ NoticesTypeOK /\ now \in 1 .. MaxTime
  /\ \A i \in DOMAIN notices : Addressed(notices[i])
  /\ \A i \in DOMAIN outbox : Addressed(outbox[i].notice)
  /\ StoredInOrder /\ ChangesFollow
=============================================================================
