---------------------------- MODULE ServerProofs ----------------------------
(***************************************************************************)
(* Proofs about the servers, for any number of calls, requests,            *)
(* credentials, sessions and attempts, however they overlap and whenever a *)
(* server starts again: what a command of an agent stores and what its     *)
(* answer says of the ledger, how long a session lives, and what an        *)
(* acknowledged delivery left behind.                                      *)
(***************************************************************************)
EXTENDS McpServer, ApiServer, FiniteSetTheorems, TLAPS
-----------------------------------------------------------------------------
(* Commands of agents.                                                     *)

\* No tool both mutates and reads.
LEMMA ToolsApart == Mutating \cap Reading = {}
BY DEF Mutating, Reading

\* An append stores its call and keeps those stored before.
LEMMA RecordedByAppend ==
  ASSUME stored \in Seq(Calls), NEW c \in Calls, stored' = Append(stored, c)
  PROVE  \A d \in Calls : Recorded(d)' <=> Recorded(d) \/ d = c
<1> TAKE d \in Calls
<1>1. /\ DOMAIN stored = 1 .. Len(stored) /\ DOMAIN stored' = 1 .. Len(stored) + 1
      /\ Len(stored) \in Nat /\ stored'[Len(stored) + 1] = c
      /\ \A i \in 1 .. Len(stored) : stored'[i] = stored[i]
  OBVIOUS
<1>2. Recorded(d) => Recorded(d)'
  <2> SUFFICES ASSUME NEW i \in 1 .. Len(stored), stored[i] = d PROVE Recorded(d)'
    BY <1>1 DEF Recorded
  <2> i \in DOMAIN stored' /\ stored'[i] = d
    BY <1>1
  <2> QED
    BY DEF Recorded
<1>3. d = c => Recorded(d)'
  <2> Len(stored) + 1 \in DOMAIN stored'
    BY <1>1
  <2> QED
    BY <1>1 DEF Recorded
<1>4. Recorded(d)' => Recorded(d) \/ d = c
  <2> SUFFICES ASSUME NEW i \in 1 .. Len(stored) + 1, stored'[i] = d
               PROVE  Recorded(d) \/ d = c
    BY <1>1 DEF Recorded
  <2>1. CASE i \in 1 .. Len(stored)
    BY <1>1, <2>1 DEF Recorded
  <2>2. CASE i = Len(stored) + 1
    BY <1>1, <2>2
  <2> QED
    BY <1>1, <2>1, <2>2
<1> QED
  BY <1>2, <1>3, <1>4

\* What is stored stays so when nothing is appended.
LEMMA RecordedUnchanged ==
  ASSUME UNCHANGED stored
  PROVE  \A d \in Calls : Recorded(d)' <=> Recorded(d)
BY DEF Recorded

\* The version of a stream is a number.
LEMMA StreamVersionIsNat ==
  ASSUME McpTypeOK, NEW c \in Calls
  PROVE  StreamVersion(c) \in Nat
<1> DEFINE At == {i \in DOMAIN stored : SubjectOf[stored[i]] = SubjectOf[c]}
<1>1. stored \in Seq(Calls)
  BY DEF McpTypeOK
<1>2. Len(stored) \in Nat /\ DOMAIN stored = 1 .. Len(stored)
  BY <1>1
<1>3. IsFiniteSet(1 .. Len(stored))
  BY <1>2, FS_Interval
<1>4. IsFiniteSet(At)
  BY <1>2, <1>3, FS_Subset
<1> QED
  BY <1>4, FS_CardinalityType DEF StreamVersion

\* The invariant holds before the first call.
LEMMA InitMcpIInv == McpInit => McpIInv
<1> SUFFICES ASSUME McpInit PROVE McpIInv
  OBVIOUS
<1>1. McpTypeOK
  BY DEF McpInit, McpTypeOK, Stages, Codes
<1>2. \A c \in Calls : ~Recorded(c) /\ stage[c] = "new" /\ before[c] = {}
  BY DEF McpInit, Recorded
<1>3. \A k \in Keys : cache[k] = "none"
  BY DEF McpInit
<1>4. UnderWayIsNotStored /\ BeforeIsAnswered /\ EndedHasResult /\ AnsweredIsCached
  BY <1>2 DEF UnderWayIsNotStored, BeforeIsAnswered, EndedHasResult, AnsweredIsCached
<1>5. LaterIsAnswered /\ OncePerKey /\ EndedOkIsRecorded /\ CachedOkIsRecorded
  BY <1>2, <1>3 DEF LaterIsAnswered, OncePerKey, EndedOkIsRecorded, CachedOkIsRecorded
<1> QED
  BY <1>1, <1>4, <1>5 DEF McpIInv

\* Every step keeps the types.
LEMMA TypeAfterStep ==
  ASSUME McpIInv, [McpNext]_mcpVars
  PROVE  McpTypeOK'
<1> USE DEF McpTypeOK
<1>1. ASSUME NEW c \in Calls, Arrive(c) PROVE McpTypeOK'
  <2>1. {d \in Calls : stage[d] = "done"} \in SUBSET Calls
    OBVIOUS
  <2>2. before' \in [Calls -> SUBSET Calls]
    BY <1>1, <2>1 DEF Arrive, McpIInv
  <2>3. stage' \in [Calls -> Stages]
    BY <1>1 DEF Arrive, Move, McpIInv, Stages
  <2>4. result' \in [Calls -> Codes \cup {"none"}]
    <3>1. CASE UNCHANGED result
      BY <3>1 DEF McpIInv
    <3>2. CASE result' = [result EXCEPT ![c] = "denied-scope"]
      BY <3>2 DEF McpIInv, Codes
    <3>3. CASE Remembers(c) /\ result' = [result EXCEPT ![c] = cache[KeyOf[c]]]
      <4>1. cache[KeyOf[c]] \in Codes \cup {"none"}
        BY <3>3 DEF McpIInv, Remembers, Keys
      <4> QED
        BY <3>3, <4>1 DEF McpIInv
    <3> QED
      BY <1>1, <3>1, <3>2, <3>3 DEF Arrive
  <2> QED
    BY <1>1, <2>2, <2>3, <2>4 DEF Arrive, McpIInv
<1>2. ASSUME NEW c \in Calls, Guard(c) PROVE McpTypeOK'
  <2>1. Refusal(c) \in Codes \cup {"none"}
    BY DEF Refusal, Codes
  <2> QED
    BY <1>2, <2>1 DEF Guard, Move, McpIInv, Stages, Codes
<1>3. ASSUME NEW c \in Calls, ReadVersion(c) PROVE McpTypeOK'
  <2>1. StreamVersion(c) \in Nat
    BY StreamVersionIsNat DEF McpIInv
  <2> QED
    BY <1>3, <2>1 DEF ReadVersion, Move, McpIInv, Stages
<1>4. ASSUME NEW c \in Calls, AppendEvent(c) PROVE McpTypeOK'
  <2>1. stored' = stored \/ stored' = Append(stored, c)
    BY <1>4 DEF AppendEvent
  <2>2. stored' \in Seq(Calls)
    <3> stored \in Seq(Calls)
      BY DEF McpIInv
    <3> QED
      BY <2>1
  <2> QED
    BY <1>4, <2>2 DEF AppendEvent, Move, McpIInv, Stages, Codes
<1>5. ASSUME NEW c \in Calls, Finish(c) PROVE McpTypeOK'
  <2>1. result[c] \in Codes \cup {"none"}
    BY DEF McpIInv
  <2>2. cache' \in [Keys -> Codes \cup {"none"}]
    BY <1>5, <2>1 DEF Finish, McpIInv
  <2> QED
    BY <1>5, <2>2 DEF Finish, Move, McpIInv, Stages
<1>6. CASE Restart
  <2>1. stage' \in [Calls -> Stages]
    BY <1>6 DEF Restart, McpIInv, Stages
  <2>2. cache' \in [Keys -> Codes \cup {"none"}]
    BY <1>6 DEF Restart, Codes
  <2> QED
    BY <1>6, <2>1, <2>2 DEF Restart, McpIInv
<1>7. CASE UNCHANGED mcpVars
  BY <1>7 DEF mcpVars, McpIInv
<1> QED
  BY <1>1, <1>2, <1>3, <1>4, <1>5, <1>6, <1>7 DEF McpNext

\* The rest of the invariant, which speaks of the calls one by one and in pairs.
Parts ==
  /\ UnderWayIsNotStored /\ BeforeIsAnswered /\ EndedHasResult /\ AnsweredIsCached
  /\ LaterIsAnswered /\ OncePerKey /\ EndedOkIsRecorded /\ CachedOkIsRecorded

\* Two calls that are remembered under one key share what the cache keeps.
LEMMA SharedKey ==
  ASSUME NEW c \in Calls, Remembers(c)
  PROVE  KeyOf[c] \in Keys /\ ToolOf[c] \in Mutating /\ ToolOf[c] \notin Reading
BY ToolsApart DEF Remembers, Keys

\* An arriving call, an answered repetition among them, keeps every part of the invariant.
LEMMA ArriveKeepsParts ==
  ASSUME McpIInv, NEW c \in Calls, Arrive(c)
  PROVE  Parts'
<1> DEFINE Answered == {d \in Calls : stage[d] = "done"}
<1>1. /\ stage[c] = "new" /\ before[c] = {} /\ ~Recorded(c)
      /\ stage \in [Calls -> Stages] /\ result \in [Calls -> Codes \cup {"none"}]
      /\ before \in [Calls -> SUBSET Calls]
  BY DEF McpIInv, McpTypeOK, Arrive, Move, BeforeIsAnswered, UnderWayIsNotStored
<1>2. /\ \A d \in Calls : Recorded(d)' <=> Recorded(d)
      /\ UNCHANGED cache
      /\ before' = [before EXCEPT ![c] = Answered]
  BY RecordedUnchanged DEF Arrive
<1>3. \A d \in Calls \ {c} : stage'[d] = stage[d] /\ result'[d] = result[d] /\ before'[d] = before[d]
  BY <1>1, <1>2 DEF Arrive, Move
<1>4. before'[c] = Answered
  BY <1>1, <1>2
<1>5. \/ stage'[c] = "guard" /\ (c \in Scoped /\ (Remembers(c) => cache[KeyOf[c]] = "none"))
      \/ stage'[c] = "done" /\ result'[c] = "denied-scope"
      \/ /\ stage'[c] = "done" /\ result'[c] = cache[KeyOf[c]]
         /\ Remembers(c) /\ cache[KeyOf[c]] # "none"
  BY <1>1 DEF Arrive, Move
<1>6. UnderWayIsNotStored'
  BY <1>1, <1>2, <1>3 DEF UnderWayIsNotStored, McpIInv
<1>7. BeforeIsAnswered'
  <2> SUFFICES ASSUME NEW e \in Calls
               PROVE  /\ stage'[e] = "new" => before'[e] = {}
                      /\ \A d \in before'[e] : stage'[d] \in {"done", "past"}
    BY DEF BeforeIsAnswered
  <2>1. \A d \in Calls : stage[d] \in {"done", "past"} => d # c
    BY <1>1
  <2>2. CASE e = c
    BY <1>3, <1>4, <1>5, <2>1, <2>2
  <2>3. CASE e # c
    <3>1. before'[e] = before[e] /\ stage'[e] = stage[e] /\ before[e] \subseteq Calls
      BY <1>1, <1>3, <2>3
    <3> QED
      BY <1>3, <2>1, <3>1 DEF BeforeIsAnswered, McpIInv
  <2> QED
    BY <2>2, <2>3
<1>8. EndedHasResult'
  BY <1>3, <1>5 DEF EndedHasResult, McpIInv
<1>9. AnsweredIsCached'
  BY <1>2, <1>3, <1>5 DEF AnsweredIsCached, McpIInv
<1>10. LaterIsAnswered' /\ OncePerKey'
  <2> SUFFICES ASSUME NEW e \in Calls, NEW d \in Calls,
                      Remembers(e), Remembers(d), KeyOf[e] = KeyOf[d],
                      d \in before'[e], result'[d] # "denied-scope"
               PROVE  stage'[e] \in {"done", "past"} /\ ~Recorded(e)'
    BY DEF LaterIsAnswered, OncePerKey, Remembers
  <2>1. CASE e = c
    <3>1. stage[d] = "done" /\ d # c /\ result[d] # "denied-scope"
      BY <1>1, <1>3, <1>4, <2>1
    <3>2. cache[KeyOf[c]] # "none"
      BY <2>1, <3>1 DEF AnsweredIsCached, McpIInv
    <3> QED
      BY <1>1, <1>2, <1>5, <2>1, <3>2
  <2>2. CASE e # c
    <3>1. d \in before[e] /\ stage[d] \in {"done", "past"}
      BY <1>3, <2>2 DEF BeforeIsAnswered, McpIInv
    <3>2. d # c
      BY <1>1, <3>1
    <3>3. result[d] # "denied-scope"
      BY <1>3, <3>2
    <3> QED
      BY <1>2, <1>3, <2>2, <3>1, <3>3 DEF LaterIsAnswered, OncePerKey, McpIInv
  <2> QED
    BY <2>1, <2>2
<1>11. CachedOkIsRecorded'
  BY <1>2 DEF CachedOkIsRecorded, Remembers, McpIInv
<1>12. EndedOkIsRecorded'
  <2> SUFFICES ASSUME NEW e \in Calls, stage'[e] \in {"finish", "done", "past"},
                      result'[e] = "ok", ToolOf[e] \in Mutating
               PROVE  \/ Recorded(e)
                      \/ \E d \in Calls : /\ Remembers(e) /\ Remembers(d)
                                          /\ KeyOf[d] = KeyOf[e] /\ Recorded(d)
    BY <1>2 DEF EndedOkIsRecorded, Remembers
  <2>1. CASE e = c
    <3>1. Remembers(c) /\ cache[KeyOf[c]] = "ok"
      BY <1>5, <2>1
    <3> QED
      BY <2>1, <3>1, SharedKey DEF CachedOkIsRecorded, McpIInv
  <2>2. CASE e # c
    BY <1>3, <2>2 DEF EndedOkIsRecorded, McpIInv
  <2> QED
    BY <2>1, <2>2
<1> QED
  BY <1>6, <1>7, <1>8, <1>9, <1>10, <1>11, <1>12 DEF Parts

\* A step of a call under way touches no call that was answered, nor one that came
\* after an answer under its key.
LEMMA WorkKeepsAnswers ==
  ASSUME McpIInv, NEW c \in Calls, stage[c] \in {"guard", "read", "append", "finish"},
         stage'[c] # "new", UNCHANGED before,
         \A d \in Calls \ {c} : stage'[d] = stage[d] /\ result'[d] = result[d],
         \A d \in Calls \ {c} : Recorded(d)' <=> Recorded(d)
  PROVE  BeforeIsAnswered' /\ LaterIsAnswered' /\ OncePerKey'
<1>1. \A e \in Calls : before[e] \subseteq Calls /\ c \notin before[e]
  BY DEF BeforeIsAnswered, McpIInv, McpTypeOK
<1>2. BeforeIsAnswered'
  BY <1>1 DEF BeforeIsAnswered, McpIInv
<1>3. ASSUME NEW e \in Calls, NEW d \in Calls,
             Remembers(e), Remembers(d), KeyOf[e] = KeyOf[d],
             d \in before'[e], result'[d] # "denied-scope"
      PROVE  stage'[e] \in {"done", "past"} /\ ~Recorded(e)'
  <2>1. d \in before[e] /\ d # c /\ result[d] # "denied-scope"
    BY <1>1, <1>3
  <2>2. stage[e] \in {"done", "past"} /\ ~Recorded(e)
    BY <1>3, <2>1 DEF LaterIsAnswered, OncePerKey, McpIInv
  <2> QED
    BY <2>2
<1> QED
  BY <1>2, <1>3 DEF LaterIsAnswered, OncePerKey, Remembers

\* A guard that passes, or refuses, keeps every part of the invariant.
LEMMA GuardKeepsParts ==
  ASSUME McpIInv, NEW c \in Calls, Guard(c)
  PROVE  Parts'
<1>1. /\ stage \in [Calls -> Stages] /\ result \in [Calls -> Codes \cup {"none"}]
      /\ stage[c] = "guard" /\ ~Recorded(c)
  BY DEF McpIInv, McpTypeOK, Guard, Move, UnderWayIsNotStored
<1>2. /\ \A d \in Calls : Recorded(d)' <=> Recorded(d)
      /\ UNCHANGED <<cache, before>>
  BY RecordedUnchanged DEF Guard
<1>3. \A d \in Calls \ {c} : stage'[d] = stage[d] /\ result'[d] = result[d]
  BY <1>1 DEF Guard, Move
<1>4. \/ stage'[c] = "read"
      \/ stage'[c] = "finish" /\ result'[c] # "none" /\ (result'[c] = "ok" => ToolOf[c] \in Reading)
  <2> Refusal(c) # "ok"
    BY DEF Refusal
  <2> QED
    BY <1>1 DEF Guard, Move
<1>5. BeforeIsAnswered' /\ LaterIsAnswered' /\ OncePerKey'
  BY <1>1, <1>2, <1>3, <1>4, WorkKeepsAnswers
<1>6. UnderWayIsNotStored' /\ EndedHasResult' /\ AnsweredIsCached'
  BY <1>1, <1>2, <1>3, <1>4 DEF UnderWayIsNotStored, EndedHasResult, AnsweredIsCached, McpIInv
<1>7. CachedOkIsRecorded'
  BY <1>2 DEF CachedOkIsRecorded, Remembers, McpIInv
<1>8. EndedOkIsRecorded'
  BY <1>2, <1>3, <1>4, ToolsApart DEF EndedOkIsRecorded, Remembers, McpIInv
<1> QED
  BY <1>5, <1>6, <1>7, <1>8 DEF Parts

\* Reading the version moves one call and nothing else.
LEMMA ReadVersionKeepsParts ==
  ASSUME McpIInv, NEW c \in Calls, ReadVersion(c)
  PROVE  Parts'
<1>1. stage \in [Calls -> Stages] /\ stage[c] = "read" /\ ~Recorded(c)
  BY DEF McpIInv, McpTypeOK, ReadVersion, Move, UnderWayIsNotStored
<1>2. /\ \A d \in Calls : Recorded(d)' <=> Recorded(d)
      /\ UNCHANGED <<result, cache, before>>
  BY RecordedUnchanged DEF ReadVersion
<1>3. /\ \A d \in Calls \ {c} : stage'[d] = stage[d] /\ result'[d] = result[d]
      /\ stage'[c] = "append"
  BY <1>1, <1>2 DEF ReadVersion, Move
<1>4. BeforeIsAnswered' /\ LaterIsAnswered' /\ OncePerKey'
  BY <1>1, <1>2, <1>3, WorkKeepsAnswers
<1>5. UnderWayIsNotStored' /\ EndedHasResult' /\ AnsweredIsCached'
  BY <1>1, <1>2, <1>3 DEF UnderWayIsNotStored, EndedHasResult, AnsweredIsCached, McpIInv
<1>6. CachedOkIsRecorded' /\ EndedOkIsRecorded'
  BY <1>2, <1>3 DEF CachedOkIsRecorded, EndedOkIsRecorded, Remembers, McpIInv
<1> QED
  BY <1>4, <1>5, <1>6 DEF Parts

\* The append stores the call's event or finds a conflict.
LEMMA AppendKeepsParts ==
  ASSUME McpIInv, NEW c \in Calls, AppendEvent(c)
  PROVE  Parts'
<1>1. /\ stage \in [Calls -> Stages] /\ result \in [Calls -> Codes \cup {"none"}]
      /\ stored \in Seq(Calls) /\ stage[c] = "append"
  BY DEF McpIInv, McpTypeOK, AppendEvent, Move
<1>2. UNCHANGED <<cache, before>>
  BY DEF AppendEvent
<1>3. /\ \A d \in Calls \ {c} : stage'[d] = stage[d] /\ result'[d] = result[d]
      /\ stage'[c] = "finish" /\ result'[c] \in {"ok", "internal"}
  BY <1>1 DEF AppendEvent, Move
<1>4. /\ \A d \in Calls \ {c} : Recorded(d)' <=> Recorded(d)
      /\ \A d \in Calls : Recorded(d) => Recorded(d)'
      /\ result'[c] = "ok" => Recorded(c)'
  <2>1. CASE stored' = Append(stored, c)
    BY <1>1, <2>1, RecordedByAppend
  <2>2. CASE UNCHANGED stored /\ result'[c] = "internal"
    BY <2>2, RecordedUnchanged
  <2> QED
    BY <1>1, <2>1, <2>2 DEF AppendEvent
<1>5. BeforeIsAnswered' /\ LaterIsAnswered' /\ OncePerKey'
  BY <1>1, <1>2, <1>3, <1>4, WorkKeepsAnswers
<1>6. UnderWayIsNotStored' /\ EndedHasResult' /\ AnsweredIsCached'
  BY <1>2, <1>3, <1>4 DEF UnderWayIsNotStored, EndedHasResult, AnsweredIsCached, McpIInv
<1>7. CachedOkIsRecorded'
  BY <1>2, <1>4 DEF CachedOkIsRecorded, Remembers, McpIInv
<1>8. EndedOkIsRecorded'
  BY <1>3, <1>4 DEF EndedOkIsRecorded, Remembers, McpIInv
<1> QED
  BY <1>5, <1>6, <1>7, <1>8 DEF Parts

\* The end of a call fills the cache, from which the invariant is kept.
LEMMA FinishKeepsParts ==
  ASSUME McpIInv, NEW c \in Calls, Finish(c)
  PROVE  Parts'
<1>1. /\ stage \in [Calls -> Stages] /\ cache \in [Keys -> Codes \cup {"none"}]
      /\ stage[c] = "finish" /\ result[c] # "none"
  BY DEF McpIInv, McpTypeOK, Finish, Move, EndedHasResult
<1>2. /\ \A d \in Calls : Recorded(d)' <=> Recorded(d)
      /\ UNCHANGED <<result, before>>
  BY RecordedUnchanged DEF Finish
<1>3. /\ \A d \in Calls \ {c} : stage'[d] = stage[d] /\ result'[d] = result[d]
      /\ stage'[c] = "done"
  BY <1>1, <1>2 DEF Finish, Move
<1>4. /\ \A k \in Keys : cache'[k] = cache[k] \/ (Remembers(c) /\ k = KeyOf[c] /\ cache'[k] = result[c])
      /\ Remembers(c) => cache'[KeyOf[c]] = result[c]
  BY <1>1, SharedKey DEF Finish
<1>5. BeforeIsAnswered' /\ LaterIsAnswered' /\ OncePerKey'
  BY <1>1, <1>2, <1>3, WorkKeepsAnswers
<1>6. UnderWayIsNotStored' /\ EndedHasResult'
  BY <1>1, <1>2, <1>3 DEF UnderWayIsNotStored, EndedHasResult, McpIInv
<1>7. AnsweredIsCached'
  <2> SUFFICES ASSUME NEW d \in Calls, stage'[d] = "done", Remembers(d), result'[d] # "denied-scope"
               PROVE  cache'[KeyOf[d]] # "none"
    BY DEF AnsweredIsCached, Remembers
  <2>1. CASE d = c
    BY <1>1, <1>4, <2>1
  <2>2. CASE d # c
    BY <1>1, <1>2, <1>3, <1>4, <2>2, SharedKey DEF AnsweredIsCached, McpIInv
  <2> QED
    BY <2>1, <2>2
<1>8. ASSUME result[c] = "ok", Remembers(c)
      PROVE  \E d \in Calls : Remembers(d) /\ KeyOf[d] = KeyOf[c] /\ Recorded(d)
  BY <1>1, <1>8, SharedKey DEF EndedOkIsRecorded, McpIInv
<1>9. CachedOkIsRecorded'
  <2> SUFFICES ASSUME NEW k \in Keys, cache'[k] = "ok"
               PROVE  \E d \in Calls : Remembers(d) /\ KeyOf[d] = k /\ Recorded(d)
    BY <1>2 DEF CachedOkIsRecorded, Remembers
  <2>1. CASE cache'[k] = cache[k]
    BY <2>1 DEF CachedOkIsRecorded, McpIInv
  <2>2. CASE Remembers(c) /\ k = KeyOf[c] /\ cache'[k] = result[c]
    BY <1>8, <2>2
  <2> QED
    BY <1>4, <2>1, <2>2
<1>10. EndedOkIsRecorded'
  BY <1>1, <1>2, <1>3 DEF EndedOkIsRecorded, Remembers, McpIInv
<1> QED
  BY <1>5, <1>6, <1>7, <1>9, <1>10 DEF Parts

\* A restart empties the cache and ends the calls under way.
LEMMA RestartKeepsParts ==
  ASSUME McpIInv, Restart
  PROVE  Parts'
<1>1. /\ \A d \in Calls : Recorded(d)' <=> Recorded(d)
      /\ UNCHANGED <<result, before>>
  BY RecordedUnchanged DEF Restart
<1>2. /\ \A d \in Calls : stage[d] \in {"done", "past"} <=> stage'[d] \in {"done", "past"}
      /\ \A d \in Calls : stage'[d] \in {"new", "past", "killed"}
      /\ \A d \in Calls : stage'[d] = "new" => stage[d] = "new"
  BY DEF Restart, McpIInv, McpTypeOK, Stages
<1>3. \A k \in Keys : cache'[k] = "none"
  BY DEF Restart
<1>4. BeforeIsAnswered'
  <2>1. \A e \in Calls : before[e] \subseteq Calls
    BY DEF McpIInv, McpTypeOK
  <2> QED
    BY <1>1, <1>2, <2>1 DEF BeforeIsAnswered, McpIInv
<1>5. LaterIsAnswered' /\ OncePerKey'
  BY <1>1, <1>2 DEF LaterIsAnswered, OncePerKey, Remembers, McpIInv
<1>6. UnderWayIsNotStored' /\ EndedHasResult' /\ AnsweredIsCached'
  BY <1>1, <1>2 DEF UnderWayIsNotStored, EndedHasResult, AnsweredIsCached, McpIInv
<1>7. CachedOkIsRecorded' /\ EndedOkIsRecorded'
  BY <1>1, <1>2, <1>3 DEF CachedOkIsRecorded, EndedOkIsRecorded, Remembers, McpIInv
<1> QED
  BY <1>4, <1>5, <1>6, <1>7 DEF Parts

\* Every step keeps the invariant.
LEMMA StepMcpIInv == McpIInv /\ [McpNext]_mcpVars => McpIInv'
<1> SUFFICES ASSUME McpIInv, [McpNext]_mcpVars PROVE McpIInv'
  OBVIOUS
<1>1. McpTypeOK'
  BY TypeAfterStep
<1>2. CASE UNCHANGED mcpVars
  <2>1. \A d \in Calls : Recorded(d)' <=> Recorded(d)
    BY <1>2, RecordedUnchanged DEF mcpVars
  <2>2. Parts'
    BY <1>2, <2>1 DEF mcpVars, McpIInv, Parts, UnderWayIsNotStored, BeforeIsAnswered,
       EndedHasResult, AnsweredIsCached, LaterIsAnswered, OncePerKey, EndedOkIsRecorded,
       CachedOkIsRecorded, Remembers
  <2> QED
    BY <1>1, <2>2 DEF McpIInv, Parts
<1>3. CASE McpNext
  <2>1. Parts'
    BY <1>3, ArriveKeepsParts, GuardKeepsParts, ReadVersionKeepsParts, AppendKeepsParts,
       FinishKeepsParts, RestartKeepsParts DEF McpNext
  <2> QED
    BY <1>1, <2>1 DEF McpIInv, Parts
<1> QED
  BY <1>2, <1>3

\* The invariant, of every state the server reaches.
LEMMA McpInvariance == McpSpec => []McpIInv
BY InitMcpIInv, StepMcpIInv, PTL DEF McpSpec

\* A call that arrives when another with its key was answered, by the same server and
\* not for want of a scope, stores nothing, whatever the two ask for.
THEOREM KeyStoresOnce == McpSpec => []OncePerKey
<1>1. McpIInv => OncePerKey
  BY DEF McpIInv
<1> QED
  BY <1>1, McpInvariance, PTL

\* An answer "ok" to a call that mutates is borne out by the ledger.
THEOREM AnsweredOkIsRecorded == McpSpec => []OkIsRecorded
<1>1. McpIInv => OkIsRecorded
  BY DEF McpIInv, EndedOkIsRecorded, OkIsRecorded
<1> QED
  BY <1>1, McpInvariance, PTL

\* Every state of the server is of the types given.
THEOREM McpTypes == McpSpec => []McpTypeOK
<1>1. McpIInv => McpTypeOK
  BY DEF McpIInv
<1> QED
  BY <1>1, McpInvariance, PTL
-----------------------------------------------------------------------------
(* Sessions, and the API that serves them.                                  *)

LEMMA InitSessionsIInv == SessionsInit /\ ClockInit => SessionsIInv
<1> SUFFICES ASSUME SessionsInit, ClockInit PROVE SessionsIInv
  OBVIOUS
<1>1. SessionsTypeOK
  BY TtlAssumption, ClockAssumption DEF SessionsInit, SessionsTypeOK, Expiries, Idle, Doing
<1>2. UsesOutlastPromises /\ RowsOutlastPromises
  BY DEF SessionsInit, UsesOutlastPromises, RowsOutlastPromises, Idle, Doing
<1> QED
  BY <1>1, <1>2 DEF SessionsIInv

\* What the types and the assumptions say of numbers.
LEMMA SessionNumbers ==
  ASSUME SessionsTypeOK, now \in 1 .. MaxTime
  PROVE  /\ now \in Nat /\ MaxTime \in Nat /\ SessionTtl \in Nat /\ TouchTtl \in Nat
         /\ now <= MaxTime /\ SessionTtl <= TouchTtl
         /\ Expiries \subseteq Nat /\ now \in Expiries
         /\ now + SessionTtl \in Expiries /\ now + TouchTtl \in Expiries
         /\ \A s \in SessionIds : expiry[s] \in Nat /\ promised[s] \in Nat
         /\ \A r \in Requests : request[r].expires \in Nat
BY TtlAssumption, ClockAssumption DEF SessionsTypeOK, Expiries

\* One request goes on, and the rows stay.
LEMMA GotoKeeps ==
  ASSUME SessionsIInv, now \in 1 .. MaxTime, UNCHANGED now, NEW r \in Requests,
         NEW step \in {"idle", "login", "selected", "touch"},
         NEW s \in SessionIds \cup {NoSession}, NEW e \in Expiries,
         Goto(r, Doing(step, s, e)),
         UNCHANGED <<secret, retired, created, expiry, promised, loggedOut>>,
         step = "login" => e <= now + SessionTtl,
         step \in {"selected", "touch"} => s \in created,
         step = "touch" => promised[s] <= e
  PROVE  SessionsIInv'
<1>1. SessionsTypeOK'
  BY DEF SessionsIInv, SessionsTypeOK, Goto, Doing
<1>2. /\ request'[r] = Doing(step, s, e)
      /\ \A q \in Requests : q # r => request'[q] = request[q]
  BY DEF SessionsIInv, SessionsTypeOK, Goto
<1>3. UsesOutlastPromises'
  BY <1>2 DEF SessionsIInv, UsesOutlastPromises, Doing
<1>4. RowsOutlastPromises'
  BY DEF SessionsIInv, RowsOutlastPromises
<1> QED
  BY <1>1, <1>3, <1>4 DEF SessionsIInv

\* Issuing, rotating and revoking credentials touch no session.
LEMMA CredentialsKeep ==
  ASSUME SessionsIInv, UNCHANGED now, NEW c \in Credentials,
         RetireCredential(c) \/ \E word \in Secrets : IssueCredential(c, word)
  PROVE  SessionsIInv'
<1>1. SessionsTypeOK'
  BY DEF SessionsIInv, SessionsTypeOK, RetireCredential, IssueCredential
<1>2. UsesOutlastPromises' /\ RowsOutlastPromises'
  BY DEF SessionsIInv, UsesOutlastPromises, RowsOutlastPromises, RetireCredential, IssueCredential
<1> QED
  BY <1>1, <1>2 DEF SessionsIInv

\* A login makes a session that nobody has used yet.
LEMMA CreateKeeps ==
  ASSUME SessionsIInv, now \in 1 .. MaxTime, UNCHANGED now,
         NEW r \in Requests, NEW s \in SessionIds, CreateSession(r, s)
  PROVE  SessionsIInv'
<1> USE SessionNumbers
<1>1. /\ expiry' = [expiry EXCEPT ![s] = request[r].expires]
      /\ promised' = [promised EXCEPT ![s] = request[r].expires]
      /\ created' = created \cup {s} /\ s \notin created /\ request[r].step = "login"
      /\ request' = [request EXCEPT ![r] = Idle] /\ UNCHANGED <<secret, retired, loggedOut>>
  BY DEF CreateSession, Goto
<1>2. SessionsTypeOK'
  BY <1>1, TtlAssumption, ClockAssumption DEF SessionsIInv, SessionsTypeOK, Idle, Doing, Expiries
<1>3. /\ promised'[s] = request[r].expires /\ expiry'[s] = request[r].expires
      /\ \A q \in SessionIds : q # s => promised'[q] = promised[q] /\ expiry'[q] = expiry[q]
      /\ request'[r] = Idle /\ \A q \in Requests : q # r => request'[q] = request[q]
      /\ created \subseteq SessionIds
  BY <1>1 DEF SessionsIInv, SessionsTypeOK
<1>4. UsesOutlastPromises'
  <2>1. \A q \in created' : promised'[q] <= now + SessionTtl
    BY <1>1, <1>3 DEF SessionsIInv, UsesOutlastPromises
  <2>2. ASSUME NEW q \in Requests
        PROVE  /\ request'[q].step = "login" => request'[q].expires <= now + SessionTtl
               /\ request'[q].step \in {"selected", "touch"} => request'[q].session \in created'
               /\ request'[q].step = "touch" => promised'[request'[q].session] <= request'[q].expires
    <3>1. CASE q = r
      BY <1>3, <3>1 DEF Idle, Doing
    <3>2. CASE q # r
      BY <1>1, <1>3, <3>2 DEF SessionsIInv, UsesOutlastPromises
    <3> QED
      BY <3>1, <3>2
  <2> QED
    BY <2>1, <2>2 DEF UsesOutlastPromises
<1>5. RowsOutlastPromises'
  BY <1>1, <1>3 DEF SessionsIInv, SessionsTypeOK, RowsOutlastPromises
<1> QED
  BY <1>2, <1>4, <1>5 DEF SessionsIInv

\* The UPDATE of a use leaves an expiry that outlasts what the login promised.
LEMMA TouchKeepsSessions ==
  ASSUME SessionsIInv, now \in 1 .. MaxTime, UNCHANGED now, NEW r \in Requests, TouchSession(r)
  PROVE  SessionsIInv'
<1> DEFINE s == request[r].session
<1>1. /\ s \in created /\ s \in SessionIds /\ promised[s] <= request[r].expires
      /\ request[r].expires \in Expiries /\ expiry \in [SessionIds -> Expiries]
  BY DEF TouchSession, SessionsIInv, SessionsTypeOK, UsesOutlastPromises
<1>2. /\ expiry' = IF Alive(s) THEN [expiry EXCEPT ![s] = request[r].expires] ELSE expiry
      /\ request' = [request EXCEPT ![r] = Idle]
      /\ UNCHANGED <<secret, retired, created, promised, loggedOut>>
  BY DEF TouchSession, Goto
<1>3. SessionsTypeOK'
  BY <1>1, <1>2, TtlAssumption, ClockAssumption DEF SessionsIInv, SessionsTypeOK, Idle, Doing, Expiries
<1>4. UsesOutlastPromises'
  BY <1>2 DEF SessionsIInv, SessionsTypeOK, UsesOutlastPromises, Idle, Doing
<1>5. ASSUME NEW q \in created \ loggedOut
      PROVE  promised[q] <= expiry'[q] \/ promised[q] <= now
  <2>1. q \in SessionIds /\ (promised[q] <= expiry[q] \/ promised[q] <= now)
    BY DEF SessionsIInv, SessionsTypeOK, RowsOutlastPromises
  <2>2. expiry'[q] = expiry[q] \/ (q = s /\ expiry'[q] = request[r].expires)
    BY <1>1, <1>2, <2>1
  <2> QED
    BY <1>1, <2>1, <2>2
<1>6. RowsOutlastPromises'
  BY <1>2, <1>5 DEF RowsOutlastPromises
<1> QED
  BY <1>3, <1>4, <1>6 DEF SessionsIInv

\* Rows are deleted by a logout, and when they have expired.
LEMMA DeletionsKeep ==
  ASSUME SessionsIInv, now \in 1 .. MaxTime, UNCHANGED now,
         Cleanup \/ \E s \in SessionIds : Logout(s)
  PROVE  SessionsIInv'
<1> USE SessionNumbers
<1>1. CASE Cleanup
  <2>1. SessionsTypeOK'
    BY <1>1 DEF SessionsIInv, SessionsTypeOK, Cleanup, Expiries
  <2>2. UsesOutlastPromises'
    BY <1>1 DEF SessionsIInv, UsesOutlastPromises, Cleanup
  <2>3. RowsOutlastPromises'
    BY <1>1 DEF SessionsIInv, SessionsTypeOK, RowsOutlastPromises, Cleanup
  <2> QED
    BY <2>1, <2>2, <2>3 DEF SessionsIInv
<1>2. ASSUME NEW s \in SessionIds, Logout(s) PROVE SessionsIInv'
  <2>1. SessionsTypeOK'
    BY <1>2 DEF SessionsIInv, SessionsTypeOK, Logout, Expiries
  <2>2. UsesOutlastPromises'
    BY <1>2 DEF SessionsIInv, UsesOutlastPromises, Logout
  <2>3. RowsOutlastPromises'
    BY <1>2 DEF SessionsIInv, SessionsTypeOK, RowsOutlastPromises, Logout
  <2> QED
    BY <2>1, <2>2, <2>3 DEF SessionsIInv
<1> QED
  BY <1>1, <1>2

\* Every step of a request or of the clean-up keeps the invariant of sessions.
LEMMA StepSessionsIInv ==
  ASSUME SessionsIInv, now \in 1 .. MaxTime, UNCHANGED now, SessionsNext
  PROVE  SessionsIInv'
<1> USE SessionNumbers
<1>1. ASSUME NEW r \in Requests, NEW c \in Credentials, NEW word \in Secrets, BeginLogin(r, c, word)
      PROVE  SessionsIInv'
  BY <1>1, GotoKeeps DEF BeginLogin, SessionsIInv
<1>2. ASSUME NEW r \in Requests, NEW s \in SessionIds, ReadSession(r, s) PROVE SessionsIInv'
  <2>1. 0 \in Expiries
    BY DEF SessionsIInv, Expiries
  <2> QED
    BY <1>2, <2>1, GotoKeeps DEF ReadSession
<1>3. ASSUME NEW r \in Requests, SendTouch(r) PROVE SessionsIInv'
  <2> DEFINE s == request[r].session
  <2>1. s \in created /\ s \in SessionIds /\ promised[s] <= now + SessionTtl
    BY <1>3 DEF SendTouch, SessionsIInv, SessionsTypeOK, UsesOutlastPromises
  <2>2. promised[s] <= now + TouchTtl /\ now + TouchTtl \in Expiries
    BY <2>1 DEF SessionsIInv
  <2> HIDE DEF s
  <2>3. Goto(r, Doing("touch", s, now + TouchTtl))
    BY <1>3 DEF SendTouch, s
  <2>4. UNCHANGED <<secret, retired, created, expiry, promised, loggedOut>>
    BY <1>3 DEF SendTouch
  <2> QED
    BY <2>1, <2>2, <2>3, <2>4, GotoKeeps
<1>4. ASSUME NEW r \in Requests, FailRequest(r) PROVE SessionsIInv'
  <2>1. 0 \in Expiries
    BY DEF SessionsIInv, Expiries
  <2> QED
    BY <1>4, <2>1, GotoKeeps DEF FailRequest, Idle
<1> QED
  BY <1>1, <1>2, <1>3, <1>4, CredentialsKeep, CreateKeeps, TouchKeepsSessions, DeletionsKeep
     DEF SessionsNext

\* Time passing keeps it: what is promised is a fixed instant.
LEMMA TickSessionsIInv ==
  ASSUME SessionsIInv, now \in 1 .. MaxTime, Tick, UNCHANGED sessionVars
  PROVE  SessionsIInv'
<1> USE SessionNumbers
<1>1. now' = now + 1 /\ UNCHANGED <<secret, retired, created, expiry, request, promised, loggedOut>>
  BY DEF Tick, sessionVars
<1>2. SessionsTypeOK'
  BY <1>1 DEF SessionsIInv, SessionsTypeOK
<1>3. UsesOutlastPromises' /\ RowsOutlastPromises'
  BY <1>1 DEF SessionsIInv, SessionsTypeOK, UsesOutlastPromises, RowsOutlastPromises
<1> QED
  BY <1>2, <1>3 DEF SessionsIInv

\* A session that has ended has no row that is alive, and nothing gives it one: neither
\* the sessions' steps nor time.
LEMMA EndedStays ==
  ASSUME SessionsIInv, now \in 1 .. MaxTime, NEW s \in SessionIds, Ended(s),
         \/ SessionsNext /\ UNCHANGED now
         \/ Tick /\ UNCHANGED sessionVars
         \/ UNCHANGED <<created, expiry, now>>
  PROVE  Ended(s)'
<1> USE SessionNumbers
<1> SUFFICES s \in created' /\ ~(expiry'[s] > now')
  BY DEF Ended, Alive
<1>1. s \in created /\ ~(expiry[s] > now) /\ SessionsTypeOK
  BY DEF Ended, Alive, SessionsIInv
<1>2. ASSUME UNCHANGED now, NEW r \in Requests, NEW q \in SessionIds, CreateSession(r, q)
      PROVE  s \in created' /\ ~(expiry'[s] > now')
  BY <1>1, <1>2 DEF CreateSession, SessionsTypeOK
<1>3. ASSUME UNCHANGED now, NEW r \in Requests, TouchSession(r)
      PROVE  s \in created' /\ ~(expiry'[s] > now')
  BY <1>1, <1>3 DEF TouchSession, SessionsTypeOK, Alive
<1>4. ASSUME UNCHANGED now, NEW q \in SessionIds, Logout(q)
      PROVE  s \in created' /\ ~(expiry'[s] > now')
  BY <1>1, <1>4 DEF Logout, SessionsTypeOK
<1>5. CASE UNCHANGED now /\ Cleanup
  BY <1>1, <1>5 DEF Cleanup
<1>6. CASE UNCHANGED <<created, expiry, now>>
  BY <1>1, <1>6
<1>7. CASE Tick /\ UNCHANGED sessionVars
  BY <1>1, <1>7 DEF Tick, sessionVars
<1>8. ASSUME NEW r \in Requests,
             \/ \E c \in Credentials, word \in Secrets : BeginLogin(r, c, word)
             \/ \E q \in SessionIds : ReadSession(r, q)
             \/ SendTouch(r) \/ FailRequest(r)
      PROVE  UNCHANGED <<created, expiry>>
  BY <1>8 DEF BeginLogin, ReadSession, SendTouch, FailRequest
<1>9. ASSUME NEW c \in Credentials,
             RetireCredential(c) \/ \E word \in Secrets : IssueCredential(c, word)
      PROVE  UNCHANGED <<created, expiry>>
  BY <1>9 DEF RetireCredential, IssueCredential
<1> QED
  BY <1>2, <1>3, <1>4, <1>5, <1>6, <1>7, <1>8, <1>9 DEF SessionsNext

-----------------------------------------------------------------------------
(* Webhooks.                                                                *)

LEMMA InitWebhooksIInv == WebhooksInit => WebhooksIInv
BY DEF WebhooksInit, WebhooksIInv, WebhooksTypeOK, SeenIsAttached, AcknowledgedIsAttached

\* An attempt advances to a place that needs no evidence, or has it; evidence is only
\* added, and what counts as seen has it.
LEMMA AdvanceKeeps ==
  ASSUME WebhooksIInv, NEW a \in Attempts,
         NEW to \in {"reading", "storing", "answering", "acknowledged", "refused", "failed"},
         progress' = [progress EXCEPT ![a] = to],
         atVersion' \in [Attempts -> Nat],
         attached' \in [Deliveries -> Nat],
         \A d \in Deliveries : attached[d] <= attached'[d],
         seen' \subseteq seen \cup {DeliveryOf[a]},
         DeliveryOf[a] \in seen' \ seen => to = "acknowledged",
         to \in {"answering", "acknowledged"} /\ DeliveryOf[a] \in Recording
           => attached'[DeliveryOf[a]] > 0
  PROVE  WebhooksIInv'
<1>1. \A b \in Attempts : DeliveryOf[b] \in Deliveries
  BY DEF Deliveries
<1>2. /\ \A d \in Deliveries : attached[d] \in Nat /\ attached'[d] \in Nat
      /\ seen \subseteq Deliveries /\ progress'[a] = to
      /\ \A b \in Attempts : b # a => progress'[b] = progress[b]
  BY DEF WebhooksIInv, WebhooksTypeOK
<1>3. WebhooksTypeOK'
  BY <1>1 DEF WebhooksIInv, WebhooksTypeOK
<1>4. ASSUME NEW d \in seen' \cap Recording PROVE attached'[d] > 0
  BY <1>1, <1>2 DEF WebhooksIInv, SeenIsAttached
<1>5. ASSUME NEW b \in Attempts, progress'[b] \in {"answering", "acknowledged"},
             DeliveryOf[b] \in Recording
      PROVE  attached'[DeliveryOf[b]] > 0
  <2>1. CASE b = a
    BY <1>2, <1>5, <2>1
  <2>2. CASE b # a
    <3>1. attached[DeliveryOf[b]] > 0
      BY <1>2, <1>5, <2>2 DEF WebhooksIInv, SeenIsAttached, AcknowledgedIsAttached
    <3> QED
      BY <1>1, <1>2, <3>1
  <2> QED
    BY <2>1, <2>2
<1>6. SeenIsAttached'
  BY <1>4, <1>5 DEF SeenIsAttached
<1>7. AcknowledgedIsAttached'
  BY <1>5 DEF AcknowledgedIsAttached
<1> QED
  BY <1>3, <1>6, <1>7 DEF WebhooksIInv

\* Every step of an attempt keeps the invariant of deliveries.
LEMMA StepWebhooksIInv == ASSUME WebhooksIInv, WebhooksNext PROVE WebhooksIInv'
<1>1. PICK a \in Attempts : \/ TakeDelivery(a) \/ ReadEvidence(a)
                            \/ StoreEvidence(a) \/ Acknowledge(a)
  BY DEF WebhooksNext
<1>2. /\ DeliveryOf[a] \in Deliveries
      /\ atVersion \in [Attempts -> Nat] /\ attached \in [Deliveries -> Nat]
      /\ \A d \in Deliveries : attached[d] <= attached[d]
  BY DEF Deliveries, WebhooksIInv, WebhooksTypeOK
<1>3. CASE TakeDelivery(a)
  <2>1. CASE a \notin Signed
    BY <1>2, <1>3, <2>1, AdvanceKeeps DEF TakeDelivery, Advance
  <2>2. CASE a \in Signed /\ (DeliveryOf[a] \in seen \/ DeliveryOf[a] \notin Recording)
    <3>1. DeliveryOf[a] \in Recording => attached[DeliveryOf[a]] > 0
      BY <2>2 DEF WebhooksIInv, SeenIsAttached
    <3> QED
      BY <1>2, <1>3, <2>2, <3>1, AdvanceKeeps DEF TakeDelivery, Advance
  <2>3. CASE a \in Signed /\ DeliveryOf[a] \notin seen /\ DeliveryOf[a] \in Recording
    BY <1>2, <1>3, <2>3, AdvanceKeeps DEF TakeDelivery, Advance
  <2> QED
    BY <2>1, <2>2, <2>3
<1>4. CASE ReadEvidence(a)
  <2>1. atVersion' \in [Attempts -> Nat] /\ UNCHANGED <<seen, attached>>
    BY <1>2, <1>4 DEF ReadEvidence
  <2>2. \E to \in {"storing", "failed"} : progress' = [progress EXCEPT ![a] = to]
    BY <1>4 DEF ReadEvidence, Advance
  <2> QED
    BY <1>2, <2>1, <2>2, AdvanceKeeps
<1>5. CASE StoreEvidence(a)
  <2>1. UNCHANGED <<atVersion, seen>>
    BY <1>5 DEF StoreEvidence
  <2>2. CASE attached' = [attached EXCEPT ![DeliveryOf[a]] = @ + 1]
    <3>1. /\ attached' \in [Deliveries -> Nat] /\ attached'[DeliveryOf[a]] > 0
          /\ \A d \in Deliveries : attached[d] <= attached'[d]
      BY <1>2, <2>2
    <3>2. \E to \in {"answering", "failed"} : progress' = [progress EXCEPT ![a] = to]
      BY <1>5 DEF StoreEvidence, Advance
    <3> QED
      BY <1>2, <2>1, <3>1, <3>2, AdvanceKeeps
  <2>3. CASE UNCHANGED attached /\ progress' = [progress EXCEPT ![a] = "failed"]
    BY <1>2, <2>1, <2>3, AdvanceKeeps
  <2> QED
    BY <1>5, <2>2, <2>3 DEF StoreEvidence, Advance
<1>6. CASE Acknowledge(a)
  <2>1. DeliveryOf[a] \in Recording => attached[DeliveryOf[a]] > 0
    BY <1>6 DEF Acknowledge, Advance, WebhooksIInv, SeenIsAttached
  <2> QED
    BY <1>2, <1>6, <2>1, AdvanceKeeps DEF Acknowledge, Advance
<1> QED
  BY <1>1, <1>3, <1>4, <1>5, <1>6

-----------------------------------------------------------------------------
(* The API, which starts again at any time.                                 *)

LEMMA RestartKeepsApi ==
  ASSUME ApiIInv, now \in 1 .. MaxTime, UNCHANGED now, RestartApi
  PROVE  ApiIInv'
<1>1. SessionsTypeOK'
  BY TtlAssumption, ClockAssumption
     DEF ApiIInv, SessionsIInv, SessionsTypeOK, RestartApi, Idle, Doing, Expiries
<1>2. UsesOutlastPromises' /\ RowsOutlastPromises'
  BY DEF ApiIInv, SessionsIInv, UsesOutlastPromises, RowsOutlastPromises, RestartApi, Idle, Doing
<1>3. \A a \in Attempts : progress'[a] = progress[a] \/ progress'[a] = "failed"
  BY DEF RestartApi
<1>4. WebhooksTypeOK'
  BY DEF ApiIInv, WebhooksIInv, WebhooksTypeOK, RestartApi
<1>5. SeenIsAttached' /\ AcknowledgedIsAttached'
  BY <1>3 DEF ApiIInv, WebhooksIInv, SeenIsAttached, AcknowledgedIsAttached, RestartApi
<1> QED
  BY <1>1, <1>2, <1>4, <1>5 DEF ApiIInv, SessionsIInv, WebhooksIInv

\* Steps of the other parts keep the invariant of sessions,
LEMMA SessionsUnchanged ==
  ASSUME SessionsIInv, UNCHANGED <<sessionVars, now>> PROVE SessionsIInv'
BY DEF SessionsIInv, SessionsTypeOK, UsesOutlastPromises, RowsOutlastPromises, sessionVars

\* and that of deliveries.
LEMMA WebhooksUnchanged == ASSUME WebhooksIInv, UNCHANGED webhookVars PROVE WebhooksIInv'
BY DEF WebhooksIInv, WebhooksTypeOK, SeenIsAttached, AcknowledgedIsAttached, webhookVars

\* Every step of the process keeps both invariants.
LEMMA StepApiIInv ==
  ASSUME ApiIInv, now \in 1 .. MaxTime,
         [(ApiNext /\ UNCHANGED now) \/ (Tick /\ UNCHANGED apiVars)]_<<apiVars, now>>
  PROVE  ApiIInv' /\ now' \in 1 .. MaxTime
<1>1. CASE ApiNext /\ UNCHANGED now
  BY <1>1, StepSessionsIInv, StepWebhooksIInv, RestartKeepsApi, SessionsUnchanged, WebhooksUnchanged
     DEF ApiNext, ApiIInv
<1>2. CASE Tick /\ UNCHANGED apiVars
  <2>1. now' \in 1 .. MaxTime
    BY <1>2, ClockAssumption DEF Tick
  <2> QED
    BY <1>2, <2>1, TickSessionsIInv, WebhooksUnchanged DEF ApiIInv, apiVars
<1>3. CASE UNCHANGED <<apiVars, now>>
  BY <1>3, SessionsUnchanged, WebhooksUnchanged DEF ApiIInv, apiVars
<1> QED
  BY <1>1, <1>2, <1>3

\* The inductive invariant of the process that serves sessions and deliveries.
LEMMA ApiInvariance == ApiSpec => [](ApiIInv /\ now \in 1 .. MaxTime)
<1>1. ApiInit /\ ClockInit => ApiIInv /\ now \in 1 .. MaxTime
  BY InitSessionsIInv, InitWebhooksIInv, ClockAssumption DEF ApiInit, ApiIInv, ClockInit
<1>2. (ApiIInv /\ now \in 1 .. MaxTime)
        /\ [(ApiNext /\ UNCHANGED now) \/ (Tick /\ UNCHANGED apiVars)]_<<apiVars, now>>
      => (ApiIInv /\ now \in 1 .. MaxTime)'
  BY StepApiIInv
<1> QED
  BY <1>1, <1>2, PTL DEF ApiSpec

\* The variables of the API keep their types, whatever requests, sessions and attempts
\* there are.
THEOREM ApiTypes == ApiSpec => []ApiTypeOK
<1>1. ApiIInv => ApiTypeOK
  BY DEF ApiIInv, ApiTypeOK, SessionsIInv, WebhooksIInv
<1> QED
  BY <1>1, ApiInvariance, PTL

\* A login's promise is kept, in whatever order the UPDATEs of later uses arrive and
\* whenever the API starts again.  What a use reports is no such promise.
THEOREM PromisesKept == ApiSpec => []PromisedExpiryHolds
<1>1. ApiIInv /\ now \in 1 .. MaxTime => PromisedExpiryHolds
  BY SessionNumbers
     DEF ApiIInv, SessionsIInv, SessionsTypeOK, RowsOutlastPromises, PromisedExpiryHolds, Alive
<1> QED
  BY <1>1, ApiInvariance, PTL

\* No request brings a session back that was logged out or has expired, however long ago
\* it selected the session.
THEOREM EndedForGood == ApiSpec => EndedSessionsStayEnded
<1>1. ApiIInv /\ now \in 1 .. MaxTime
        /\ [(ApiNext /\ UNCHANGED now) \/ (Tick /\ UNCHANGED apiVars)]_<<apiVars, now>>
      => [\A s \in SessionIds : Ended(s) => Ended(s)']_<<sessionVars, now>>
  <2> SUFFICES ASSUME ApiIInv, now \in 1 .. MaxTime,
                      [(ApiNext /\ UNCHANGED now) \/ (Tick /\ UNCHANGED apiVars)]_<<apiVars, now>>,
                      NEW s \in SessionIds, Ended(s)
               PROVE  Ended(s)'
    OBVIOUS
  <2>1. \/ SessionsNext /\ UNCHANGED now
        \/ Tick /\ UNCHANGED sessionVars
        \/ UNCHANGED <<created, expiry, now>>
    BY DEF ApiNext, apiVars, sessionVars, RestartApi
  <2> QED
    BY <2>1, EndedStays DEF ApiIInv
<1> QED
  BY <1>1, ApiInvariance, PTL DEF ApiSpec, EndedSessionsStayEnded

\* INV-034: whichever attempts of a delivery overlap, fail or are cut off by a restart, one
\* that is acknowledged left its evidence in the ledger.
THEOREM AcknowledgementsAreTrue == ApiSpec => []AcknowledgedIsAttached
<1>1. ApiIInv => AcknowledgedIsAttached
  BY DEF ApiIInv, WebhooksIInv
<1> QED
  BY <1>1, ApiInvariance, PTL
=============================================================================
