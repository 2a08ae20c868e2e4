----------------------------- MODULE McpServer -----------------------------
(***************************************************************************)
(* The dispatch of tool calls by the MCP server.  A call that mutates may  *)
(* carry an idempotency key: its result is cached, in memory, and given to *)
(* later calls with the key.  A call looks the key up when it arrives and  *)
(* stores its result when its command has ended; the command reads, guards *)
(* and appends in between, while other calls are served.                   *)
(***************************************************************************)
EXTENDS Naturals, Sequences, FiniteSets

CONSTANTS Calls,      \* each is dispatched at most once
          KeyOf,      \* its idempotency key, or NoKey
          ToolOf,
          Scoped,     \* the calls whose caller has the scope the tool requires
          Valid,      \* the calls whose arguments are complete
          Human,      \* the calls of a human
          SubjectOf,  \* the aggregate a call is about
          NoKey

Mutating == {"create_change_proposal", "comment_on_proposal", "confirm_context",
             "challenge_context", "correct_context"}

Reading == {"get_api_context", "get_operation_context", "get_consumer_assumptions",
            "trace_dependency_impact", "compile_spec", "list_pending_actions"}

ASSUME CallsAssumption ==
  /\ ToolOf \in [Calls -> Mutating \cup Reading]
  /\ DOMAIN KeyOf = Calls /\ DOMAIN SubjectOf = Calls

VARIABLES stage,   \* how far each call is
          based,   \* the version of its stream it read
          result,  \* of its command, or from the cache
          cache,   \* the results kept by key
          stored,  \* the calls whose events the ledger holds, in its order
          before   \* history: the calls answered, since the last start, when it arrived

mcpVars == <<stage, based, result, cache, stored, before>>

Codes == {"ok", "denied-scope", "invalid-input", "domain-rule-violated", "internal"}

Keys == {KeyOf[c] : c \in Calls} \ {NoKey}

\* A call answered by a server that is gone is "past"; one that it took along is "killed".
Stages == {"new", "guard", "read", "append", "finish", "done", "past", "killed"}

McpTypeOK ==
  /\ stage \in [Calls -> Stages]
  /\ based \in [Calls -> Nat]
  /\ result \in [Calls -> Codes \cup {"none"}]
  /\ cache \in [Keys -> Codes \cup {"none"}]
  /\ stored \in Seq(Calls)
  /\ before \in [Calls -> SUBSET Calls]

McpInit ==
  /\ stage = [c \in Calls |-> "new"] /\ based = [c \in Calls |-> 0]
  /\ result = [c \in Calls |-> "none"] /\ cache = [k \in Keys |-> "none"]
  /\ stored = <<>> /\ before = [c \in Calls |-> {}]

Remembers(c) == ToolOf[c] \in Mutating /\ KeyOf[c] # NoKey

StreamVersion(c) == Cardinality({i \in DOMAIN stored : SubjectOf[stored[i]] = SubjectOf[c]})

Recorded(c) == \E i \in DOMAIN stored : stored[i] = c

\* A correction is refused when one is in the ledger, of the same item.
Corrected(item) ==
  \E i \in DOMAIN stored : ToolOf[stored[i]] = "correct_context" /\ SubjectOf[stored[i]] = item
-----------------------------------------------------------------------------
Move(c, from, to) == stage[c] = from /\ stage' = [stage EXCEPT ![c] = to]

\* Mutant: a call does not look for its key.
ArriveForgetful(c) ==
  /\ before' = [before EXCEPT ![c] = {d \in Calls : stage[d] = "done"}]
  /\ IF c \notin Scoped
     THEN Move(c, "new", "done") /\ result' = [result EXCEPT ![c] = "denied-scope"]
     ELSE Move(c, "new", "guard") /\ UNCHANGED result
  /\ UNCHANGED <<based, cache, stored>>

\* dispatch, as far as it does not wait: a caller without the scope is turned away,
\* and that is not cached; a result that is cached is the answer, whatever it is and
\* whatever the call asks for.
Arrive(c) ==
  /\ before' = [before EXCEPT ![c] = {d \in Calls : stage[d] = "done"}]
  /\ \/ /\ c \notin Scoped
        /\ Move(c, "new", "done") /\ result' = [result EXCEPT ![c] = "denied-scope"]
     \/ /\ c \in Scoped /\ Remembers(c) /\ cache[KeyOf[c]] # "none"
        /\ Move(c, "new", "done") /\ result' = [result EXCEPT ![c] = cache[KeyOf[c]]]
     \/ /\ c \in Scoped /\ (Remembers(c) => cache[KeyOf[c]] = "none")
        /\ Move(c, "new", "guard") /\ UNCHANGED result
  /\ UNCHANGED <<based, cache, stored>>

\* What the arguments, the caller and the ledger say of a command before it appends.
Refusal(c) ==
  CASE c \notin Valid -> "invalid-input"
    [] c \in Valid /\ ToolOf[c] = "confirm_context" /\ c \notin Human -> "domain-rule-violated"
    [] c \in Valid /\ ToolOf[c] = "correct_context" /\ Corrected(SubjectOf[c]) ->
         "domain-rule-violated"
    [] OTHER -> "none"

Guard(c) ==
  /\ LET code == IF Refusal(c) = "none" /\ ToolOf[c] \in Reading THEN "ok" ELSE Refusal(c)
     IN  /\ Move(c, "guard", IF code = "none" THEN "read" ELSE "finish")
         /\ result' = [result EXCEPT ![c] = code]
  /\ UNCHANGED <<based, cache, stored, before>>

\* Mutant: an empty stream is read as having no version, and others one too few.
ReadVersionOffByOne(c) ==
  /\ Move(c, "read", "append")
  /\ based' = [based EXCEPT ![c] = StreamVersion(c) - 1]
  /\ UNCHANGED <<result, cache, stored, before>>

ReadVersion(c) ==
  /\ Move(c, "read", "append")
  /\ based' = [based EXCEPT ![c] = StreamVersion(c)]
  /\ UNCHANGED <<result, cache, stored, before>>

\* Mutant: a conflict is taken for a success.
AppendIgnoringConflict(c) ==
  /\ Move(c, "append", "finish")
  /\ \/ /\ based[c] = StreamVersion(c)
        /\ stored' = Append(stored, c)
        /\ \E code \in {"ok", "internal"} : result' = [result EXCEPT ![c] = code]
     \/ UNCHANGED stored /\ result' = [result EXCEPT ![c] = "ok"]
  /\ UNCHANGED <<based, cache, before>>

\* The append fails when the stream has moved; and it may fail, or seem to, for
\* reasons of its own.
AppendEvent(c) ==
  /\ Move(c, "append", "finish")
  /\ \/ /\ based[c] = StreamVersion(c)
        /\ stored' = Append(stored, c)
        /\ \E code \in {"ok", "internal"} : result' = [result EXCEPT ![c] = code]
     \/ UNCHANGED stored /\ result' = [result EXCEPT ![c] = "internal"]
  /\ UNCHANGED <<based, cache, before>>

\* The result is cached, an error too, and the call answered.
Finish(c) ==
  /\ Move(c, "finish", "done")
  /\ cache' = IF Remembers(c) THEN [cache EXCEPT ![KeyOf[c]] = result[c]] ELSE cache
  /\ UNCHANGED <<based, result, stored, before>>

\* The server starts again, with an empty cache.
Restart ==
  /\ stage' = [c \in Calls |->
       IF stage[c] = "done" THEN "past"
       ELSE IF stage[c] \in {"guard", "read", "append", "finish"} THEN "killed" ELSE stage[c]]
  /\ cache' = [k \in Keys |-> "none"]
  /\ UNCHANGED <<based, result, stored, before>>

McpNext ==
  \/ \E c \in Calls : Arrive(c) \/ Guard(c) \/ ReadVersion(c) \/ AppendEvent(c) \/ Finish(c)
  \/ Restart

McpSpec == McpInit /\ [][McpNext]_mcpVars
-----------------------------------------------------------------------------
\* A command is stored once for its key: a call that arrives when another with its key
\* was answered, by the same server and not for want of a scope, stores nothing.
OncePerKey ==
  \A c, d \in Calls :
    (/\ Remembers(c) /\ Remembers(d) /\ KeyOf[c] = KeyOf[d]
     /\ d \in before[c] /\ result[d] # "denied-scope") => ~Recorded(c)

\* A call that mutates and is answered "ok" is in the ledger, or one with its key is,
\* whatever failed or started again since.
OkIsRecorded ==
  \A c \in Calls :
    (stage[c] \in {"done", "past"} /\ result[c] = "ok" /\ ToolOf[c] \in Mutating) =>
      Recorded(c) \/ \E d \in Calls : /\ Remembers(c) /\ Remembers(d)
                                      /\ KeyOf[d] = KeyOf[c] /\ Recorded(d)
-----------------------------------------------------------------------------
(* What makes the two inductive. *)

\* Nothing is stored of a call that has not come to the end of its append.
UnderWayIsNotStored ==
  \A c \in Calls : stage[c] \in {"new", "guard", "read", "append"} => ~Recorded(c)

\* The calls before a call were answered, and a call that has not arrived has none.
BeforeIsAnswered ==
  \A c \in Calls :
    /\ stage[c] = "new" => before[c] = {}
    /\ \A d \in before[c] : stage[d] \in {"done", "past"}

EndedHasResult ==
  \A c \in Calls : stage[c] \in {"finish", "done", "past"} => result[c] # "none"

\* The server keeps a result under the key of every call it answered, one turned away
\* for want of a scope excepted.
AnsweredIsCached ==
  \A d \in Calls :
    (stage[d] = "done" /\ Remembers(d) /\ result[d] # "denied-scope") =>
      cache[KeyOf[d]] # "none"

\* A call that arrives after another with its key was answered is itself answered.
LaterIsAnswered ==
  \A c, d \in Calls :
    (/\ Remembers(c) /\ Remembers(d) /\ KeyOf[c] = KeyOf[d]
     /\ d \in before[c] /\ result[d] # "denied-scope") => stage[c] \in {"done", "past"}

\* A call that ended well is in the ledger, or one with its key is; and so is one for
\* every "ok" in the cache.
EndedOkIsRecorded ==
  \A c \in Calls :
    (/\ stage[c] \in {"finish", "done", "past"}
     /\ result[c] = "ok" /\ ToolOf[c] \in Mutating) =>
      \/ Recorded(c)
      \/ \E d \in Calls : /\ Remembers(c) /\ Remembers(d)
                          /\ KeyOf[d] = KeyOf[c] /\ Recorded(d)

CachedOkIsRecorded ==
  \A k \in Keys :
    cache[k] = "ok" => \E d \in Calls : Remembers(d) /\ KeyOf[d] = k /\ Recorded(d)

McpIInv ==
  /\ McpTypeOK /\ UnderWayIsNotStored /\ BeforeIsAnswered /\ EndedHasResult
  /\ AnsweredIsCached /\ LaterIsAnswered /\ OncePerKey /\ EndedOkIsRecorded /\ CachedOkIsRecorded
=============================================================================
