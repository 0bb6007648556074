------------------------------ MODULE Dispatch ------------------------------
(***************************************************************************)
(* What happens to a Responses request once its provider is selected       *)
(* (src/src/upstream.rs): its history is translated (History), its tools   *)
(* get names for the upstream (ToolNames), the format of its answer is     *)
(* negotiated with the upstream through a shared cache                     *)
(* (src/src/structured_output.rs), and a successful answer is recorded in  *)
(* the usage table with its retention (src/src/store.rs), credited to the  *)
(* session (SessionModels) and, if it looks like a pause in the middle of  *)
(* a task, continued by the continue guard (src/src/response_codec.rs).    *)
(*                                                                         *)
(* Requests run concurrently and share the cache, the budgets of the guard *)
(* and the table.  Each stretch of a handler between two awaits is one     *)
(* action; the upstream answers at any time, may not answer, and may       *)
(* change what it supports; the client may leave, which drops its handler  *)
(* at the await it is at.                                                  *)
(*                                                                         *)
(* Simplifications.  An upstream rejects a format exactly when it does not *)
(* support it.  A stream ends completed, incomplete or broken, and is the  *)
(* subject of ChatStream and NativeStream.  The guard is on, in the mode   *)
(* end_turn_false.  Database errors, which lose a record, are left out.    *)
(***************************************************************************)
EXTENDS History, ToolNames, Functions

CONSTANTS
  Requests,      \* requests of one behaviour
  Keys,          \* cache keys: an upstream and a model
  NumSessions,   \* prompt_cache_key values
  Families,      \* a sequence of sets of scenarios [shape, supports, ticks,
                 \* changes]: the requests, what the upstreams support at
                 \* first, and two bounds
  TTL,           \* CACHE_TTL
  MaxEntries,    \* CACHE_MAX_ENTRIES
  MaxFollowups,  \* continue_guard.max_followups
  MaxBudgets,    \* CONTINUE_GUARD_BUDGET_MAX_ENTRIES
  Retention,     \* USAGE_RETENTION_DAYS
  Batch,         \* USAGE_RETENTION_BATCH_SIZE
  MaxEvents,     \* MAX_USAGE_EVENTS
  None           \* no request, no session, nothing yet

Formats == {"plain", "schema", "object"}
Sessions == 1..NumSessions

(* A request: schema if it asks for a JSON schema; guardian if it asks to  *)
(* judge an action; early and tools, the tools declared in its input and   *)
(* by itself; custom, what its provider does with custom tools.            *)
Shape == [backend: {"chat", "native"}, key: Keys, schema: BOOLEAN, stream: BOOLEAN,
          guardian: BOOLEAN, early: Seq(Tool), tools: Seq(Tool), custom: Strategies,
          session: Sessions \cup {None}, preserve: BOOLEAN, input: Seq(ItemType)]

ASSUME ConstantsAssumption ==
  /\ {TTL, MaxEntries, MaxFollowups, MaxBudgets, Retention, Batch, MaxEvents} \subseteq Nat
  /\ Batch > 0 /\ TTL > 0
  /\ NumSessions \in Nat
  /\ None \notin Nat \cup {"schema", "object", "none", "served"}
  /\ \A i \in DOMAIN Families : \A s \in Families[i] :
       /\ s.ticks \in Nat /\ s.changes \in Nat
       /\ s.supports \in [Keys -> SUBSET {"schema", "object"}]
       /\ \A r \in Requests : s.shape[r] # None => s.shape[r] \in Shape

VARIABLES
  scenario,     \* chosen at the start
  clock,
  supports,     \* upstream: key -> the formats it accepts, besides "plain"
  changes,      \* times an upstream changed, for the bound
  req,          \* request -> how far it is
  cache,        \* StructuredOutputCache: key -> [can, until]
  budgets,      \* continue_guard_budgets: session -> follow-ups used
  rows,         \* usage_events: set of [id, at, of]
  lastId,       \* its AUTOINCREMENT counter
  history       \* what the properties remember

vars == <<scenario, clock, supports, changes, req, cache, budgets, rows, lastId, history>>
shared == <<cache, budgets, rows, lastId>>

shape(r) == scenario.shape[r]

Answers == {"ok", "rejected", "failed", "lost"}
Outcomes == {"served", "passed", "refused", "foreign", "bad_gateway", "left"}

TypeOK ==
  /\ clock \in 0..scenario.ticks
  /\ req \in [Requests -> [
       stage: {"new", "sent", "answered", "body", "recorded", "done"},
       format: Formats, cached: {None, "schema", "object", "none"}, retried: BOOLEAN,
       answer: Answers \cup {None}, outcome: Outcomes \cup {None},
       followUp: BOOLEAN, messages: Seq(MessageType)]]
  /\ DOMAIN cache \subseteq Keys /\ Cardinality(DOMAIN cache) <= MaxEntries
  /\ \A k \in DOMAIN cache : cache[k].can \in {"schema", "object", "none"}
  /\ DOMAIN budgets \subseteq Sessions /\ Cardinality(DOMAIN budgets) <= MaxBudgets + 1
  /\ \A row \in rows : row.id \in 1..lastId /\ row.of \in Requests
  /\ Cardinality(rows) < MaxEvents + Batch

Init ==
  /\ \E i \in DOMAIN Families : scenario \in Families[i]
  /\ clock = 0
  /\ supports = scenario.supports
  /\ changes = 0
  /\ req = [r \in Requests |->
       [stage |-> "new", format |-> "plain", cached |-> None, retried |-> FALSE,
        answer |-> None, outcome |-> None, followUp |-> FALSE, messages |-> <<>>]]
  /\ cache = <<>> /\ budgets = <<>>
  /\ rows = {} /\ lastId = 0
  /\ history = [executed |-> [r \in Requests |-> 0],
                rejectedAt |-> [k \in Keys |-> None],
                steady |-> [k \in Keys |-> TRUE],
                finished |-> [r \in Requests |-> "no"],
                credited |-> {}, trimmed |-> {},
                streak |-> [s \in Sessions |-> 0], evicted |-> {}]
----------------------------------------------------------------------------
(* The capability cache (structured_output.rs).  can is what the upstream  *)
(* accepts: JsonSchema, JsonObjectOnly, or none of them (Unsupported).     *)

Fresh(c) == Restrict(c, {k \in DOMAIN c : c[k].until > clock})
Capability(k) == IF k \in DOMAIN Fresh(cache) THEN cache[k].can ELSE None

(* lookup_at drops what has expired.                                       *)
(* Mutant for LookedUp: a lookup that refuses renews the entry.            *)
LookedUpRenewing(k) ==
  IF Capability(k) = "none" THEN [Fresh(cache) EXCEPT ![k].until = clock + TTL]
  ELSE Fresh(cache)

LookedUp(k) == Fresh(cache)

(* Mutant for Remembered: a full cache keeps its entries.                  *)
RememberedFull(c, k, can) ==
  {[j \in DOMAIN Fresh(c) \cup {k} |->
     IF j = k THEN [can |-> can, until |-> clock + TTL] ELSE c[j]]}

(* evict_if_over_cap: the entry that expires first, any of them if several *)
(* do.  The entries before the insertion are within the cap, so that one   *)
(* entry goes at most.                                                     *)
WithinCap(c) ==
  LET oldest == {j \in DOMAIN c : \A i \in DOMAIN c : c[j].until <= c[i].until}
  IN IF Cardinality(DOMAIN c) <= MaxEntries THEN {c}
     ELSE {Restrict(c, DOMAIN c \ {j}) : j \in oldest}

Remembered(c, k, can) ==
  WithinCap([j \in DOMAIN Fresh(c) \cup {k} |->
               IF j = k THEN [can |-> can, until |-> clock + TTL] ELSE c[j]])
----------------------------------------------------------------------------
(* The continue guard (response_codec.rs) *)

(* evict_continue_guard_budgets_if_needed: the first tenth in key order.   *)
Evictable(b) ==
  LET n == Cardinality(DOMAIN b)
      gone == n - (n * 9) \div 10
  IN IF n <= MaxBudgets THEN {}
     ELSE {s \in DOMAIN b : Cardinality({t \in DOMAIN b : t < s}) < gone}

(* decision: suspected, when the text looks like a stop in mid-task.       *)
Suspected(input, midTask) ==
  \/ UnresolvedWork(input)
  \/ (ShowsProgress(input) \/ ~PlanDone(input)) /\ midTask

Used(b, s) == IF s \in DOMAIN b THEN b[s] ELSE 0

(* end_turn and consume_followup_budget, of a text-only stop.              *)
Guarded(r, midTask) ==
  LET s == shape(r).session
      asks == /\ shape(r).backend = "chat" /\ Suspected(shape(r).input, midTask)
              /\ MaxFollowups > 0 /\ s # None
      gone == IF asks THEN Evictable(budgets) ELSE {}
      kept == Restrict(budgets, DOMAIN budgets \ gone)
      force == asks /\ Used(kept, s) < MaxFollowups
      (* entry().or_insert(0): a budget that is used up is still entered.  *)
      entered == Used(kept, s) + (IF force THEN 1 ELSE 0)
  IN [force |-> force, gone |-> gone,
      budgets |-> IF asks THEN [t \in DOMAIN kept \cup {s} |->
                                  IF t = s THEN entered ELSE kept[t]]
                  ELSE budgets]
----------------------------------------------------------------------------
(* The usage table (store.rs) *)

(* record_usage: every Batch-th row deletes what is too old, then what is  *)
(* beyond the newest MaxEvents.                                            *)
Trimmed(table, id) ==
  LET young == {row \in table : row.at >= clock - Retention}
  IN IF id % Batch # 0 THEN table
     ELSE {row \in young : Cardinality({n \in young : n.id > row.id}) < MaxEvents}

Recorded(r) ==
  LET row == [id |-> lastId + 1, at |-> clock, of |-> r]
  IN Trimmed(rows \cup {row}, row.id)
----------------------------------------------------------------------------
(* The handlers (proxy_chat_responses, proxy_native_responses) *)

Body(r, format, cached, retried) ==
  [req[r] EXCEPT !.stage = "sent", !.format = format, !.cached = cached,
                 !.retried = retried, !.answer = None,
                 !.messages = IF shape(r).backend = "native" THEN <<>>
                              ELSE ChatMessages(shape(r).input, shape(r).preserve)]
Done(r, outcome) ==
  req' = [req EXCEPT ![r].stage = "done", ![r].outcome = outcome]

(* Mutant for Tracked: any request of the session resets its budget.       *)
TrackedAlways(r) == shape(r).backend = "chat" /\ shape(r).session # None

Tracked(r) == shape(r).backend = "chat" /\ shape(r).session # None
                /\ ShowsProgress(shape(r).input)

(* ContinueGuardState::from_request resets the budget on tool progress.    *)
Progress(r) ==
  LET s == shape(r).session IN
  /\ budgets' = IF Tracked(r) THEN Restrict(budgets, DOMAIN budgets \ {s}) ELSE budgets
  /\ history' = IF s # None /\ ShowsProgress(shape(r).input)
                THEN [history EXCEPT !.streak[s] = 0, !.evicted = @ \ {s}]
                ELSE history

Tools(r) == InTurn(shape(r).backend, shape(r).early, shape(r).tools)
ToolHelpers(r) == Helpers(Tools(r), shape(r).custom)
Foreign(r) == ~shape(r).guardian /\ IncompatibleNamespace(ToolHelpers(r))

Negotiates(r) == shape(r).backend = "chat" /\ shape(r).schema

(* A handler until it awaits the upstream, or refuses the request.         *)
Begin(r) ==
  LET cached == IF Negotiates(r) THEN Capability(shape(r).key) ELSE None
      format == CASE ~Negotiates(r) -> "plain"
                  [] Negotiates(r) /\ cached = "object" -> "object"
                  [] OTHER -> "schema"
  IN /\ shape(r) # None /\ req[r].stage = "new"
     /\ Progress(r)
     /\ \/ /\ Foreign(r)
           /\ Done(r, "foreign")
           /\ UNCHANGED cache
        \/ /\ ~Foreign(r)
           /\ cache' = IF Negotiates(r) THEN LookedUp(shape(r).key) ELSE cache
           /\ IF cached = "none" THEN Done(r, "refused")
              ELSE req' = [req EXCEPT ![r] = Body(r, format, cached, FALSE)]
     /\ UNCHANGED <<scenario, clock, supports, changes, rows, lastId>>

(* Mutant for AsksAgain: it asks once more after any error.                *)
AsksAgainAnyway(r) ==
  /\ Negotiates(r) /\ req[r].format = "schema"
  /\ req[r].answer \in {"rejected", "failed", "lost"}

(* The handler of an answer asks once more only when it is sure that the   *)
(* upstream did not understand the schema.                                 *)
AsksAgain(r) ==
  Negotiates(r) /\ req[r].format = "schema" /\ req[r].answer = "rejected"

(* structured_output_incompatible_response *)
Incompatible(r) ==
  Negotiates(r) /\ req[r].format = "object" /\ req[r].answer = "rejected"

(* A plain JSON object that the cache asked for is not remembered again.    *)
Learns(r) ==
  CASE Incompatible(r) -> "none"
    [] req[r].answer = "ok" /\ req[r].format = "schema" -> "schema"
    [] req[r].answer = "ok" /\ req[r].format = "object" /\ req[r].retried -> "object"
    [] OTHER -> None

Learn(r) ==
  IF Learns(r) = None THEN UNCHANGED cache
  ELSE cache' \in Remembered(cache, shape(r).key, Learns(r))

Witness(r) ==
  IF Incompatible(r) THEN [history EXCEPT !.rejectedAt[shape(r).key] = clock] ELSE history

Handle(r) ==
  /\ req[r].stage = "answered"
  /\ Learn(r)
  /\ history' = Witness(r)
  /\ IF AsksAgain(r)
     THEN req' = [req EXCEPT ![r] = Body(r, "object", @.cached, TRUE)]
     ELSE CASE req[r].answer = "ok" -> req' = [req EXCEPT ![r].stage = "body"]
            [] Incompatible(r) -> Done(r, "refused")
            [] req[r].answer = "lost" -> Done(r, "bad_gateway")
            [] OTHER -> Done(r, "passed")
  /\ UNCHANGED <<scenario, clock, supports, changes, budgets, rows, lastId>>

(* record_completed.  Then the credit of a completed response of a session *)
(* awaits the lock of the sessions, and any other response goes on to the  *)
(* client at once.                                                         *)
Record(r, end) ==
  LET billed == end \in {"completed", "incomplete"}
      table == IF billed THEN Recorded(r) ELSE rows
      lost == IF billed THEN (rows \cup {[id |-> lastId + 1, at |-> clock, of |-> r]}) \ table
              ELSE {}
  IN /\ IF end = "completed" /\ shape(r).session # None
        THEN req' = [req EXCEPT ![r].stage = "recorded"]
        ELSE Done(r, "served")
     /\ rows' = table
     /\ lastId' = IF billed THEN lastId + 1 ELSE lastId
     /\ history' = [history EXCEPT !.finished[r] = end, !.trimmed = @ \cup lost]
     /\ UNCHANGED budgets

(* The ends of a stream, and of a JSON answer.  A truncated chat answer    *)
(* counts as completed, a chat answer without choices is no answer.        *)
StreamEnds(r) ==
  {"completed", "broken"} \cup
  (IF shape(r).backend = "native" THEN {"incomplete"} ELSE {})
JsonEnds(r) ==
  IF shape(r).backend = "native" THEN {"completed", "incomplete", "malformed"}
  ELSE {"completed"}

(* Mutant for Finish: the answer is counted before it is looked at.        *)
FinishEarly(r) ==
  /\ req[r].stage = "body"
  /\ \/ \E end \in JsonEnds(r) : Record(r, end)
     \/ /\ Done(r, "bad_gateway")
        /\ rows' = Recorded(r) /\ lastId' = lastId + 1
        /\ UNCHANGED <<budgets, history>>
  /\ UNCHANGED <<scenario, clock, supports, changes, cache>>

(* should_stream_upstream: a JSON answer to a request for a stream is      *)
(* refused, like an error envelope and a body that cannot be read.         *)
Finish(r) ==
  /\ req[r].stage = "body"
  /\ \/ \E end \in IF shape(r).stream THEN StreamEnds(r) ELSE JsonEnds(r) : Record(r, end)
     \/ Done(r, "bad_gateway") /\ UNCHANGED <<rows, lastId, budgets, history>>
  /\ UNCHANGED <<scenario, clock, supports, changes, cache>>

(* complete_session_model_update has the lock: the session is credited,    *)
(* and the guard looks at what the client gets.                            *)
Deliver(r, midTask) ==
  LET g == Guarded(r, midTask)
      s == shape(r).session
  IN /\ req[r].stage = "recorded"
     /\ req' = [req EXCEPT ![r].stage = "done", ![r].outcome = "served",
                           ![r].followUp = g.force]
     /\ budgets' = g.budgets
     /\ history' = [history EXCEPT !.credited = @ \cup {r},
          !.streak = IF g.force THEN [history.streak EXCEPT ![s] = @ + 1] ELSE @,
          !.evicted = @ \cup g.gone]
     /\ UNCHANGED <<scenario, clock, supports, changes, cache, rows, lastId>>

(* The client disconnects and the handler, or the stream that it returned, *)
(* is dropped: at the await of the answer, of the body or of the credit.   *)
(* One that leaves while the upstream works leaves after its answer.       *)
Leave(r) ==
  /\ req[r].stage \in {"answered", "body", "recorded"}
  /\ Done(r, "left")
  /\ UNCHANGED <<scenario, clock, supports, changes, shared, history>>
----------------------------------------------------------------------------
(* The upstream, and time *)

(* It does not execute a request in a format that it does not support; it  *)
(* may fail, or be cut off, before or after it executed one.               *)
UpstreamAnswer(r) ==
  LET able == req[r].format = "plain" \/ req[r].format \in supports[shape(r).key]
  IN /\ req[r].stage = "sent"
     /\ \E answer \in IF able THEN Answers \ {"rejected"} ELSE Answers \ {"ok"},
           executes \in BOOLEAN :
          /\ answer = "ok" => executes
          /\ ~able => ~executes
          /\ req' = [req EXCEPT ![r].stage = "answered", ![r].answer = answer]
          /\ history' = [history EXCEPT !.executed[r] = IF executes THEN @ + 1 ELSE @]
     /\ UNCHANGED <<scenario, clock, supports, changes, shared>>

Change(k) ==
  /\ changes < scenario.changes
  /\ changes' = changes + 1
  /\ \E s \in SUBSET {"schema", "object"} :
       s # supports[k] /\ supports' = [supports EXCEPT ![k] = s]
  /\ history' = [history EXCEPT !.steady[k] = FALSE]
  /\ UNCHANGED <<scenario, clock, req, shared>>

Tick ==
  /\ clock < scenario.ticks
  /\ clock' = clock + 1
  /\ UNCHANGED <<scenario, supports, changes, req, shared, history>>

Next ==
  \/ \E r \in Requests :
       \/ Begin(r) \/ UpstreamAnswer(r) \/ Handle(r) \/ Finish(r)
       \/ \E midTask \in BOOLEAN : Deliver(r, midTask)
       \/ Leave(r)
  \/ \E k \in Keys : Change(k)
  \/ Tick

Spec == Init /\ [][Next]_vars
----------------------------------------------------------------------------
(* Properties *)

(* The history that a chat provider gets is one it accepts, the output of  *)
(* each call right after the call, and says what the client said, in the   *)
(* order in which a Responses provider would be told it, whatever agent    *)
(* messages arrived between the calls and their outputs.  Where something  *)
(* that is no message comes between two calls of one turn, only the output *)
(* need not come right after its call (Interrupted).                       *)
HistoryIntact ==
  \A r \in Requests :
    req[r].messages # <<>> => Intact(shape(r).input, shape(r).preserve, req[r].messages)

(* Each tool that the client declared, in its input or in the request, has *)
(* a name of its own at the upstream, under which the history mentions it; *)
(* a call of that name, or of the helper of its namespace, comes back as a *)
(* call of that tool, in plain text where Codex must be told so; and a     *)
(* tool that the policy denies is denied under any name.                   *)
ToolsRouted ==
  \A r \in Requests :
    req[r].stage = "sent" => RoutedHome(Tools(r), shape(r).custom, ToolHelpers(r))

(* What the upstream is sent says what the client said. *)
SentFaithfully == HistoryIntact /\ ToolsRouted

(* Asking again in another format never makes an upstream do the work of a *)
(* request twice, whatever answers are lost.                               *)
ExecutedOnce == \A r \in Requests : history.executed[r] <= 1

(* A request is refused as incompatible only if the upstream rejected the  *)
(* weaker format less than TTL ago, however often it was refused since;    *)
(* and requests to an upstream that never changed are refused, or weakened *)
(* to a plain JSON object, only if it does not support more, whatever the  *)
(* other requests learn, forget or evict meanwhile.                        *)
Refused(r) == req[r].outcome # "refused" /\ req'[r].outcome = "refused"
RefusalsJustified ==
  [][\A r \in Requests :
       LET k == shape(r).key IN
       /\ Refused(r) =>
            /\ history'.rejectedAt[k] # None
            /\ clock - history'.rejectedAt[k] < TTL
            /\ history.steady[k] => "object" \notin supports[k]
       /\ req'[r].format = "object" /\ history.steady[k] => "schema" \notin supports[k]
    ]_vars

(* Each response whose end the proxy read, and no other, is in the usage   *)
(* table once, until it is older than Retention or MaxEvents newer ones    *)
(* are.  One that was not handed to the client is there only because the   *)
(* credit of its session was awaited and the client left; a session is     *)
(* credited with its completed responses that were handed on, and no other.*)
Accounted ==
  LET ends(S) == {r \in Requests : history.finished[r] \in S}
      all == rows \cup history.trimmed
  IN /\ {row.of : row \in all} = ends({"completed", "incomplete"})
     /\ \A row, other \in all : row.of = other.of => row = other
     /\ \A row \in history.trimmed :
          row.at < clock - Retention \/ lastId - row.id >= MaxEvents
     /\ \A row \in all :
          \/ req[row.of].outcome = "served"
          \/ /\ history.finished[row.of] = "completed" /\ shape(row.of).session # None
             /\ req[row.of].stage = "recorded" \/ req[row.of].outcome = "left"
     /\ history.credited = {r \in ends({"completed"}) :
                              req[r].outcome = "served" /\ shape(r).session # None}

(* max_followups bounds the continuations of a session since its last tool *)
(* work, with its requests in any order, unless its budget was evicted.    *)
FollowUpsBounded ==
  \A s \in Sessions : s \in history.evicted \/ history.streak[s] <= MaxFollowups
============================================================================
