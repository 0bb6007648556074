# Codex Warp: TLA+ models, checks and proofs

Codex Warp is a local proxy between Codex and OpenAI-compatible gateways. It
speaks the Responses API to the client, translates to Chat Completions where a
gateway needs it, keeps a table of which provider serves which model, and lets
a Web UI change providers and models while requests are being served.

This directory holds TLA+ models of the parts of it in which several actors
touch the same state, or in which the order of events decides what a user sees;
TLC configurations that check them on small instances; and TLAPS proofs. Every
definition follows the Rust source; `PROJECT.json` gives, for each, the lines
it stands for, and lists the components, the runs, the hazards the properties
answer to, the findings and the theorems.

## 1. Inventory

| Component | State | Operations | What is hard | What makes it correct |
|---|---|---|---|---|
| Session-model cache (`state.rs`, `provider.rs`) | last successful model per session, pending requests, weakly held order objects, one counter | lookup, begin, complete (may evict), drop | streams end in any order; drops are only noticed later through `Weak`; eviction | the newest request that succeeded, or one newer still running, is the answer; bounded |
| Routing, discovery, Web UI mutations (`state.rs`, `provider.rs`, `models.rs`, `webui.rs`, `config.rs`, `store.rs`) | configuration (RwLock), overlay rows (SQLite), `model_routes` (async RwLock), `model_route_seeds`, two revision counters, `mutation_lock` | create, update, delete, enable, disable, refresh, model add / claim / forget / drop; GET /v1/models; `select_provider` | configuration, rows and routes change in separate steps; discoveries take minutes and race mutations; SQLite reads and fetches fail; clients disconnect at awaits | a route is never paired with credentials it was not learned under; newest claim wins; an advertised model is served; every discovery is answered |
| Native stream (`response_codec.rs`) | reasoning buffer, response id, pending usage, terminal seen | one per SSE frame, end of upstream, failures | coalesced reasoning against other frames; billing once; hanging upstreams | order, identity, nothing lost, billing exactly as the outcome |
| Chat stream (`response_codec.rs`, `tool_markup.rs`) | `ChatAccum`: reasoning, message, deferred text, tool calls, sanitizer | one per chunk, finish, failure | text that may repeat a native call is deferred until the turn shows it | coherent events; only duplicates disappear; billed once |
| Overlay store (`store.rs`, `webui.rs`, `config.rs`) | provider and model rows, route order, tombstones, the TOML file, `remembered_managed` | every Web UI mutation, replay at start | a crash between the commit and the configuration write; TOML edited, rows lost in between; rows that keep or change their order | restart = what the committed mutations said |
| Usage analytics (`store.rs`) | usage rows | record, retention, aggregates | retention in batches, concurrent records | each delivered answer once, newest kept |
| Structured output (`structured_output.rs`, `upstream.rs`) | capability cache with a time to live and a cap | lookup, remember, fallback retry | concurrent observations, expiry, upstreams that change, answers lost | work done once; refused only with reason |
| Continue guard, subagent work (`response_codec.rs`) | follow-up budgets | consume, reset, evict, scan of a history | limits, shared map, requests of a session in any order | at most `max_followups` since the last tool work |
| Request transforms (`transform.rs`, `namespace_helpers.rs`) | none after the request | history to messages or items; names of namespaced tools | agent messages between calls and outputs; parallel calls; names that collide | nothing lost or reordered, a call next to its output; each tool under one name, called and judged as itself |
| Request handlers (`upstream.rs`, `http.rs`) | one per request | begin, handle an answer, finish | retries, errors at every await | what is recorded and credited is what the client got |
| Debug log (`debug_log.rs`) | files: active, staging, pending, retired, backups | append, rotate, recover | a crash between any two renames; renames and roll-backs that fail | no segment replaced by an older one, lines lost from the old end only, a backup kept until the next is committed, leftovers repaired |
| Process log (`process_log.rs`) | ring buffer, filter | append, read, reload | bounds | newest lines kept |
| Tool-policy rules, guardian answers, morphs, metadata, templates, configuration loading | none after the request or the start | pure functions | none of concurrency | left to unit tests |

How they interact: a request handler asks the routing table for a provider
(`select_provider`), begins a session-model update, translates the history and
the tools, negotiates the format of the answer, sends the request, and hands
the upstream's stream to one of the two converters. The converter bills the
outcome (`UsageRecorder`) and completes the session-model update, or drops both
when it fails or the client leaves; a completed text-only answer asks the
continue guard whether the turn is over. Mutations and discoveries share
`mutation_lock` only at the end of a discovery; requests share the route lock.

## 2. Plan

| Step | Modules | State |
|---|---|---|
| 1 | `SessionModels`, implements `SessionPromise`; proofs in `SessionModelsProofs` | modelled, checked, proved |
| 2 | `ModelRoutes`; proofs in `ModelRoutesProofs` | modelled, checked, proved |
| 3 | `NativeStream`, `ChatStream`, both implement `ResponseStream`; proofs in `NativeStreamProofs` and `ChatStreamProofs`, on top of `Recursion` | modelled, checked; the safety of both and their refinement proved |
| 4 | `OverlayStore`: live mutations and their replay at a restart; proofs in `OverlayStoreProofs` | modelled, checked; types, the place of the credentials, the order of the claims and the return of the providers proved |
| 5 | `DebugLogRotation`: rotation and recovery with a crash between any two file operations; proofs in `DebugLogRotationProofs` | modelled, checked, proved |
| 6 | `Dispatch` on top of `History` and `ToolNames`: the life of a request with structured output, continue guard, usage records, translated history and tool names; proofs in `DispatchProofs` | modelled, checked; proved but for the tool names |
| 7 | the Markdown scanner of `tool_markup.rs`, changes of the debug-log path | left |

Composition: `ResponseStream` is the common promise of both converters.
`SessionModels` and the streams meet in the action `Credit` (the stream's side
of `complete_session_model_update`) and in `Drop`. `Dispatch` composes the two
translations, the cache, the guard and the table in one request, and takes a
stream as the way it ends. `OverlayStore` and `ModelRoutes` meet in the order
of the enabled rows: `ClaimsInOrder` is what `ModelRoutes` assumes of a commit.

## 3. The models

### SessionModels (`src/src/state.rs`, `provider.rs`)

`entries`, `pending`, `orders` and `next_use` are the fields of
`SessionModelCache`; `latest` holds the atomic inside each order object;
`updates` are the `SessionModelUpdate`s alive in handlers and streams. The
cache is behind one write lock, so an operation is one action: `Get`,
`BeginKnown` / `BeginNew` / `BeginRejected` (`begin_update`),
`CompleteOvertaken` / `CompleteInRoom` / `CompleteEvicting`
(`complete_update`). `Drop` happens outside the lock; what it makes invisible
is found dead (`TokenLive`, `OrderLive`) the next time the cache looks, as
with `Weak::upgrade`. `newest` is a history variable.

`SessionPromise` is what a caller is promised, without order objects, pending
lists or capacity: the answer is the newest request in flight, unless a
remembered success is newer. `KeepsPromise` is the
refinement, `AnswersAsPromised` says the lookups agree. In the promise a
session may be forgotten, which is what eviction does.

### ModelRoutes (`webui.rs`, `models.rs`, `state.rs`, `provider.rs`, ...)

`cfg` is the configuration, `rows` the enabled overlay rows in `route_order`,
`routes` the route map, `seeds` the cached rows, `mutation` the holder of
`mutation_lock` with the stage it has reached, `gets` the discoveries. A mutation
is split where others can look: `Commit...` (SQLite), `Apply` (the configuration write, and
the route epoch published under the same write lock), `Invalidate`, `Spawn`,
and one action per step of the reconciliation. A discovery is split at its
awaits: `ReadRevision`, `ListProviders`, `ReadSeeds`, `MergeCatalogs`, then
`Publish`, `Discard` or `Fail` under the lock. Every read of SQLite and every
fetch may fail. `Disconnect` is a client that leaves where the handler awaits
before the reconciliation is spawned; `DisconnectRefresh` and `Hangup` the
same for a refresh and a discovery.

Revisions are modelled by the answer to the only question asked of them:
whether anything moved since this discovery read them. `origin`, `ident`,
`abandoned`, `unread` and `passedBy` are history: under which identity a route
was learned, which committed changes the routes have not heard of, which the
cached rows have not, and which configuration writes a discovery was never told
of (a creation whose client left before it invalidated). `Filter` is
`Vec::retain`, with the set of what stays in place of the predicate.
Simplifications: all providers are Web UI-managed; a model has one name; an
update changes the destination or the enablement, not both; `update_model`
(metadata) and `discovered_models` are left out.

### ResponseStream, NativeStream, ChatStream (`response_codec.rs`, `tool_markup.rs`)

Both converters are generators that run when the server polls the body, so a
step is what runs between two points where they can be suspended: reading one
frame or chunk computes a queue of events, `Yield` delivers one, `Credit` is
the await of `complete_session_model_update`, `Drop` the client that leaves at
any of these. What the upstream sends is arbitrary (`Shapes` in the MC
modules), and it may fail, hang or end at any point.

`NativeStream` keeps the positions of buffered reasoning deltas (`pending`,
`active`), billing, and a history of frames heard and events told. `ChatStream`
keeps `ChatAccum`: reasoning and its unflushed tail, message text, deferred
text, the sanitizer's state (inside markup, a held-back edge), the tool calls,
the finish reason and usage. Deferred text is released fragment by fragment (`PushAll`) and restored in one event
per fragment (`Restore`). Text is the position of the chunk it came in, and
the sanitizer is modelled by what it does to whole fragments outside Markdown
code: drops complete elements, swallows what follows an opening tag that is
not closed, holds back a possible beginning of a tag.

`ResponseStream` is the promise common to both: channel by channel, what is
shown is a prefix of what was said and grows; only excused units are left out; a
stream the proxy ends holds nothing back; success is billed and credited, a
truncated response billed only, a failure neither.

### DebugLogRotation (`debug_log.rs`)

`file` maps the names that exist (the active log, staging, pending, the
backup, retired) to the events they hold. `log()` and `commit_inner()` hold
the writer lock, so there is one thread of control: `pc`, `phase` (the first
recovery of `maybe_rotate_log`, the one that `rotate_log_to_backup` repeats, or the
rotation itself) and `promoting` are its call stack. Each file operation, with
the existence tests before it, is an action: it succeeds, or fails and takes
the code's error path (`PendingFailed`, `PromotionFailed`, `Return`). `Crash`
is possible between any two and leaves the files. A start is a `BeginCommit`,
which creates the active file before anything is recovered. A file is due
by size or, at any time, by age, an empty one too. One process, as the
comment on `maybe_rotate_log` asks; one path; an existence test never errs.

That recovery leaves a staging file behind and refuses to rotate
(`rotate_log_to_backup`) does not happen in the model: it is part of the failure branch of
`MoveActive`.

### OverlayStore (`store.rs`, `webui.rs`, `config.rs`, `server.rs`)

`prows` and `mrows` are the tables `provider_overlays` and `model_overlays`,
`live` the configuration in the process, `toml` the file, `committed` a
mutation between its commit and its configuration write. Each handler is one
action (`CreateProvider`, `UpdateProvider`, `DeleteProvider`,
`SetProviderEnabled`, `PutModel` for add and update, `SetModelEnabled`,
`DeleteModel`): the statements of its transaction, and the configuration that
`Publish` then writes. `Restart` may come between the two; it replays all rows
over the file (`Replayed`, the rows in `route_order`). `EditToml` is the
operator, `LoseRow` a managed row that disappears. `claims` is history: the
enabled claims in the order in which they were made.

What a start must bring back, `ReplayRestores`, has two halves. `ProvidersRestored` says it of
the providers and excuses what the code is known to forget: a managed provider
whose row was lost (`Lost`), and a TOML provider deleted, created again under
the same id and deleted again, which takes its tombstone (`Resurrected`).

`ModelsRestored` says it of the models a provider serves. A mutation of a model
also decides about the model's upstream id, in the process, but its row names
the model alone: what a start makes of that id is decided by other rows, or by
none. `collateral` is history: the ids that a mutation of another id disabled,
cleared or uncovered. The property looks at every id and excuses one of these,
or one that such an id is the upstream id of, where the two sides have it
disabled differently (`Untold`) or where it is no entry of its own. Switching an
alias off is the case of which the code says otherwise; the run MCToggleOff
shows it (section 4). The others: deleting an alias of the TOML file suppresses
its upstream id, but the tombstone gets, or keeps, an older `route_order`
(store.rs:949) than a row that enabled the upstream id before, which undoes it at
a start (docs/configuration.md:512 says that what is deleted stays suppressed);
deleting an id of a managed provider that is no entry
of its catalog is undone by the row of its alias, which is replayed later, since
`persist_managed_overlay_disable` gives the order 0 (store.rs:905); a hard
deletion of an alias clears the disable of its upstream id in the process while
a row that disables it stays; and an update gives an alias another upstream id.
Further excuses are an id of `disabled_models` in the TOML file that an enabled row had
cleared, once a deletion took the row (`Forgotten`); an entry of the TOML file
that is deleted twice, which takes its tombstone and leaves it switched off
(`Revived`); and an id that is only the upstream id of several entries, where
the first in the catalog decides and a start may order the catalog differently
(`Contested`).

### History, ToolNames and Dispatch

`History` is one request's history. `ChatPass` is the loop of
`responses_to_chat`, a function of the number of items read: it keeps what the
code keeps in local variables (messages, pending calls, outstanding call ids,
deferred agent messages, preserved reasoning); `ChatMessages` is what the code
does after the loop. `NativePass` and `NativeItems` are the same for
`standardize_native_agent_messages`.
`ShowsProgress`, `PlanDone` and `UnresolvedWork` are what the continue guard reads.
`Intact` relates the two, for a history as Codex records it (`Legal`: an id
names one item, or a call and its output; outputs follow all calls of their
turn; nobody speaks in between): what a chat provider is told is what a Responses
provider would be told, nothing lost, in its order, and every output right
after its call. `Interrupted` names where the last part fails: an item between
two calls of one turn that yields no message, such as reasoning with
`preserve_reasoning_content_history` off (the default, config.rs:689), sends
the calls before it, and the later ones come between these and their outputs.

`ToolNames` is one request's tools. `Helpers` folds over the declarations as
`convert_tool` does and keeps the maps of `NamespaceHelpers`; `Returned` is the
way of a call from the model back to Codex, with the policy, `Replayed` the way
of a recorded call to the provider, `Chosen` that of `tool_choice`.
`RoutedHome` says that the three agree. Two exceptions are named in the module:
`Distinct`, functions declared with the name of a namespace's helper, for which
the code has no other name; and `Mistaken`, a call of the old helper of one
namespace for a tool whose bare name is another namespace's tool
(`resolve_nested_runtime` asks the aliases first, namespace_helpers.rs:725).

`Dispatch` runs requests concurrently over the shared `cache`
(`StructuredOutputCache`), `budgets` and `rows`. `Begin` is a handler until it
awaits the upstream, `Handle` what it does with an answer (perhaps asking
again in a weaker format), `Finish` the end of the body with everything that
depends on it up to the next await: the usage row and its retention (`Record`).
`Deliver` follows when `complete_session_model_update` has its lock: the credit
of the session, the guard and the response. `Leave` is a client that disconnects
at any of these awaits, the one between the row and the credit included: such a
row stays, and nothing is credited (`Accounted`). `UpstreamAnswer` executes a request or not, and its answer may be lost
either way; `Change` is an upstream that starts or stops supporting a format,
`Tick` the clock. `history` counts what the upstream executed and remembers
its last rejection of the weaker format, and whether it ever changed. A
behaviour starts from a `scenario`, one of several families (section 4), so
that every question gets inputs that are large in its own direction.
Simplifications: an upstream rejects a format exactly when it does not support
it; the guard is on, in the mode `end_turn_false`; inserts do not fail;
`custom` is the only unsupported tool type; the policy denies a tool whatever
its arguments; namespaces have no dots.

## 4. What is checked

| Run | Bounds | Properties |
|---|---|---|
| MCSessionModels | 3 sessions, 2 models, capacity 1, 7 operations, 3 updates held | IInv, SharedOrder, WithinCapacity, EntryIsNewestSuccess, AnswersAsPromised, KeepsPromise |
| MCSessionOrder | 2 sessions, 6 operations | LaterRequestWins (violated, see findings) |
| MCModelRoutes | 2 providers; 2 mutations and a discovery with 2 attempts, 3 mutations of 2 models, 4 of 1, or 1 mutation of 1 provider and 2 discoveries | TypeOK, RoutesMatchIdentity, OwnersEnabled, SeedsTrackStore, NewestClaimOwns, AdvertisedIsServed |
| MCRouteLiveness | 1 model, 1 discovery, 1 mutation | Answered, LockReleased |
| MCRouteDisconnect | 2 mutations | CommittedIsReconciled (violated) |
| MCNativeStream | 2 reasoning items, threshold 3, 4 frames | TypeOK, InOrder, OneIdentity, Accounted, TerminalEnds, KeepsPromise |
| MCChatStream | 2 tool slots, flush after 2, 4 chunks | TypeOK, EventsCohere, OnlyDuplicatesDropped, BilledOnce, TurnEnds, KeepsPromise |
| MCChatUnclosed | 3 chunks | UnclosedTextSurvives (violated) |
| MCDebugLogRotation | 6 events, files due at 2 | IInv, OlderNamesOlderEvents, NoGap, OnePassRepairs, PriorBackupKept |
| MCOverlayStore | 2 provider ids, 3 model ids, 4 mutations and 2 restarts, edits or losses, 5 together | TypeOK, ReplayRestores, ClaimsInOrder |
| MCToggleOff | 1 provider, 2 aliases of one upstream id, 2 mutations | ToggleOffAsRestored (violated) |
| MCDispatch | 4 requests, 2 upstreams, 2 sessions, every limit 1 or 2, nine families of scenarios | TypeOK, SentFaithfully, ExecutedOnce, Accounted, FollowUpsBounded, RefusalsJustified |

Why these bounds are enough to be interesting. Capacity 1 with three sessions
makes every completion of another session an eviction; seven operations let
two requests of a session be begun, one evicted and looked up again. Two
mutations are what it takes for a provider to be configured, routed and then
changed under a running discovery; the third mutation, in the scope without a
discovery, lets a model be claimed, claimed by the other provider, and released;
the fourth lets it be claimed again after its provider was switched off
(`Budgets` in `MCModelRoutes`). The last scope has the one case that needs two
discoveries: an older one, that a creation passed by, publishes after a newer
one has cached the created rows. Four frames
hold a block of one item, a delta of the other, a meaningful frame and a
terminal; four chunks hold deferred text, a native call, more text and a
finish. Six events fill all five files of the debug log and leave one to be
lost; crashes, failures and restarts are not bounded. Four mutations of the overlay store create, edit, switch and
delete one provider with restarts in between; the TOML provider has a chain of two aliases, whose last
id is disabled, a second alias of the same id may be added, and every id is
switched and deleted: this is where replay and live mutations differ most.

The families of MCDispatch: *Translated*, every legal history of up to five
items (of six without texts), preserved reasoning or not; *Declaring*, every
list of up to three of twelve tools, chosen so that names collide in every way
the code distinguishes, in the input or in the request, chat or native, custom
tools dropped or converted; *Judging*, guardian requests with foreign
namespaces; *Negotiating*, three requests to one upstream with a cache of one
entry that expires; *Changing*, two requests to an upstream that changes;
*Evicting*, two upstreams and one cache entry; *Mixed*, one that negotiates
beside every other kind of request; *Recording*, four answers, or three
while time passes, against a table of two rows pruned in batches of two; *Pausing*, three requests
of two sessions with histories that show progress, a finished plan or open
subagent work, and room for one budget. The proofs of section 5 do not depend on any bound.

Every property of a passing run has a mutant: a plausible bug in one mapped
definition (its operator carries a comment that says which bug) under which
the property fails.

**Fairness.** Streams: weak fairness of `Yield` and `Credit`, that is, the
server goes on polling a body it has been given and the cache's lock is
released; nothing is assumed of the upstream. `TerminalEnds` and `TurnEnds`
hold under this, `Drop` included. Routes: weak fairness of the mutation's own
steps (handlers and the spawned task keep running, catalog fetches have a
timeout) and strong fairness of a discovery's steps, because tokio's mutex is
first come, first served, so a discovery that waits for `mutation_lock` gets it
although mutations keep taking it.

`CHECK_DEADLOCK` is off in every other run than MCDebugLogRotation: the bounds end every behaviour, and a
closed stream is a final state. It is on in MCDebugLogRotation: the log can
always be opened again.

### Findings

- **LaterRequestWins** (`state.rs:65`). `begin_update`'s comment says that a
  later request of a session must win even when an earlier stream finishes
  last. When the session's entry has been evicted, `get` compares the pending
  requests with 0 and answers with an older request that is still running.
- **CommittedIsReconciled** (`webui.rs:2418`). The task that owns the
  reconciliation and the lock is spawned after an await; a disconnect there
  drops both after the commit. Also at lines 2222 and 2332.
- **UnclosedTextSurvives** (`tool_markup.rs:297`). `finish` promises to retain
  unclosed material on a normal end; text after an unclosed tag other than
  `<tool>` has been swallowed by then. A test codifies the drop of the tag's
  prefix (`sanitizer_drops_confirmed_incomplete_tag_prefixes_at_finish`).
- **ToggleOffAsRestored** (`webui.rs:2997`). The comment at webui.rs:2991 says
  that switching a model off matches what the restore does, so that colliding
  siblings see it before the next restart. The handler disables the model and
  its upstream id; the restore (`store.rs:475`, `store.rs:490`) disables the
  model alone. A second alias of the upstream id is off until the next restart
  and on after it.

Behaviours met on the way that no run states as a violation: the exceptions
named above (`Lost`, `Resurrected`, `Forgotten`, `Revived`, `Contested`,
`Interrupted`, `Mistaken`, and the other cases of `collateral`);
`delete_provider` publishes the configuration before it takes the route lock
(`webui.rs:2409`), although `select_provider` relies on identity-changing
mutations taking it first (`provider.rs:95`), so that a request in between reads
a route to a provider that is gone, and falls through; `finish()` of the
chat stream emits deferred text before reasoning that was said earlier (order is promised within a channel only); the
budgets of the continue guard are evicted by key although the comment says the
oldest go, so that an evicted session may exceed `max_followups`
(`FollowUpsBounded` excuses it); enabling a model under a switched-off provider
lifts the global disable that provider had put on it and rebuilds no route
(`webui.rs:3039`), so that another provider's claim is not routed until the next
rebuild, although a restart would route it (`NewestClaimOwns` excuses this one
case, `ClaimedSwitchedOff`); and `soft_remove_model` and
`persist_managed_overlay_disable` keep a row's route order although the comment
on `next_route_order` lets the most recent mutation win (disabled rows claim
nothing, so that `ClaimsInOrder` holds).

## 5. What is proved

`SessionModelsProofs` proves, for every set of sessions and models, every
capacity and every number of operations:

| Theorem | Statement |
|---|---|
| TypeCorrect | `Spec => []TypeOK` |
| Invariance | `Spec => []IInv` |
| SharedOrderHolds | `Spec => []SharedOrder` |
| EntryIsNewestSuccessHolds | `Spec => []EntryIsNewestSuccess` |
| WithinCapacityHolds | `Spec => []WithinCapacity` |
| KeepsPromiseHolds | `Spec => SessionPromise` under the refinement mapping |
| AnswersAsPromisedHolds | `Spec => []AnswersAsPromised` |

Assumptions: `ConstantsAssumption` (finitely many keys, capacity positive,
`None` not a model), which TLC evaluates on every run.

The argument. None of the safety properties is inductive. That an entry is the
newest success needs that the order object the entry points to has seen every
success of the session, and this only if all requests of the session share one
object (`SharedOrder`). That, in turn, survives pruning and eviction because an
object is only pruned when no update holds it, because distinct sessions have
distinct objects (`OrdersDistinct`: an object is named by the request number
that created it, and numbers never exceed `next_use`, `NumbersPast`), and because
an evicted session goes back to the registry in the same step. The capacity
of the registry holds since the completing session leaves it in the step that
puts the evicted one in: this uses that the two maps have disjoint domains.
`IInv` is the conjunction of these parts with `PendingIsInFlight` and
`RequestsDistinct`, which tie a pending mapping to its update; the refinement
needs them for the abstract set of requests in flight. So does
`AnswersAsPromised`: both sides choose the largest of a set of numbers, one
among the live pending entries, one among the requests in flight, and the
two sets are the same (`PendingMatchesFlight`).

`DebugLogRotationProofs` proves, for every segment size and number of events:

| Theorem | Statement |
|---|---|
| FilesInvariant | `Spec => []IInv` |
| FilesTypeCorrect | `Spec => []TypeOK` |
| NamesTellAge | `Spec => []OlderNamesOlderEvents` |
| LogHasNoGap | `Spec => []NoGap` |
| PriorBackupIsKept | `Spec => PriorBackupKept` |
| OnePassIsEnough | `Spec => []OnePassRepairs` |

The argument. Whatever the program point, a step does one of five things to
the files: nothing, one of seven renames, the removal of the retired file
beside a backup, creating the active file, appending to it
(`EveryStepIsAFileStep`). All renames are between neighbours in age, so the
order survives; only two of them ever meet an existing target, and what those
replace is older than what they leave, so there is no gap. That no other
rename meets a target follows from the existence tests of the code, except at
three points where it does not look (`Prepared`): before staging becomes
pending, and where the retired file is removed after a commit. `NoGap`
does not count a retired file beside a backup: when its removal fails, and a
later rotation is interrupted and recovered, it may outlive the segment after
it. `OnePassRepairs` is about a whole call, so its invariant is one about
progress: `CleanPass` says, for each program point of a call in which nothing
has failed, which temporary files that call has already dealt with.

`DispatchProofs` proves, for every set of requests, upstreams and scenarios,
every time to live and every limit:

| Theorem | Statement |
|---|---|
| ExecutedOnceHolds | `Spec => []ExecutedOnce` |
| RefusalsJustifiedHolds | `Spec => RefusalsJustified` |
| FollowUpsBoundedHolds | `Spec => []FollowUpsBounded` |
| AccountedHolds | `Spec => []Accounted` |
| TypeCorrect | `Spec => []TypeOK` |
| HistoryIntactHolds | `Spec => []HistoryIntact` |

Assumptions: `ConstantsAssumption`, of which the proofs use that `TTL` and
`Batch` are positive, the limits are numbers, `None` is no number, capability
or outcome, and the requests of a scenario are requests (`Shape`).

The argument. A request that is being asked, or whose answer lets it be asked
again, was not executed (`OnceInv`): the handler asks again only after a
rejection, and what an upstream rejects it does not execute. For the refusals,
`CacheInv` says why an entry may be trusted, whoever wrote it: one that refuses
expires at most `TTL` after the last rejection seen at its key, and what an
entry withholds is something that an upstream which never changed does not
support. A lookup and an eviction only remove entries; a request that was
weakened by an entry and not by its own rejection does not write it back, which
is what keeps the time to live from being extended (`LearntTrusted`), and
`FormatInv` carries what a request knows from the lookup over its awaits to the
answer. `BudgetInv` says that the follow-ups of a session since its last tool
work are no more than its entry counts, unless that entry was evicted. For the
table, `AccInv` adds that ids are never used twice and never exceed the
counter, so that the rows newer than one are at most as many as the ids after
its own (`NewerRows`): what a trim deletes beyond `MaxEvents` is `MaxEvents`
behind in the order of the inserts (`TrimmedRows`), for every batch size. And it
says how each request ended (`EndedAs`): one that was recorded and not served
had completed in a session and waits for the credit, or its client has left.

`TypeOK` holds the limits. `RowsInv` bounds the rows by what the last retention
left and what was inserted since; an eviction makes room before an insert.
What is sent is messages because every step of the pass keeps the types
(`ChatPassUnfold`).

`HistoryIntact` is about two loops over one history that never meet in the
code, so the invariant runs them side by side (`Together`, by induction over the
items read). Both wait for the same calls (`Waiting`): those whose output is
still to come, which the history alone determines (`Open`); when there are
none, neither holds an agent message back. So both have said the same, in the
same order, once blank texts and reasoning are dropped, although one loop may
have sent a call that the other still gathers (`Alike`). `Formed` is what makes
it safe to drop the text before a call when its reasoning moves to the call:
an assistant message has one text, and it goes only when that is blank. For the
pairing (`Chained`), calls are gathered only while none is outstanding, and the
outstanding ones are all in one message with only outputs after it (`Covered`):
a call that was sent and is open when another comes means that the turn was
interrupted (`NothingOutstanding`), which is where `Legal` is needed.

`ModelRoutesProofs` proves, for every number of providers and models, every
number of mutations and of discoveries under way, and every `RetryLimit`:

| Theorem | Statement |
|---|---|
| Invariance | `Spec => []IInv` |
| RoutesMatchIdentityHolds | `Spec => []RoutesMatchIdentity` |
| OwnersEnabledHolds | `Spec => []OwnersEnabled` |
| AdvertisedIsServedHolds | `Spec => AdvertisedIsServed` |
| CacheInvariance | `Spec => []CacheInv` |
| SeedsTrackStoreHolds | `Spec => []SeedsTrackStore` |
| NewestClaimOwnsHolds | `Spec => []NewestClaimOwns` |
| TypeCorrect | `Spec => []TypeOK` |

Assumptions: `ConstantsAssumption`, of which the proofs use that providers are
numbers and `None` is not one of them.

The argument. A route is safe (`OwnerOK`) when its owner is not switched off,
has the identity the route was learned from if it is switched on, and, if it
is gone, is either still to be evicted by the mutation that holds the lock
(`Evicting`) or was left behind by a disconnect. Mutations keep this because
those that change the identity or the enablement evict the provider in the step
that writes the configuration, and delete's first reconciliation step does
(`MutInv` knows that its list of steps is untouched until then). Publications
by discoveries are the hard part: their routes come from reads that may be
minutes old. `DiscInv` says what a discovery that is still current may rely on:
what it knows of the configuration (`Knows`) is so. Between the configuration
write and the invalidation this is false, which `Quiet` excludes; no discovery
can publish there, as it needs the lock. A creation is the exception that
needs no invalidation: no discovery can have asked a provider that was not
there, and this is why a disconnect before create's invalidation leaves the
current discoveries right.

`CacheInv` is about the three places that hold the claims: SQLite, the cached
rows and the routes. `StoreInv` says that the cached rows are those of SQLite
but for providers that are `unread` and, until the reconciliation reads SQLite
back, for the provider of the mutation under way. A discovery carries rows
across awaits and caches them at its end, so `ReadInv` says the same of what a
current discovery has read: it lacks at most the providers that passed it by,
and these become `unread` when it caches. `FoundInv` says that its seeded
routes name the newest claim for all other providers, `UnreadInv` that an
unread provider owns no route, or is abandoned, or is still to be rebuilt by the
mutation under way. `ClaimInv` puts these together: a model is routed to the
newest row that may own it (`Routed`), unless the reconciliation still has the
step to do that will route it. The two properties are its instances when the lock is free.

Rows are filtered, appended and inserted, and the order of what is left is the
point; so the proof needs to know what filtering does to a sequence, for every
sequence. The provers do not unfold the library's `SelectSeq`; `Filter` builds
the same from `FlattenSeq`, of which `Recursion` proves, by induction over a
set of sequences, that filtering distributes over concatenation, keeps order and
membership, and that filtering twice is filtering by the intersection
(`KeptTwice`). `TypeCorrect` needs that the identities of a provider, the
mutations that are left and the one to come stay within the bound (`BudgetType`).

`NativeStreamProofs` proves, for every set of frames an upstream may send, every
length of a stream and every size of the reasoning buffer:

| Theorem | Statement |
|---|---|
| Invariance | `Spec => []IInv` |
| TypeCorrect | `Spec => []TypeOK` |
| AccountedHolds | `Spec => []Accounted` |
| StreamInvariance | `Spec => []StreamInv` |
| InOrderHolds | `Spec => []InOrder` |
| OneIdentityHolds | `Spec => []OneIdentity` |
| KeepsPromiseHolds | `Spec => KeepsPromise` (`ResponseStream` under the refinement mapping) |

Assumptions: `NativeAssumption` (what a frame may be), which TLC evaluates.

The argument. While the converter reads on, no response has come, nothing was
recorded, and the usage it holds is the latest one reported (`ReadInv`); the
response is therefore the last frame, and one record is made of it (`BillInv`).
That the client hears of a completion only after the credit needs to follow
the completed frame on its way: the buffer holds reasoning only, so that the
frame can be in the queue or be told, and it gets there through `Credit`
(`TellInv`).

`StreamInv` adds what is told. `InOrder` is inductive once it is known how the
converter ends (`EndInv`: what is left when the stream fails or is cut off is
flushed, and the buffer is empty from then on) and it counts what is on its way, in the
queue, in the buffer and, between billing and credit, in neither. Every step
then moves positions from one of these places to the next.
`IdentityInv` says of the events told, of those queued and of the buffer that
they hold text of the identity they carry, and that the buffer is below the size
that flushes it. The refinement maps each step to one of the promise's or to a
stutter: what is shown is a prefix of what was said because the rest of it is
what is still held.

The contents of a stream are flattened sequences and recursive functions over
their lengths, which the library's induction theorems cannot reach (they take
an operator as parameter). `Recursion` proves what is needed by induction over
a *set* of numbers, from the well-foundedness of `<` on `Nat`: that a function
defined by recursion over `0..n` exists and computes what its equation says,
and, from it, how `FlattenSeq` distributes over concatenation and over maps.

`ChatStreamProofs` proves, for every set of chunks an upstream may send, every
length of a stream, every number of tool calls and every `FlushAt`:

| Theorem | Statement |
|---|---|
| TypeCorrect | `Spec => []TypeOK` |
| BilledOnceHolds | `Spec => []BilledOnce` |
| EventsCohereHolds | `Spec => []EventsCohere` |
| OnlyDuplicatesDroppedHolds | `Spec => []OnlyDuplicatesDropped` |
| KeepsPromiseHolds | `Spec => KeepsPromise` (`ResponseStream` under the refinement mapping) |

Assumptions: `ChatAssumption` (what a chunk may be), which TLC evaluates.

The argument. None of the four invariants is inductive: they speak of the events the
client has seen, and what a step adds to these was decided by the accumulator
many steps earlier. `ChatInv` has six parts. `FlowInv` says where the generator
is, what it still has to yield and how it will end. `WordsInv` says that the
events told and queued are a script of the accumulator (`Agrees`: every item
begun once and before its deltas, the deltas of the message make its text,
those of the reasoning make all of it but what is pending), followed by the
events of the end, if there is one (`Closing`). `EventsCohere` follows for the
whole script, and then for what the client has seen of it (`StillCoheres`).
`TextInv` says where the text of the chunks is (`TextKept`: emitted, held back
as a possible tag, deferred, or left out because a native call excuses it, in
the order of the stream), in which shape the sanitizer's state can be
(`TextShape`) and that no element of markup is emitted once a native call is
known (`NoDuplicates`). `BillInv` relates the usage to the chunks that reported
it. `GoneInv` keeps what the client saw before it left. The long part is one
chunk: the four operators of `Apply` are each shown to keep the script and the
text, `Release` by induction over the deferred fragments.

The refinement follows from the same invariant. What was shown of the text and
what is held back of it are the accumulator's text with what waits behind it
(`Everything`), and that is the text of the chunks seen but for what is excused
(`TextKept`). A chunk adds to the text and may add to the excuses, so what is
kept of the text before is a prefix of what is kept after it, *for the excuses
after it* (`TextGoes`): this is why `TextKept` quantifies over every set that
covers what the sanitizer may leave out.

`OverlayStoreProofs` proves, for every set of providers and models, every TOML
file and every number of mutations, restarts, lost rows and edits of the file:

| Theorem | Statement |
|---|---|
| CredentialsHold | `Spec => []CredentialsStayInToml` |
| TypeCorrect | `Spec => []TypeOK` |
| ClaimsInOrderHolds | `Spec => []ClaimsInOrder` |
| ProvidersRestoredHolds | `Spec => []ProvidersRestored` |

Assumptions: `ConstantsAssumption`, of which the proofs use that ids are
numbers, that `None` is none of them and no row, that the file and the
mutations name configurations, and that a created provider names no model twice
(`validate_model_catalog`, webui.rs:751).

The argument. For the credentials, the step to look at is the deletion of a
TOML provider: its tombstone keeps the JSON of the old row, which is clean
because a row never stops being managed except by being removed. For the types
it is `Replayed`: whatever the rows and whatever the file has become, a start
yields a configuration (`ReplayedType`, by induction over the rows in order).

`ClaimInv` says that the history of claims tracks the table (`Tracks`): it names
the enabled rows, and the claims of a model are in the order of its rows. An
append keeps this because `next_route_order` exceeds every row (`NextIsLast`); a
claim inserted before the oldest one keeps it because `normalize_route_orders`
spaces the rows and keeps their order (`NormalizedKeeps`, by counting the rows
before each one), so that the order below the oldest row is above that of no
other row of the model; a removal, because filtering keeps order
(`KeptOrdered` in `Recursion`). A creation does several of these, one per entry
of its catalog, over rows that lack the provider (`AllCreatedTrack`). That the
provider names no model twice matters here: a second entry for the same model
would move the first one's row and leave its claim. `ClaimsInOrder` follows
because a list of distinct rows, sorted by an order that is total, is
`InOrder` (`SortedIsInOrder`).

`ProvidersRestored`, the half of `ReplayRestores` about providers, is not
inductive: what a start makes of a row depends on the TOML file and on whether
the row is remembered. `Agrees` is the strengthening: without a row the
configuration has the settings of the file; a managed row is whole, remembered
and says them all; the row of a TOML provider says whether it is enabled and,
once it was edited, its destination, and the file its credentials. That a
managed row is remembered is what makes `Lost` the only way to lose one.
A mutation of a model, and the replay of the model rows, leave
the settings alone (`SettingsKept`, `ReplayedIs`, by induction over the rows).

Only model-checked: `ModelsRestored`, the other half of `ReplayRestores`, whose excuses were found by checking it on
small catalogs and may be too few for larger ones; and `ToolsRouted`, the other half of
`SentFaithfully`: `ToolNames` numbers the names that are taken with `ToString` of the
module `TLC`, whose definition does not say that different numbers are written
differently, and folds with the library's `FoldLeft`, which the provers do not
unfold. And all liveness: TLAPS has no support for fairness and ENABLED.

## 6. Not modelled

- The Markdown scanner of `tool_markup.rs`, which decides byte by byte what is
  code and what is a tag, the matching of shell commands against policy rules,
  and the text of guardian answers: functions of one string, without state;
  what they decide is an input of ChatStream, ToolNames and Dispatch.
- `transform_morph.rs`, model metadata, templates and configuration loading:
  JSON and TOML rewriting at one point, nothing to interleave with.
- The process log: a bounded buffer behind one mutex.
- Headers, compression, health endpoints, the management views and the browser
  application: I/O and presentation. Release tooling is not part of the program.
- `update_model`'s metadata, the primary provider slot, ids that differ by a
  provider prefix, corrupt rows and schema migration; changes of the debug
  log's path. These are the parts of modelled components that are left out.

## 7. Running

```
tlc -config MCSessionModels.cfg MCSessionModels.tla
tlapm SessionModelsProofs.tla
tlapm DebugLogRotationProofs.tla
tlapm DispatchProofs.tla
tlapm ModelRoutesProofs.tla
tlapm Recursion.tla
tlapm NativeStreamProofs.tla
tlapm ChatStreamProofs.tla
tlapm OverlayStoreProofs.tla
```

The table of section 4 names the configuration of each run; the module is in
`PROJECT.json`.
