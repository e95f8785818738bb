# A TLA+ model of the Nash chat platform

This directory holds the formal model of the backend under `src/`: a multi-tenant service in which
tenants configure agents, feed them knowledge, give them tools, and let visitors talk to them over
a web widget or WhatsApp. It is a FastAPI application over PostgreSQL, with Redis for rate limits
and (optionally) a Celery worker. Paths below are relative to `src/src/` unless they say otherwise.

The model is about what happens *between* statements: every request and every background task runs
as one READ COMMITTED transaction, several at a time, in several worker processes, and any of them
may die. Wording, parsing, HTTP and SQL syntax are left out; which statements run, in which order,
what they read, what they wait for and what they leave behind when they fail is not.

## Inventory

| component | state it keeps | operations | interacts with | what is hard |
|---|---|---|---|---|
| conversation engine (`modules/conversations`) | `conversations`, `messages`, one advisory lock per conversation | send, stream, close, escalate | agents, knowledge, tools, LLM | turns of one visitor in two workers; session races; an operator ending a conversation under a turn; folding of history |
| tool loop (`conversations/internal/tool_loop.py`) | rounds, calls, usage of one turn | run | tools, LLM | budget of calls, the last answer |
| channel base (`modules/channels`) | channel configs, webhook deliveries | handle, handle_stream, emit, configure | conversations, webhooks | events sent before the commit they report |
| web channel (`channels/web`) | none of its own | chat, stream | API keys, channel base | a stream that ends early |
| WhatsApp (`channels/whatsapp`) | `whatsapp_messages` with a delivery status | receive, process, reply, send, apply_status | provider, queue, channel base | redelivery, duplicates, lost tasks, receipts out of order |
| knowledge base (`modules/knowledge_base`) | sources, sync schedule, extraction state | add, extract, sync, sweep, retrieve | queue, connectors, engine | a task that runs before its row is committed, overlapping syncs, lost enqueues, budgets and shares of a retrieval |
| tools (`modules/tools`) | tools, policies, an in-process response cache, failure counters | create, invoke, set policy | HTTP executor, tool loop | stale and evicted cache entries, lost counter updates |
| agents (`modules/agents`) | agents, versions, status | update, publish, pause, unpublish, rollback | channels, conversations | version numbers under concurrent edits, what a roll-back publishes |
| auth (`modules/auth`) | users, access and refresh tokens | login, refresh, change password, logout, purge | all APIs | a pair issued while another request revokes; deadlocks on token rows |
| API keys, PATs/MCP (`modules/api_keys`, `modules/mcp`) | key and token rows | issue, authenticate, revoke | channels, MCP tools | last-use updates as a hidden lock |
| tenants, admin (`modules/tenants`, `modules/admin`) | tenant and user rows | switch off, delete, act as | all APIs | a deletion cascades into rows that turns hold; the scope of a request |
| analytics (`modules/analytics`) | rows that tell of failures | report, failures, trace | all rows of a tenant | statements at different instants, edges of windows |
| management API and MCP tools (every `presentation` package) | none of their own | some 150 handlers | all services | rows removed between authentication and use; ids of several tenants in one path |
| system (`modules/system`) | none | health | - | - |
| background queue (`core/queue.py`, `worker.py`) | Celery broker | enqueue, run, beat | WhatsApp, knowledge base | a swallowed enqueue, at-least-once runs |
| rate limiting (`core/rate_limit.py`) | Redis counters per window | check | all APIs | window edges, fail-open |
| sessions and repositories (`shared/database`) | the transaction | get_session, add, update | everything | commit after the response, rollback on error |
| LLM (`shared/llm`) | none | complete, stream, verify key | engine, tools, agents API | retries and a fallback around an answer that is already partly shown |

For each component, correctness means:

* **conversation engine** - a transcript is a sequence of whole turns, numbered without gaps, each
  reply made from everything said before its question; a visitor has one open session; an ended
  session is never reopened and a hand-off is never undone; every accepted turn ends.
* **WhatsApp** - a message delivered several times is one row and at most one turn; no accepted
  message stays unprocessed for ever; a delivery status never goes back.
* **knowledge base** - text, cursor, failure count and next date of a source belong together; a
  source with a schedule is pulled again; a retrieval fits its budget, starves no base and is
  silent only when there is nothing to say; a pull is bounded and whole.
* **tools** - the cache answers only with what a call of those arguments returned less than its time
  ago, and stays within its size; the budget of calls bounds a turn; a call is tried a bounded number
  of times.
* **agents** - the history has one snapshot per superseded version, each what was current then; no
  committed edit is lost, and edits and moves of the status do not undo each other.
* **auth** - a sign-in, a change of password and a log-out end every sign-in committed before.
* **rate limiting** - no more than the limit in one window of one counter.
* **queue** - a task runs after the commit it belongs to, and runs.
* **channel events** - what happened in a committed turn is told.
* **LLM** - one caller sees one vendor's answer, whole, and is charged for that one.
* **analytics** - parts add up to totals, windows partition time.
* **management** - a request stays in its tenant, rows refer to rows of their own tenant, a token does
  only what its scopes allow.

## Modules

| module | models | relates to |
|---|---|---|
| `SerialTurns` | the promise of the conversation engine: whole turns, one at a time | abstract |
| `ConversationTurns` | turns and operator hand-overs as concurrent transactions | implements `SerialTurns` (`TurnsAreSerial`) |
| `MCConversationTurns` | instances: two conversations that fold to one lock, symmetry | extends `ConversationTurns` |
| `ConversationTurns_proofs` | type, numbering and session invariants | extends `ConversationTurns` |
| `SerialTurns_proofs` | the refinement, and what committed transcripts look like | extends `ConversationTurns_proofs` |
| `PromptHistory` | what the model is shown: trimming and the rolling summary | one conversation whose turns are serial, as `ConversationTurns` shows |
| `PromptHistory_proofs` | the summary folds each row once; what a prompt may lack; what `trim` keeps | extends `PromptHistory` |
| `ToolTurns` | the tool loop, `invoke`, its log and failure counts | turns of different conversations, inside the `answer` step of `ConversationTurns` |
| `MCToolTurns` | the lists of calls the model may ask for | extends `ToolTurns` |
| `ToolTurns_proofs` | the budget, the usage and the failure counts | extends `ToolTurns` |
| `WhatsAppInbound` | webhook, claim, queue, worker, retries and crashes of inbound messages | its `Turn` step stands for a turn of `ConversationTurns` by a `whatsapp` caller |
| `WhatsAppInbound_proofs` | at most one turn per message, settled is final, a second reply needs a lost run | extends `WhatsAppInbound` |
| `AgentLifecycle` | configuration, history, status, key and deletion of agents under overlapping requests | the agents that `ChatAccess` refers to |
| `KnowledgeSync` | one source: pulls, syncs, retries, the sweep, the schedule | its texts are what `KnowledgeRetrieval` reads; its pull is `ConnectorPull` |
| `KnowledgeRetrieval` | one retrieval while sources and settings change | a step of `Prepare` in `ConversationTurns` |
| `ConnectorPull` | one pull of a REST connector through pages that may change | a pull of `KnowledgeSync` |
| `ToolCalls` | the response cache and the attempts of tool calls | the `Execute` step of `ToolTurns` |
| `ChatAccess` | key check, rate limit, the stamp of the key, and what becomes of key, agent and tenant meanwhile | encloses a turn of `ConversationTurns` |
| `ChannelEvents` | the events a message of a visitor gives rise to | encloses a turn of `ConversationTurns` |
| `WhatsAppDeliveries` | deliveries of several messages and receipts, answered in the request | each message of one goes the way of `WhatsAppInbound`, in one transaction |
| `WhatsAppOutbound` | outbound messages, templates, delivery receipts, the session window | the `Send` step of `WhatsAppInbound` |
| `UserSessions` | token pairs of one user | the `Authenticate` step of `ManagementApi` |
| `LlmClient` | one model call: attempts, retries, fallback, stream, usage | the provider's part in `ConversationTurns` and `ToolTurns` |
| `AnalyticsReport` | the statements of a usage and of a failure report | reads what `ConversationTurns` commits |
| `ManagementApi` | one request of the console or of an MCP tool, over a table of all handlers | the doors to `AgentLifecycle`, `KnowledgeSync`, `ToolCalls`, `ChatAccess`, `UserSessions`, `AnalyticsReport` |
| `MCPlatform` | instances of these thirteen, from `AgentLifecycle` on | `INSTANCE`s of each, its variables for theirs |
| `PlatformAccess_proofs` | sign-ins, the door of a widget, the management API | extends the next two, about `U`, `C` and `M` of `MCPlatform`, and `TypeOK` of all |
| `PlatformAgents_proofs` | agents, syncs, retrievals, tool calls, model calls | extends `MCPlatform`, about its `A`, `K`, `R`, `T` and `L` |
| `PlatformChannels_proofs` | events, outbound messages, deliveries, pulls, reports | extends `MCPlatform`, about its `E`, `W`, `V`, `P` and `D` |

`PROJECT.json` names the source lines of every definition (`map`). What follows says how the pieces
fit together.

### ConversationTurns

A process is a request. `tx[p]` is what its transaction has written and read; `Commit(p)` makes it
visible, `Rollback(p)` and `Crash(p)` drop it. `advisory` is `pg_advisory_xact_lock` by the folded
conversation id (`LockKey`, arbitrary in the proofs, not injective in the runs), `rowlock` the row
lock an uncommitted `UPDATE` or `INSERT` of a conversation holds. One action stands for the
statements between two points where another process can matter:

| action | code |
|---|---|
| `Receive`, `Refuse` | `send_message`, `stream_message` up to the checks that need no database state |
| `LoadSession` | `_session_for` with a conversation id (the console's preview) |
| `FindSession`, `InsertSession`, `ReselectSession`, `RaiseNoSession` | `open_session`: select, `INSERT ... ON CONFLICT DO NOTHING` which waits for a contending uncommitted entry, select, `RuntimeError` |
| `lock_conversation` | `internal/locking.py` |
| `ReadSequence`, `StoreUser` | `next_sequence` and the insert of the user's message with the update of `last_message_at` |
| `GuardrailAnswer` | a restricted topic or an escalation trigger, answered from code, with `_escalate` |
| `Prepare`, `Fold` | `_prepare` with `_history_for_prompt` and `_fold_into_summary`; the rows dropped are any oldest part that splits no answer from its question, the provider may fail |
| `StoreReply`, `StreamEmpty`, `ProviderFails` | the ends of `_answer` and of `_stream` |
| `ReadConversation`, `UpdateStatus` | `close` and `escalate`, whose write is of the row as it was read |
| `Commit`, `Rollback` | `get_session`; the WhatsApp caller swallows the error of a turn and commits what it wrote |

`SerialTurns` forgets locks, processes and private state, and keeps `conversation` and `message`; the
refinement mapping is the identity on these two. Each step adds one whole turn, ends one session, or
stutters; the runs check it and `SerialTurns_proofs` proves it.

### PromptHistory

The turns of a conversation are serial, so one turn runs at a time: it asks (`Ask`), prepares
(`Prepare`: `trim` under any budget, `carried` being the summary the system prompt was built with),
folds (`Fold`), possibly prepares again (a streamed turn of an agent with tools) and stores its reply,
or none. A row is its role and its length; a summary is the list of the positions folded into it.
`trim` is the code's backward walk over exchanges (`walk`, a recursive function of the exchanges left
and of what is spent and kept so far); `TrimKeepsTheMostThatFits` compares it with a definition
without a walk, in every reachable history.

### ToolTurns

`Complete`, `CompletionFails`, `Notice` and `FollowUp` are the loop of `tool_loop.py`; `InvokeUnsent`
(unknown tool, refused arguments, cache), `Invoke`, `Execute` and `Record` are
`ToolService.invoke`: the tool row is read, the HTTP call is made, the call is logged, and the row is
written with a count computed from the value read before the call. `log` is the table of calls, a set
of rows with ids, as the code never reads it in an order. `rowlock` is held to the end of the turn, so two turns can wait for each other; `Deadlock` is PostgreSQL's answer to a cycle.

### WhatsAppInbound

A handler is one webhook request with one message, a worker one Celery worker. `RecordInbound` is the
`INSERT ... ON CONFLICT DO NOTHING` that claims a message. In inline mode the handler answers in its
own transaction; in redis mode it commits the claim (`CommitClaim`) and calls `enqueue`, which may
fail silently. A worker takes a task, checks that the row is still `received` (`Check`), answers
(`Route`, `Lock`, `Turn`, `Send`, `Commit`) and acknowledges. `Raise` is an error that escapes to the
task, which is retried or recorded as a failure; `SoftLimit` the caught soft limit; `Crash` the death
of a worker, whose task comes back; `Kill` the death of a pool process, whose task does not.
`abandoned` and `dropped` are history variables for the properties.

### AgentLifecycle

A request (`work[p]`) is one transaction: `Start` reads the agent, `Request`, `Transition`, `SetKey`,
`RollBack` and `Delete` decide on what was read, `CheckName`, `Snapshot`, `Write` and `StoreKey` are
the statements of an edit with its snapshot. `Changed` is SQLAlchemy's rule that an UPDATE holds the
columns that differ from what was loaded, on which `NoEditIsLost` rests: an edit and a publish that
overlap write different columns. That two edits of one version do not both commit rests on the unique
index (`Duplicate`). Row locks and the index can make two requests wait for each other
(`BreakDeadlock`).

### KnowledgeSync, KnowledgeRetrieval and ConnectorPull

In `KnowledgeSync` the tenant adds a source, asks for syncs and sets the schedule; `Enqueue` may be
lost, and comes before the commit of its request; a worker loads (`Load`), marks (`Mark`), pulls
(`Pull`) and settles the row, `Fail` counting the streak of failures that pauses the schedule; `Sweep`
enqueues what is due and commits the next dates afterwards. `Written` keeps the columns a sync did not
change. `stale` remembers that a sync wrote over columns committed after its load: `UndisturbedSyncsAreExact`
says that this is the only way in which the columns of a row disagree.

`KnowledgeRetrieval` is `retrieve` statement by statement: `Scope` and `Ask` choose the bases and the
tier (`choose_tier`), `Search`, `SearchWidened`, `SearchAgain` and `SearchLast` are its passes, `Kept`
applies floor and limit, `share_of` is the share of a base. `SetText`, `Attach`, `SetTier` and
`DeleteBase` come in between.

`ConnectorPull` walks the pages of an endpoint by number, offset or cursor. `PageAsked` is what the
code asks for next; `From` is what an endpoint that does what the style says answers; `Taken` is the
loop over the records of one page, which drops those without content and stops at the bound.

### ToolCalls

`Load`, `Lookup`, `Fails` (with `Retried`) and `Answers` are the parts of `invoke` between its awaits;
`Put` and `Evicted` are the cache's; `Update` changes the tool or its policy and `Tick` lets time pass.

### WhatsAppDeliveries

What Meta posts is refused (`Connected`, `Refused`), acknowledged unread, or understood as far as it
goes (`Parsed`, `Kind`). One transaction then claims every message (`RecordInbound`), applies every
receipt (`ApplyStatus`) and, in inline mode, answers one claimed message after the other
(`HandleInbound`, `Lock`, `Turn`, `Reply`). It keeps what it takes, in the order of the payload, so
two deliveries may wait for each other at any of the three (`WaitsFor`, `BreakDeadlock`); an aborted
one, or one whose download of a file breaks off, takes the claims and turns of its other messages
with it, while their replies have left (`Rollback`; `lost` counts it).

### ChatAccess, ChannelEvents and WhatsAppOutbound

`ChatAccess` takes a visitor's request through `ReadKey`, `ReadTenant`, `ReadAgent`, `Check` (the
origin), `Hit` (the limiter, whose backend may fail), `RecordUse`, which keeps the row of the key
locked, `WriteTurn` and `Commit`, while the console changes, revokes or deletes the key, its agent or
its tenant (`ChangeKey`, `Switch`, `Delete`, `Cascade`).

`ChannelEvents` looks for the session (`Existing`, `Look`), runs the turn with its own search for one
(`Join`, `Insert`, `Find`), and posts its events before the commit (`Emit`); an operator may end the
session at any point.

`WhatsAppOutbound` sends text or, outside the window of 24 hours, a template (`Decide`,
`SendTemplate`), writes the row that the provider's answer gives (`Accepted`, `Rejected`), and applies
receipts that come lost, repeated, out of order and two at a time (`Receipt`, `Apply`).

### UserSessions

A log-in purges dead tokens (`Purge`), revokes the live ones (`See`, `RevokeAll`) and inserts a pair
(`Commit`); refresh, log-out and change of password are parts of that. `Take` is what PostgreSQL's
READ COMMITTED does with a row that another transaction has locked.

### LlmClient

`Build`, `Break`, `Answer`, `Delta` and `Finish` are `complete`, `stream` and `verify_key` between
two events of a vendor's SDK; `Translated` is the adapters' translation of errors, `Again` the retry and
`FallsBack` the second choice; a caller may leave a stream (`Leave`).

### AnalyticsReport

Each statement of a report is an action (`Counts`, `Totals`, `Daily`, `ByChannel`, `ByModel`;
`Counting`, `Sampling`) which reads what is committed when it runs; turns and failures are committed
before and between them. `message_totals`, `daily`, `by_channel`, `by_model` and `count_in` are the
aggregates of the queries.

### ManagementApi

A handler of the console or of the MCP server is a record of what it does with rows: which rows its
path names, which kinds it lists, which row it alters or removes, what it makes, and what it makes
unless it is there. The sets from `AgentConfiguration` to `KnowledgeWriteTools` give these records
for every handler, and `Endpoints` the door each is behind. The handlers are checked against one state machine:
`Authenticate` (`LetIn`), `Resolve` (`ScopeOf`: the tenant, which an administrator may name;
`Allows`: the scopes of a token), `LookUp` of each row of the path through the tenant-scoped
repositories (`Reaches`) and under the row found before it (`Under`), then `Serve` or `Refuse`.
`Disturb` removes a row with everything that cascades from it, or switches a tenant off, at any point.
What a handler does to the contents of its rows is the business of the other modules.

### MCPlatform

The thirteen share no state that any of their properties is about, so `MCPlatform` is their sum and not
their product: the initial state picks one of them (`part`), and its variables take the slots `v1` to
`v12`. A property of one is checked as `part => property`, and one run explores all of them.

## What the runs check

| run | instance | shows |
|---|---|---|
| `turns_two` | two turns of each of the four kinds of caller, one hand-over, one key, two conversations on one lock; 36,017 states | `IInv` (which contains `OneOpenSession` and `SequencesInOrder`), `RepliesFromWholeHistory`, `HandoffIsKept`, `SessionsOnlyAdvance`, `TurnsAreSerial`, `EveryTurnEnds` |
| `turns_three` | three WhatsApp turns, one hand-over, three conversations; 119,092 states | `OneOpenSession`, `SequencesInOrder`, `WholeTurns` |
| `turns_after_end` | as `turns_three` without hand-overs | `NoReplyAfterTheEnd` is violated |
| `prompt` | six rows, lengths 0..2, budgets 0..5; 64,147 states | `TrimKeepsTheMostThatFits`, `SummaryFoldsEachRowOnce`, `OnlyWhatIsBeingFoldedIsMissing` |
| `prompt_covers` | the same | `PromptCoversHistory` is violated |
| `tools` | two turns, two tools, budget of two, up to three calls asked at a time; 248,782 states | `BudgetBoundsATurn`, `UsageCoversEveryCompletion`, `CountsOnlyLoggedFailures`, `EveryTurnEnds` |
| `tools_raises` | the same | `InvokeNeverRaises` is violated |
| `whatsapp` | two messages, two deliveries, two workers, both modes, one retry, two faults; 156,238 states | `QuestionIsStoredOnce`, `RepliesRepeatOnlyAfterAFault`, `SettledIsFinal`, `QueuedMessagesSettle` |
| `whatsapp_twice` | one message, one fault, redis mode | `AtMostOneReply` is violated |
| `whatsapp_stuck` | redis mode, no fault | `EveryClaimSettles` is violated |
| `platform` | the thirteen modules that `MCPlatform` names, at the bounds below; 542,810 states | `TypeOK` of each; agents: `HistoryIsFaithful`, `NoEditIsLost`; knowledge: `UndisturbedSyncsAreExact`, `ReadyHasText`, `ScheduledIsPulled`, `RetrievalIsSound`, `PullIsSound`; tools: `ToolCallsAreSound`; access: `AllowanceHolds`, `ServesTheLiving`; channels: `EventsAreTold`, `LogIsConsistent`, `StampsStay`, `DeliveriesAreSafe`; sign-ins: `EarlierPairsEnd`; models: `AnswersAreWhole`; analytics: `ReportsAddUp`; management: `ApiIsScoped`; requests of agents, access, sign-ins and deliveries: `EveryRequestEnds` |
| `connector_once` | one pull of an endpoint that stands still | `EveryRecordOnce` is violated |

Why these bounds are enough to be interesting:

* *Turns.* Two turns race for a session, a lock, a number and the summary; a third is needed to meet
  what two others have left behind: a session that one of them ended, a question that a failed turn
  committed without an answer. One hand-over meets each of them at each statement. Three
  conversations let each turn open one of its own. Crashes are not bounded, since a crashed process
  does not come back.
* *Prompt.* Six rows are two exchanges and a third that drops the first; a row of length 0 (an empty
  reply) and budgets below, at and above the length of an exchange are all there.
* *Tools.* A budget of two and lists of three calls reach the budget in the middle of a round and,
  with one call at a time, at its end; two tools in two orders give the deadlock.
* *WhatsApp.* Two deliveries are one message twice, which overlaps with itself, or two messages on one
  lock. One retry reaches the last attempt; two faults let a second run fail after the first.

* *Platform.* Two requests, calls, messages, webhooks or workers are what every race here needs: one
  acts on what it read before the other committed. One agent with two further versions and
  configurations that can and cannot be published; one source with two pulls, two tasks, one fault
  and one failure before the schedule stops; three sources in two bases, with texts that the query as
  written finds well, weakly and not at all; five records on pages of two with bounds that bite in
  the middle of a page; two arguments for a cache of one entry; two processes with a limiter each or
  one they share, a limit of one or two, two windows; three conversations; two webhooks with four
  receipts for one send; two deliveries at a time of payloads that share messages, hold one twice, and
  name two contacts, two messages and two receipts in opposite orders; two sign-ins that exist beforehand; two attempts, three vendors and
  completions of two deltas; two days, two turns, two failures; two tenants, one change meanwhile and
  every handler.

`CHECK_DEADLOCK` is on everywhere: each module has a `Finished` (or `Full`) step that is enabled only
when everybody is at an end, so a state in which somebody waits for ever is reported.

### Fairness

Weak fairness of what a started request does by itself: `Progress(t)` of a turn, `Handover(o)` of an
operator's call, `Webhook(h)` and `Work(w)`. It stands for: statements return, a free lock is granted,
provider and tool calls have timeouts (`shared/llm`, the HTTP executor), the broker hands out what it
has to an idle worker. Nothing is assumed of arrivals, refusals, crashes, errors and deliveries.
Since every turn and delivery runs at most once, a lock cannot be taken from a waiter again and
again, so no strong fairness is needed. `PromptHistory` states safety only.

In `platform`, `Turn(p)` is what a begun request, worker or caller does by itself, with the same
reasons: statements return, PostgreSQL breaks deadlocks and grants free locks, the endpoint of a pull
has a timeout. `Background` is the scheduler's beat, which comes again and again (`worker.py`), and the
cascade of a deletion that has begun. Nothing is assumed of a request that has not begun, of the
broker taking an enqueue, or of a pull succeeding.

## What is proved

The proofs are for every value of the constants: any number of turns, hand-overs, keys,
conversations, tools, messages, workers, retries, bases, pages, and any folding of ids to locks. The
only assumptions are the `ASSUME`s of the modules and, for the thirteen of `MCPlatform`, the named
ones there (`AgentsAssumed` to `DeliveriesAssumed`), each of which is the `...Assumption` of its
module. They say that a value for nobody is no request, that sets are disjoint or finite where they
must be, that bounds are natural numbers, and that the messages of a payload are a list; the runs
evaluate them.

Every safety property that a run expects to hold is proved.

* `ConversationTurns_proofs`: `Invariance`, `TypeCorrect`, `SequencesAreInOrder`,
  `OneOpenSessionPerKey`. Neither property is inductive alone. Numbering needs to know that only the
  holder of the advisory lock of a conversation writes its messages (`LockInv`), and that the rows
  are well numbered *together with* those its transaction has not committed, up to the number it has
  read but not yet used (`SequenceInv`). One open session needs the unique index: an uncommitted
  session is the only one of its key, on a row nobody else works on (`SessionInv`). Both need types
  and finiteness (`TypeInv`), for the maximum of the sequence numbers to exist. `IInv` is their
  conjunction; the step is proved conjunct by conjunct, action by action.
* `SerialTurns_proofs`: `TurnsImplementSerialTurns`, the refinement, for which `IInv` does not say
  enough: it knows that uncommitted rows are well numbered, not what they are. `TurnInv` adds that
  from the moment its question is stored a turn holds the advisory lock and the row of its
  conversation, so that what it has written is a whole turn after the committed rows until it
  commits (`Whole`, `Block`), and that an operator who is about to commit holds the row it read
  (`OperatorOf`). Then every commit is `AddTurn` or `EndSession` of `SerialTurns`, and every other step
  a stutter. `TranscriptsAreWhole`, `RepliesSeeWholeHistory`, `HandoffsAreKept` and `SessionsAdvance`
  follow from the serial steps, by an invariant of committed state alone (`TranscriptInv`).
* `PromptHistory_proofs`: `TypeCorrect`, `FoldedOnce`, `OnlyTheFoldIsMissing`, `TrimKeepsTheMost`. The
  summary covers the first `summarised_through` rows (`FoldInv`), and a fold that is pending reaches
  beyond them, so that it never takes the number back. A prompt carries a summary of some first rows
  and all rows that were not dropped (`PromptInv`), so a row in neither part was dropped by that very
  preparation. The last theorem is about the algorithm: `trim` drops the shortest beginning whose rest
  fits the budget and does not open with the answer to a dropped question. The walk stops at the first
  exchange that does not fit (`WalkStops`), and what it has passed is a tail whose total is the sum of
  the exchanges passed (`TailTotals`), which rises with the tail (`TallyRises`).
* `ToolTurns_proofs`: `BudgetHolds`, `UsageIsComplete`, `FailuresAreLogged`. Completions are bounded
  because every completed round either executes a call or is the last (`Spending`); `Shape` gives the
  types. The counts: what a turn has loaded, is about to write or has written for a tool never exceeds
  its `Evidence`, the failures in the log with those the turn has seen itself. The log only grows, so evidence is not
  lost while others commit, and the commit that publishes the count publishes the calls.
* `WhatsAppInbound_proofs`: `TypeCorrect`, `AtMostOneTurn`, `SettledStaysSettled`,
  `RepeatsNeedAFault`. `ClaimInv` says that a message is in one place at a time, with one process or in
  one task (`OnePlace`), that whoever answers it holds it while the ledger does not yet settle it
  (`Held`), and that a message with a committed turn is settled (`TurnsAreSettled`).
  `SettledStaysSettled` is an action property and follows from the same invariant: only a holder
  changes the row or replies, and it holds nothing that is settled. `RepeatsNeedAFault` counts: there
  are no more replies of a message than runs of it that were lost, unless the message is settled or
  its holder is past the reply and about to settle it (`ReplyInv`).

The other three modules prove the properties of the `platform` run as `MCPlatform` states them. A
step of it is one of the part that runs, and a stutter of that part otherwise (`AgentsMove`,
`AccessMove`, `ChannelsMove`), so each theorem comes down to one component and the inductive invariant
that the component's module ends with.

* `PlatformAgents_proofs`
  * `HistoryStaysFaithful`, `EditsAreKept` (`AgentInv`): an edit between its snapshot and its commit
    is alone with the history of its agent (`Apart`), because of the unique index and of the lock that
    a deletion waits for; what it read of the configuration is still the row (`Kept`), and a move of
    the status writes the status and no other column (`Moving`).
  * `SyncsAreExact`, `ReadySourcesHaveText` (`SyncInv`): only the holder of the row's lock settles it,
    so a worker that has marked the row works with what the row still is, unless it was stale when it
    marked (`Marked`); and the tenant's open request keeps the schedule it has read
    (`ScheduleAsRead`).
  * `RetrievalStaysSound` (`RetrievalInv`): as long as nothing was committed, what the statements so
    far have chosen is what the rows say (`Relied`). That no base is starved is a counting argument:
    what the others take at their shares leaves a slot.
  * `ToolCallsStaySound` (`ToolInv`): an entry of the cache expires within `MaxTtl` of its arrival,
    and a call that waits has not timed out and has attempts left.
  * `AnswersStayWhole` (`LlmInv`): nothing has been shown when an attempt begins, so what is shown is
    of this attempt (`ShownByThisAttempt`); attempts are numbered and the second choice begins anew.
* `PlatformChannels_proofs`
  * `EventsAreAlwaysTold` (`EventInv`): an uncommitted conversation is seen by nobody else
    (`PendingIsOwn`), and a message that inserts one has found that the open one it knew has ended.
  * `LogStaysConsistent`, `StampsAreKept` (`LogInv`): what a row says has come about
    (`Consistent`), a receipt that is being applied has too, and the row it was loaded from has lost
    no stamp since (`Receipts`), although another webhook may have written it meanwhile.
  * `DeliveriesStaySafe` (`DeliveryInv`): claims of two open requests are apart, and every reply is
    accounted for by a committed row, by the request that gave it, or by a roll-back (`Accounted`).
  * `PullsStaySound` (`PullInv`): what a pull of an endpoint that stands still has taken is what is
    indexable of the records before the next page (`Walks`), for each style of pagination. That the
    loop over one page gives what that needs is a lemma about `Taken`.
  * `ReportsStayTrue` (`ReportInv`): what each statement found is still what it would find
    (`HasFound`); that parts add up to totals is then a lemma about sums over a sequence of messages,
    and that the samples are the newest one about finite sets.
* `PlatformAccess_proofs`
  * `SignInsEnd` (`RevokeInv`): for each request, a pair that was live when its revocation began is
    dead, or changed by it and locked, or still to be looked at (`Ends`); no pair comes back to life,
    since only a request that commits issues a pair, once (`IssuedByCommit`).
  * `AllowanceIsKept` (`AllowanceInv`): a counter has counted all it has admitted (`CountedAll`), and
    of any of them, one came with a limit that they all fit into (`WithinLimit`), as the limit may
    change within a window.
  * `TheLivingAreServed` (`LivingInv`): who has stamped the key holds its row, and who has written its
    turn keeps agent and tenant, so that a deletion must wait for the commit (`StampHolds`).
  * `RequestsAreScoped` (`ApiInv`): the scope is one the caller may reach (`ScopeIsAllowed`), every
    row of the path was reached within it (`FoundAsAsked`), and rows refer to rows of their own tenant
    (`RowsAreWhole`). It rests on a fact about each of the handlers (`Handled`), proved for the whole
    table.

  * `KindsAreKept`: `TypeOK` of `MCPlatform`, for all thirteen. For six components the invariants
    above say it already; for the others an invariant of its own (`SyncTypes`, `LlmTypes`,
    `EventTypes`, `DeliveryTypes`, `AccessTypes`, `ApiTypes`; `ToolCalls`' own `TypeOK`) joins them.
    Most of it is bookkeeping; what is not: the broker's queue and the busy workers together never
    exceed `MaxTasks`, a source's failures never exceed `SYNC_MAX_FAILURES` although a worker
    writes a count it loaded before, and the parser of a payload yields messages with an id and a
    sender only, by induction over the payload. The attempt to prove it corrected a bound of
    `LlmClient`, which had been false when no attempt is allowed.

The lemmas about data (`trim`'s walk, the sums of a report, the loop over a page, the parser of a
payload) are inductions over numbers. The rules of the library for that take an operator, which the
provers cannot instantiate, so `Induction` states the principle for a set, from the well-foundedness
of `<` on the naturals, and each of those lemmas uses it for the set of numbers that it is about.
`Walk`, `Taken`, `Parsed` and the sums are recursive functions for the same reason.

Only model-checked: the liveness properties, which are out of the prover's reach: `EveryTurnEnds`,
`QueuedMessagesSettle`, `EveryRequestEnds`, `ScheduledIsPulled`.

## Where the code and its documentation disagree

Each of these is a run that fails on purpose; `PROJECT.json` quotes the sentence it contradicts.

1. `NoReplyAfterTheEnd`: the session's status is checked before the wait for the lock, so a second
   message is answered by the model in a conversation the first one has handed to a person.
2. `PromptCoversHistory`: the turn that folds rows into the summary has built its system prompt with
   the previous summary; those rows are in neither part of its prompt. `OnlyWhatIsBeingFoldedIsMissing`
   shows that nothing else is ever missing.
3. `InvokeNeverRaises`: two turns that call two tools in opposite orders deadlock on the tool rows, and
   one turn fails.
4. `AtMostOneReply`: a worker that fails between the provider's answer and its commit leaves the row
   `received`, and the next run replies again. `RepliesRepeatOnlyAfterAFault` shows that this is the
   only way.
5. `EveryClaimSettles`: a claim whose `enqueue` failed is not found by any sweep.
6. `EveryRecordOnce` (a bug in the code): with offset pagination, the next offset counts the records
   *kept*, not those seen, so an endpoint with a record without content has records fetched and kept
   twice. The style `link` is never paged at all.

Seen while modelling, without a run of their own:

* `open_session` can reach its `RuntimeError`: the session that made its insert conflict may end
  before the second select. The comment (`conversations/domain/repositories.py:83`) says that the
  insert or the conflicting row guarantees one. `RaiseNoSession` models it.
* A round that uses up the budget exactly is followed by no notice: if the model asks again it is cut
  off (`tool_loop.py:176`), which the docstring (`tool_loop.py:10`) denies. `GoesOn` models it.
* When a follow-up completion fails, the REST caller's rollback takes the `tool_call` rows with it,
  although the comment at `tool_loop.py:167` says they are still recorded.
* `consecutive_failures` is computed from the value loaded before the HTTP call, so overlapping turns
  lose counts; and a success that had read zero writes nothing and resets nothing.
  `CountsOnlyLoggedFailures` is what remains true.
* A pool process killed by the hard limit has its task acknowledged, since
  `task_reject_on_worker_lost` is not set; the comment at `core/queue.py:64` says that a task that dies
  with its worker comes back. This is the behaviour of the library, so it is a modelled step (`Kill`)
  and an exception of `QueuedMessagesSettle`, not a finding.

* The second choice of a model call is sent the request of the first, with the first vendor's model
  name (`registry.py:83`): a healthy second choice refuses it, where
  `test_errors_and_retry.py` says that the tenant gets an answer from it. `SecondChoiceAnswers` of
  `LlmClient` states it, and TLC refutes it. The adapter of Gemini leaves timeouts and lost
  connections of its transport untranslated, so `verify_key`, which "raises nothing a caller has to
  catch", may raise. A stream that fails or is left books no usage, whatever was reported; the
  streamed fallback is tried once, although the docstring of `stream` says that it has the same retry
  budget; `LLM_MAX_ATTEMPTS` 0 is an error for a buffered call and one attempt for a streamed one.
* A report's statements each see what is committed when they run: while traffic arrives its totals do
  not add up, which is what the docstring of `AnalyticsService.report` gives as the reason for making
  one call of them. `ReportsAddUp` is about reports that nothing was committed between.
* `escalation_rate` is documented as "from 0 to 1" (`dtos/analytics.py:89`), but counts the escalations of a
  window over the conversations started in it: one that was started before makes it more than 1
  (`RatesAreRatios`). `by_channel` counts all conversations of a channel, not those of the window.
* The MCP tool `get_tool_policy` asks for the read scope and inserts a policy when there is none
  (`ReadTokensChangeNothing`, refuted; `ReadersOnlyRead` is what is left of it).
  `set_web_allowed_origins` reads, merges and writes the settings of a channel and may lose another
  change of them.
* `handle_inbound` "Never raises" (`whatsapp/domain/services.py:304`), but a download that breaks off
  raises an error of the HTTP client, which `_readable` lets through, and after a deadlock its own
  UPDATE of the status fails: the webhook answers 500, Meta sends all messages of the delivery again,
  and those that had been answered are answered again (`lost` in `DeliveriesAreSafe`).
* Disconnecting WhatsApp deletes the message log by the cascade of its foreign key, although the
  endpoint says that it is kept. A refused outbound message leaves a record only where the caller
  commits; through the API the roll-back takes it along. A late `sent` sets the status back, but no
  stamp is ever lost (`StampsStay`).
* `add_api_source` leaves `next_sync_at` null, so if its first enqueue is lost no sweep finds the
  source, which `queue.py:115` counts on. `ScheduledIsPulled` excepts it. A sync that failed leaves
  `byte_size` 0, and a following unchanged one makes the source ready without measuring it again. The
  quotas are checked on totals read before the insert.
* `_share_of` says that nothing is starved; with six bases and `KB_KEYWORD_TOP_N` 20 five of them may
  take every slot. `NothingIsStarved` excepts scopes whose shares use up the limit.
* Two changes of a password that overlap both verify the old one; a log-in that overlaps a change
  leaves a session with the old password; purge and revocation may deadlock; a refresh does not check
  that the account is enabled.
* The stamp of `last_used_at` keeps the row of an API key locked for the whole turn: visitors of one key
  wait for each other's model calls. Deletion of an agent or a tenant may deadlock with a turn.
* Events are posted before the commit: a tenant may hear of a conversation that is rolled back, or twice
  of one. A conversation is not announced if the one found before had ended meanwhile.
* Tool calls: a `POST` whose answer was lost is sent again; a cached answer is served after the tool or
  its allowlist changed, until its time is up; a cached null is taken for a miss; putting a present key
  into a full cache evicts another one.
* An edit that removes the persona may overlap a publish, which leaves an incomplete agent published;
  two agents may take one name, which no index prevents.

## What is not modelled

* Text: the wording of prompts, guardrail matching, parsing, fencing, HTTP. A message is one of the
  three classes the guardrails tell apart.
* In `ConversationTurns`: that an agent is unpublished during a turn, events emitted to webhooks,
  citations, the model's latency, isolation below the level of a statement.
* In `WhatsAppInbound`: deliveries of several messages, which are in `WhatsAppDeliveries`; whether
  `send` sends is a choice; a broker that fails between the publication of a retry and the acknowledgement
  of the old task (one step here). Meta's redelivery of a failed request is another handler.
* In `ToolTurns`: changes of tools, the HTTP executor and the response cache, which are in `ToolCalls`
  (an answer from the cache is an `unsent` call).
* In `WhatsAppInbound`: receipts and the window, which are in `WhatsAppOutbound`. In
  `WhatsAppDeliveries`: redis mode, and receipts of a status nobody knows, which change nothing.
* In `ManagementApi`: contents of rows, filters, pages, payload validation (a payload may be refused at
  any point: `Refuse`), and more than one request with its effects at a time. The files of a source.
* Sizes and storage quotas of sources, redaction, the search ranking of PostgreSQL, extraction of
  documents; payloads of the model vendors and what is sent to the Meta API; how signatures and
  encryption are computed; sign-up.
* That the components of `MCPlatform` run at the same time: they meet only in rows that the module of
  each already lets others change.
* Components listed as `not_modelled` in `PROJECT.json` are planned below, or hold no state worth a
  model: request and response shapes, reports, parsers, HTTP clients, configuration, migrations,
  scripts.

## Plan

What is left, the most important first:

1. The storage quotas of `KnowledgeSync`, with a bound on how far two overlapping uploads exceed them.
2. Sign-up and the provisioning of accounts.
