----------------------------- MODULE MCPlatform -----------------------------
(***************************************************************************)
(* Components that share no state, checked side by side in one run: the    *)
(* initial state picks one of them, and only that one takes steps.  Their  *)
(* variables take the slots in turn; a slot a component does not use stays *)
(* empty.                                                                  *)
(***************************************************************************)
EXTENDS Naturals, Sequences, FiniteSets

CONSTANTS
  Agents, Requests, Configs, Complete, Keys, MaxVersion,
  Pulls, SyncTexts, TextOf, MaxTasks, MaxRequests, MaxFaults, MaxFailures,
  Sources, Bases, BaseOf, Texts, Limit, MinRank, Floor, Budget,
  Records, PageSize, MaxPages, MaxRecords, MaxLength,
  Processes, MaxLimit, MaxWindow, MaxOutages, MaxChanges,
  Messages, Conversations, MaxEnds,
  Sends, Webhooks, MaxReceipts, MaxMoves,
  Calls, Arguments, MaxEntries, MaxRetries, MaxTtl, MaxTime, MaxToolVersion,
  Old,
  MaxAttempts, MaxDeltas,
  Convs, ChannelOf, MaxDay, MaxTurns, MaxFailed, MaxSpan, Recent,
  Tenants, Home,
  Wamids, Contacts, Bodies, MaxPosts

VARIABLES
  part,  \* the component that runs
  v1, v2, v3, v4, v5, v6, v7, v8, v9, v10, v11, v12  \* its variables

vars == <<part, v1, v2, v3, v4, v5, v6, v7, v8, v9, v10, v11, v12>>
Empty == 0

(* Two pulls have the same text.                                           *)
PullText == [p \in Pulls |-> IF p = "q" THEN "t" ELSE "s"]

(* The third source is alone in its knowledge base.                        *)
SourceBase == [s \in Sources |-> IF s = 3 THEN "b2" ELSE "b1"]

(* Every conversation is on a channel of its own.                          *)
OwnChannel == [c \in Convs |-> c]

(* Found by the widened query only; found too weakly as written; found.    *)
SourceTexts ==
  {[size |-> 1, narrow |-> 0, wide |-> 2], [size |-> 1, narrow |-> 1, wide |-> 9],
   [size |-> 2, narrow |-> 9, wide |-> 9]}

(* Five messages of two contacts: a text and a photo; two of others, the   *)
(* contacts the other way round; the first two again, one of them twice;   *)
(* a sticker and something without an id; what is not for us.              *)
Said(m) == [id |-> m, from |-> IF m = 3 THEN "y" ELSE "x", type |-> "text",
            content |-> "words"]
Photo == [id |-> 2, from |-> "y", type |-> "image", content |-> "media"]
Sticker == [id |-> 5, from |-> "x", type |-> "sticker", content |-> "none"]
Nameless == [id |-> 0, from |-> "x", type |-> "text", content |-> "blank"]
Body(to, messages, statuses) ==
  [signed |-> TRUE, readable |-> TRUE, to |-> to, messages |-> messages,
   statuses |-> statuses]
Payloads ==
  {Body("us", <<Said(1), Photo>>, <<>>),
   Body("none", <<Said(3), Said(4)>>, <<"o1", "o2">>),
   Body("us", <<Photo, Said(1), Said(1)>>, <<>>),
   Body("us", <<Nameless, Sticker>>, <<"o2", "o1">>),
   Body("another", <<Said(1)>>, <<>>),
   [Body("us", <<>>, <<>>) EXCEPT !.signed = FALSE],
   [Body("us", <<>>, <<>>) EXCEPT !.readable = FALSE]}

A == INSTANCE AgentLifecycle WITH live <- v1, row <- v2, versions <- v3,
  lock <- v4, work <- v5
K == INSTANCE KnowledgeSync WITH kind <- v1, stored <- v2, source <- v3,
  holder <- v4, queued <- v5, worker <- v6, tenant <- v7, sweep <- v8,
  requests <- v9, faults <- v10, streak <- v11, stale <- v12,
  Texts <- SyncTexts, Workers <- Requests
R == INSTANCE KnowledgeRetrieval WITH tier <- v1, attached <- v2, text <- v3,
  words <- v4, call <- v5, changes <- v6
P == INSTANCE ConnectorPull WITH style <- v1, endpoint <- v2, blank <- v3,
  pull <- v4, changed <- v5
C == INSTANCE ChatAccess WITH shared <- v1, key <- v2, limit <- v3,
  serving <- v4, owner <- v5, holder <- v6, window <- v7, counts <- v8,
  caller <- v9, outages <- v10, changes <- v11, Callers <- Requests
E == INSTANCE ChannelEvents WITH status <- v1, opening <- v2, lock <- v3,
  message <- v4, sent <- v5, ends <- v6
W == INSTANCE WhatsAppOutbound WITH origin <- v1, template <- v2,
  connected <- v3, open <- v4, send <- v5, row <- v6, known <- v7,
  webhook <- v8, receipts <- v9, moves <- v10
T == INSTANCE ToolCalls WITH tool <- v1, entries <- v2, now <- v3,
  call <- v4, MaxVersion <- MaxToolVersion
L == INSTANCE LlmClient WITH mode <- v1, vendor <- v2, fallback <- v3,
  keyed <- v4, attempts <- v5, named <- v6, up <- v7, call <- v8
D == INSTANCE AnalyticsReport WITH today <- v1, conv <- v2, message <- v3,
  failed <- v4, report <- v5
M == INSTANCE ManagementApi WITH rows <- v1, enabled <- v2, caller <- v3,
  call <- v4, changes <- v5
V == INSTANCE WhatsAppDeliveries WITH channel <- v1, row <- v2, turns <- v3,
  replies <- v4, lost <- v5, hook <- v6, posts <- v7, Hooks <- Requests
U == INSTANCE UserSessions WITH stored <- v1, status <- v2, locked <- v3,
  account <- v4, work <- v5

ASSUME AgentsAssumed == A!AgentAssumption
ASSUME SyncAssumed == K!SyncAssumption
ASSUME RetrievalAssumed == R!RetrievalAssumption
ASSUME ConnectorAssumed == P!PullAssumption
ASSUME AccessAssumed == C!AccessAssumption
ASSUME ToolsAssumed == T!ToolAssumption
ASSUME EventsAssumed == E!EventAssumption
ASSUME LlmAssumed == L!LlmAssumption
ASSUME UsersAssumed == U!SessionAssumption
ASSUME AnalyticsAssumed == D!ReportAssumption
ASSUME ManagementAssumed == M!ApiAssumption
ASSUME DeliveriesAssumed == V!DeliveryAssumption

agents == part = "agents"
sync == part = "sync"
retrieval == part = "retrieval"
connector == part = "connector"
access == part = "access"
events == part = "events"
outbound == part = "outbound"
tools == part = "tools"
llm == part = "llm"
analytics == part = "analytics"
management == part = "management"
deliveries == part = "deliveries"
users == part = "users"

Init ==
  \/ /\ part = "agents" /\ A!Init
     /\ v6 = Empty /\ v7 = Empty /\ v8 = Empty /\ v9 = Empty /\ v10 = Empty
     /\ v11 = Empty /\ v12 = Empty
  \/ /\ part = "sync" /\ K!Init
  \/ /\ part = "retrieval" /\ R!Init
     /\ v7 = Empty /\ v8 = Empty /\ v9 = Empty /\ v10 = Empty /\ v11 = Empty
     /\ v12 = Empty
  \/ /\ part = "connector" /\ P!Init
     /\ v6 = Empty /\ v7 = Empty /\ v8 = Empty /\ v9 = Empty /\ v10 = Empty
     /\ v11 = Empty /\ v12 = Empty
  \/ /\ part = "access" /\ C!Init
     /\ v12 = Empty
  \/ /\ part = "events" /\ E!Init
     /\ v7 = Empty /\ v8 = Empty /\ v9 = Empty /\ v10 = Empty /\ v11 = Empty
     /\ v12 = Empty
  \/ /\ part = "outbound" /\ W!Init
     /\ v11 = Empty /\ v12 = Empty
  \/ /\ part = "tools" /\ T!Init
     /\ v5 = Empty /\ v6 = Empty /\ v7 = Empty /\ v8 = Empty /\ v9 = Empty
     /\ v10 = Empty /\ v11 = Empty /\ v12 = Empty
  \/ /\ part = "llm" /\ L!Init
     /\ v9 = Empty /\ v10 = Empty /\ v11 = Empty /\ v12 = Empty
  \/ /\ part = "analytics" /\ D!Init
     /\ v6 = Empty /\ v7 = Empty /\ v8 = Empty /\ v9 = Empty /\ v10 = Empty
     /\ v11 = Empty /\ v12 = Empty
  \/ /\ part = "management" /\ M!Init
     /\ v6 = Empty /\ v7 = Empty /\ v8 = Empty /\ v9 = Empty /\ v10 = Empty
     /\ v11 = Empty /\ v12 = Empty
  \/ /\ part = "deliveries" /\ V!Init
     /\ v8 = Empty /\ v9 = Empty /\ v10 = Empty /\ v11 = Empty /\ v12 = Empty
  \/ /\ part = "users" /\ U!Init
     /\ v6 = Empty /\ v7 = Empty /\ v8 = Empty /\ v9 = Empty /\ v10 = Empty
     /\ v11 = Empty /\ v12 = Empty

Only_agents == agents /\ UNCHANGED <<part, v6, v7, v8, v9, v10, v11, v12>>
Only_sync == sync /\ UNCHANGED <<part>>
Only_retrieval == retrieval /\ UNCHANGED <<part, v7, v8, v9, v10, v11, v12>>
Only_connector == connector /\ UNCHANGED <<part, v6, v7, v8, v9, v10, v11, v12>>
Only_access == access /\ UNCHANGED <<part, v12>>
Only_events == events /\ UNCHANGED <<part, v7, v8, v9, v10, v11, v12>>
Only_outbound == outbound /\ UNCHANGED <<part, v11, v12>>
Only_tools == tools /\ UNCHANGED <<part, v5, v6, v7, v8, v9, v10, v11, v12>>
Only_llm == llm /\ UNCHANGED <<part, v9, v10, v11, v12>>
Only_analytics == analytics /\ UNCHANGED <<part, v6, v7, v8, v9, v10, v11, v12>>
Only_management == management /\ UNCHANGED <<part, v6, v7, v8, v9, v10, v11, v12>>
Only_deliveries == deliveries /\ UNCHANGED <<part, v8, v9, v10, v11, v12>>
Only_users == users /\ UNCHANGED <<part, v6, v7, v8, v9, v10, v11, v12>>

Next ==
  \/ Only_agents /\ A!Next
  \/ Only_sync /\ K!Next
  \/ Only_retrieval /\ R!Next
  \/ Only_connector /\ P!Next
  \/ Only_access /\ C!Next
  \/ Only_events /\ E!Next
  \/ Only_outbound /\ W!Next
  \/ Only_tools /\ T!Next
  \/ Only_llm /\ L!Next
  \/ Only_analytics /\ D!Next
  \/ Only_management /\ M!Next
  \/ Only_deliveries /\ V!Next
  \/ Only_users /\ U!Next

(* What a request, a worker or a caller does next, once nothing blocks it, *)
(* and what the scheduler and the database do.                             *)
Turn(p) ==
  \/ Only_agents /\ A!Step(p)
  \/ Only_sync /\ K!Work(p)
  \/ Only_access /\ C!Statement(p)
  \/ Only_users /\ U!Statement(p)
  \/ Only_deliveries /\ V!Statement(p)
Background == (Only_sync /\ K!Beat) \/ (Only_access /\ C!Cascade)

Spec ==
  /\ Init /\ [][Next]_vars
  /\ \A p \in Requests : WF_vars(Turn(p))
  /\ WF_vars(Background)
  /\ WF_vars(Only_sync /\ K!CommitAdd) /\ WF_vars(Only_sync /\ K!SetSchedule)

-----------------------------------------------------------------------------
TypeOK ==
  /\ agents => A!TypeOK
  /\ sync => K!TypeOK
  /\ retrieval => R!TypeOK
  /\ connector => P!TypeOK
  /\ access => C!TypeOK
  /\ events => E!TypeOK
  /\ outbound => W!TypeOK
  /\ tools => T!TypeOK
  /\ llm => L!TypeOK
  /\ analytics => D!TypeOK
  /\ management => M!TypeOK
  /\ deliveries => V!TypeOK
  /\ users => U!TypeOK

-----------------------------------------------------------------------------
(* Agents.  The history is never rewritten and has one snapshot for every  *)
(* version that was superseded and none else, each the configuration that  *)
(* was current at it, whatever edits and roll-backs overlapped.            *)
HistoryIsFaithful ==
  [][agents => A!FaithfulStep /\ A!HistoryIsComplete']_vars

(* An edit or a roll-back that commits leaves the configuration it asked   *)
(* for and no status, and a publish, pause or unpublish nothing but the    *)
(* status, though both had read the row before either wrote it.            *)
NoEditIsLost == [][agents => A!EditStep /\ A!ApartStep]_vars

(* Syncs.  Text, cursor, failure count and next date of a source belong    *)
(* together, unless a sync worked with columns written since its load.     *)
UndisturbedSyncsAreExact == sync => K!UndisturbedSyncsAreExact

(* A source that retrieval may use, or whose next pull may be found        *)
(* unchanged, has a text, however syncs, retries and failures overlap.     *)
ReadyHasText == sync => K!ReadyHasText

(* A source with a schedule and a date is pulled again or loses its        *)
(* schedule, after failed syncs, lost enqueues, crashes and failed sweeps. *)
ScheduledIsPulled ==
  sync /\ K!Scheduled /\ K!HasDate ~> sync /\ (K!Pulling \/ ~K!Scheduled)

(* Retrieval.  What is injected whole fits the budget, unless every base   *)
(* is pinned to it, and holds no base that is pinned to search; a base     *)
(* with something above the floor is among the passages, while the shares  *)
(* of the others leave it a slot; and a search that returns nothing has    *)
(* nothing to return, not even for the widened query.                      *)
RetrievalIsSound ==
  retrieval => R!InjectionFits /\ R!NothingIsStarved /\ R!SilenceIsHonest

(* Connector.  A pull stays within SYNC_MAX_PAGES and SYNC_MAX_RECORDS,    *)
(* whatever the endpoint answers.  One that is not said to be truncated    *)
(* has every record of an endpoint that stood still; one that is said to   *)
(* be begins like that.                                                    *)
PullIsSound == connector => P!PullIsBounded /\ P!UntruncatedIsWhole

(* API keys.  One counter admits no more in a window than the limit its    *)
(* requests came with, however they overlap.                               *)
AllowanceHolds == access => C!AllowanceHolds

(* A turn is committed only while its agent, tenant and key are there,     *)
(* which it read long before.                                              *)
ServesTheLiving == [][access => C!ServesTheLivingStep]_vars

(* Channel events.  A conversation that a message opened is announced,     *)
(* unless the one it had found open ended before its turn; and one that a  *)
(* committed turn handed over is reported, also when the first message     *)
(* did it.                                                                 *)
EventsAreTold == events => E!StartIsTold /\ E!EscalationIsTold

(* Outbound WhatsApp messages.  Status, stamps and error of a row agree    *)
(* and say no more than came about, in whichever order receipts came, and  *)
(* a committed row was sent or has failed: nothing stays queued for good.  *)
LogIsConsistent == outbound => W!LogIsConsistent /\ W!NothingStaysQueued

(* No receipt takes back a stamp another one set, though both loaded the   *)
(* row before either wrote it.                                             *)
StampsStay == [][outbound => W!StampsStayStep]_vars

(* Deliveries of WhatsApp.  However messages share and repeat in payloads, *)
(* a message is committed with one turn at most, is answered again only    *)
(* after a transaction that had claimed it was rolled back, and a reply    *)
(* that has left is on record, unless that happened.                       *)
DeliveriesAreSafe == deliveries => V!DeliveriesAreSafe

(* Tool calls.  The cache keeps MAX_ENTRIES answers at most, and serves    *)
(* one to the same arguments and for less than a time to live, also when   *)
(* the tool or its policy has changed since; a call reaches the endpoint   *)
(* 1 + TOOLS_MAX_RETRIES times at most and waits out its timeout once.     *)
ToolCallsAreSound ==
  tools => T!CacheIsBounded /\ T!AnswersAreFresh /\ T!PatienceIsSpentOnce

(* Sign-ins.  Issuing a pair, changing the password and logging out end    *)
(* every sign-in committed before they began to revoke.                    *)
EarlierPairsEnd == users => U!EarlierPairsEnd

(* Language models.  What reaches the caller is one vendor's answer from   *)
(* its beginning, and what is booked is what that vendor reported, however *)
(* attempts, retries and the fallback follow each other.                   *)
AnswersAreWhole == llm => L!AnswersAreWhole

(* Analytics.  The parts of a report add up to its totals, if nothing was  *)
(* committed between its statements; adjacent windows share no message and *)
(* lose none; and the samples of failures are the newest ones.             *)
ReportsAddUp == analytics => D!ReportsAddUp

(* The management API.  A request answers and writes rows of the tenant it *)
(* is scoped to only, rows refer to rows of their own tenant, and a token  *)
(* that may only read changes nothing but for the policy that reading it   *)
(* makes, whatever is removed while it runs.                               *)
ApiIsScoped == management => M!ApiIsScoped

Begun(p) ==
  \/ agents /\ ~A!At(p, "unsent")
  \/ access /\ ~C!At(p, "unsent")
  \/ users /\ ~U!At(p, "unsent")
  \/ deliveries /\ V!Serving(p)
HasEnded(p) ==
  \/ agents /\ A!HasEnded(p)
  \/ access /\ C!HasEnded(p)
  \/ users /\ U!HasEnded(p)
  \/ deliveries /\ ~V!Serving(p)

(* Every request that has begun ends, at the agents, with an API key, to   *)
(* sign in and to deliver messages, though they come to wait for each      *)
(* other's locks.                                                          *)
EveryRequestEnds == \A p \in Requests : Begun(p) ~> HasEnded(p)
=============================================================================
