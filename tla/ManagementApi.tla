---------------------------- MODULE ManagementApi ----------------------------
(***************************************************************************)
(* One request of the management API, from the console with an access      *)
(* token or over /mcp with a personal access token, while others commit:   *)
(* who is let in, which tenant it is scoped to                             *)
(* (tenants/presentation/dependencies.py, mcp/presentation/mcp), which     *)
(* rows its handler looks up, and what it answers, makes, alters and       *)
(* removes.  What becomes of a row's contents is in the module of its      *)
(* component; here a row is where it belongs.                              *)
(*                                                                         *)
(* Narrowing a list further (by status, by page) is left out.              *)
(***************************************************************************)
EXTENDS Naturals, Sequences, FiniteSets

CONSTANTS
  Tenants,
  Home,       \* the tenant of the account that asks
  MaxChanges  \* bound: what others commit meanwhile

ApiAssumption == Home \in Tenants /\ MaxChanges \in Nat

(* The foreign keys, each of them ON DELETE CASCADE.  A kind without       *)
(* "tenant" has no column for it.                                          *)
Parents ==
  [tenant |-> {}, user |-> {"tenant"}, token |-> {"tenant", "user"},
   agent |-> {"tenant"}, version |-> {"agent"},
   kb |-> {"tenant"}, source |-> {"tenant", "kb"}, link |-> {"agent", "kb"},
   tool |-> {"tenant", "agent"}, policy |-> {"tenant", "agent"}, call |-> {"tool"},
   conversation |-> {"tenant", "agent"}, message |-> {"conversation"},
   key |-> {"tenant", "agent"}, webhook |-> {"tenant", "agent"},
   config |-> {"tenant", "agent"}, wa |-> {"tenant", "agent", "config"}]
Kinds == DOMAIN Parents
Scoped(kind) == "tenant" \in Parents[kind]

VARIABLES
  rows,     \* what is committed
  enabled,  \* the tenants that are active
  caller,   \* the account that asks: admin, password, what its token may
  call,     \* the request: how far it is, what it found, answered and wrote
  changes

vars == <<rows, enabled, caller, call, changes>>

(* A tenant has a row of each kind; Home has a second user, agent and      *)
(* knowledge base, and may yet lack what is made when it is first needed.  *)
Row(kind, t, n) ==
  [kind |-> kind, id |-> <<kind, t, n>>, tenant |-> t,
   of |-> {<<p, t, IF p = "tenant" THEN 0 ELSE n>> : p \in Parents[kind]}]
Twice == {"user", "token", "agent", "kb"}
Late == {"policy", "link", "config", "wa"}

Self == <<"user", Home, 0>>
Ids(rs) == {r.id : r \in rs}

-----------------------------------------------------------------------------
(* What a handler does: the rows its path names, the kinds it lists, the   *)
(* one of the rows found that it alters or removes, the kinds it makes and *)
(* those it makes unless the rows found have one, which it alters then.    *)
Read(looks) ==
  [looks |-> looks, lists |-> {}, alters |-> FALSE, removes |-> FALSE,
   makes |-> {}, ensures |-> {}]
List(looks, kinds) == [Read(looks) EXCEPT !.lists = kinds]
Change(looks) == [Read(looks) EXCEPT !.alters = TRUE]
Remove(looks) == [Read(looks) EXCEPT !.removes = TRUE]
Make(looks, kinds) == [Read(looks) EXCEPT !.makes = kinds]
Ensure(looks, kinds) == [Read(looks) EXCEPT !.ensures = kinds]

(* create, test_provider_key, list, get, update, delete; an edit leaves a  *)
(* snapshot.                                                               *)
EditAgent == [Change(<<"agent">>) EXCEPT !.makes = {"version"}]
AgentConfiguration ==
  {Make(<<>>, {"agent"}), Read(<<>>), List(<<>>, {"agent"}), Read(<<"agent">>),
   EditAgent, Remove(<<"agent">>)}
(* publish, pause, unpublish, list_versions, get_version, rollback.        *)
AgentHistory == {Change(<<"agent">>), List(<<"agent">>, {"version"}), EditAgent}
(* test_agent_model_key, delete_agent_model_key.                           *)
AgentModelKey == {Read(<<"agent">>), Change(<<"agent">>)}

(* create, list of a tenant's or an agent's, usage.                        *)
KnowledgeBases ==
  {Make(<<>>, {"kb"}), List(<<>>, {"kb"}), List(<<"agent">>, {"kb"}),
   List(<<>>, {"source"})}
(* explain for an agent or for one base.                                   *)
RetrievalExplained ==
  {List(<<"agent">>, {"kb", "source"}), List(<<"kb">>, {"source"})}
(* get, update, delete.                                                    *)
KnowledgeBase == {List(<<"kb">>, {"source", "link"}), Change(<<"kb">>), Remove(<<"kb">>)}
(* upload_file, add_url, add_manual, add_api.                              *)
SourcesAdded == {Make(<<"kb">>, {"source"})}
(* sync_now, set_sync_schedule, list, get, delete.                         *)
SourcesKept ==
  {Change(<<"kb", "source">>), List(<<"kb">>, {"source"}), Read(<<"kb", "source">>),
   Remove(<<"kb", "source">>)}
Attachments ==
  {List(<<"kb">>, {"link"}), Ensure(<<"kb", "agent">>, {"link"}),
   Remove(<<"kb", "agent", "link">>)}

(* create_tool makes the agent's policy with its first tool.               *)
MakeTool == [Make(<<"agent">>, {"tool"}) EXCEPT !.ensures = {"policy"}]
(* create, list, get, update, delete.                                      *)
ToolDefinitions ==
  {MakeTool, List(<<"agent">>, {"tool"}), Read(<<"tool">>), Change(<<"tool">>),
   Remove(<<"tool">>)}
(* try: the call is logged and the tool's health noted.                    *)
TryTool == [Change(<<"tool">>) EXCEPT !.makes = {"call"}]
ToolCallsMade == {TryTool, List(<<"tool">>, {"call"})}
(* get_tool_policy makes the policy that is not there; set_tool_policy.    *)
ToolPolicies == {Ensure(<<"agent">>, {"policy"})}

(* A preview message opens a conversation with its agent, or goes to one.  *)
Previews ==
  {Make(<<"agent">>, {"conversation", "message"}),
   [Change(<<"agent", "conversation">>) EXCEPT !.makes = {"message"}]}
(* list, get, transcript.                                                  *)
Transcripts ==
  {List(<<>>, {"conversation"}), List(<<"agent">>, {"conversation"}),
   List(<<"conversation">>, {"message"})}
(* escalate, close.                                                        *)
ConversationEnds == {Change(<<"conversation">>)}

(* The guide of an agent, with a key of it or without.                     *)
IntegrationGuides == {Read(<<"agent">>), Read(<<"agent", "key">>)}
(* configure_channel, list_channels.                                       *)
ChannelConfigs == {Ensure(<<"agent">>, {"config"}), List(<<"agent">>, {"config"})}
(* create for one agent or all, reveal, list; update and test, delete.     *)
WebhookEndpoints ==
  {Make(<<>>, {"webhook"}), Make(<<"agent">>, {"webhook"}), Read(<<"webhook">>),
   List(<<>>, {"webhook"})}
WebhookEdits == {Change(<<"webhook">>), Remove(<<"webhook">>)}
(* connect, get, disconnect.                                               *)
WhatsAppConnections ==
  {Ensure(<<"agent">>, {"config"}), Read(<<"agent", "config">>),
   Remove(<<"agent", "config">>)}
(* send, list, get_session_window.                                         *)
WhatsAppMessages ==
  {Make(<<"agent", "config">>, {"wa"}), List(<<"agent", "config">>, {"wa"})}

(* issue, list of a tenant's or an agent's, get and copy; update and       *)
(* revoke, delete.                                                         *)
ApiKeys ==
  {Make(<<"agent">>, {"key"}), List(<<>>, {"key"}), List(<<"agent">>, {"key"}),
   Read(<<"key">>)}
ApiKeyEdits == {Change(<<"key">>), Remove(<<"key">>)}
(* issue, list, get, copy, revoke, delete.                                 *)
PersonalTokens ==
  {Make(<<>>, {"token"}), List(<<>>, {"token"}), Read(<<"token">>),
   Change(<<"token">>), Remove(<<"token">>)}
(* me and get_tenant, update_me, rename_tenant, list_members.              *)
Account == {List(<<>>, {"tenant"}), Change(<<"tenant">>), List(<<>>, {"user"})}
Profile == {Change(<<"user">>)}
(* usage of a tenant or an agent, trace, failures.                         *)
Reports ==
  {List(<<>>, {"conversation", "message"}), List(<<"agent">>, {"conversation", "message"}),
   List(<<"conversation">>, {"message"}), List(<<>>, {"source", "webhook", "call", "wa"})}
(* list_tenants, read_tenant, find_by_email, set_tenant_status.            *)
Administration ==
  {List(<<>>, {"tenant", "user"}), List(<<"tenant">>, {"user", "agent", "conversation"}),
   List(<<"user">>, {"user"}), Change(<<"tenant">>)}
(* delete_tenant, read_overview.                                           *)
AdministrationWide ==
  {Remove(<<"tenant">>), List(<<>>, {"tenant", "user", "agent", "conversation", "message"})}

(* The tools of the MCP server, each behind the scope it asks for.         *)
AccountTools == {<<"read", List(<<>>, {"tenant"})>>}
AgentReadTools ==
  {<<"read", e>> : e \in {List(<<>>, {"agent"}), Read(<<"agent">>),
                          List(<<"agent">>, {"version"})}}
AgentWriteTools ==
  {<<"write", e>> : e \in {Make(<<>>, {"agent"}), EditAgent, Change(<<"agent">>)}}
ToolReadTools ==
  {<<"read", e>> : e \in {List(<<"agent">>, {"tool"}), Ensure(<<"agent">>, {"policy"}),
                          List(<<"tool">>, {"call"})}}
ToolWriteTools ==
  {<<"write", e>> : e \in {MakeTool, Change(<<"tool">>), Ensure(<<"agent">>, {"policy"}),
                           TryTool}}
ReportTools ==
  {<<"read", e>> : e \in {List(<<>>, {"conversation", "message"}),
                          List(<<"agent">>, {"conversation", "message"}),
                          List(<<>>, {"source", "webhook", "call", "wa"})}}
ChannelTools ==
  {<<"read", Read(<<"agent">>)>>, <<"read", List(<<"agent">>, {"config"})>>,
   <<"write", Ensure(<<"agent">>, {"config"})>>, <<"read", List(<<>>, {"key"})>>,
   <<"read", List(<<"agent">>, {"key"})>>}
ConversationTools ==
  {<<"read", e>> : e \in Transcripts} \cup {<<"write", e>> : e \in Previews}
KnowledgeReadTools ==
  {<<"read", e>> : e \in {List(<<>>, {"kb"}), List(<<"agent">>, {"kb"}),
                          List(<<"kb">>, {"source", "link"}), Read(<<"kb", "source">>)}
                         \cup RetrievalExplained}
KnowledgeWriteTools ==
  {<<"write", e>> : e \in {Make(<<>>, {"kb"}), Change(<<"kb">>), Remove(<<"kb">>),
                           Change(<<"kb", "source">>), Remove(<<"kb", "source">>)}
                          \cup SourcesAdded \cup (Attachments \ {List(<<"kb">>, {"link"})})}

(* Which door a handler is behind.                                         *)
Endpoints ==
  LET tenantHandlers ==
        UNION {AgentConfiguration, AgentHistory, AgentModelKey, KnowledgeBases,
               RetrievalExplained, KnowledgeBase, SourcesAdded, SourcesKept, Attachments,
               ToolDefinitions, ToolCallsMade, ToolPolicies, Previews, Transcripts,
               ConversationEnds, IntegrationGuides, ChannelConfigs, WebhookEndpoints, WebhookEdits,
               WhatsAppConnections, WhatsAppMessages, ApiKeys, ApiKeyEdits, Account, Reports}
      mcpTools ==
        UNION {AccountTools, AgentReadTools, AgentWriteTools, ToolReadTools, ToolWriteTools,
               ReportTools, ChannelTools, ConversationTools, KnowledgeReadTools,
               KnowledgeWriteTools}
  IN (({"tenant"} \X tenantHandlers) \cup ({"user"} \X (PersonalTokens \cup Profile)))
       \cup (({"admin"} \X (Administration \cup AdministrationWide)) \cup mcpTools)
Mcp == {"read", "write"}

-----------------------------------------------------------------------------
Nobody == "nobody"

(* An id that X-Tenant-Id may name: none, another tenant's, a deleted      *)
(* one's.                                                                  *)
Actings == {Nobody, "gone"} \cup (Tenants \ {Home})

(* Who may ask at a door: an administrator or not, one whose password is   *)
(* temporary, a tenant named, a personal access token's scopes.            *)
Askers(door) ==
  {c \in [admin : BOOLEAN, temporary : BOOLEAN,
          acting : IF door \in Mcp THEN {Nobody} ELSE Actings,
          scopes : IF door \in Mcp THEN {{"read"}, {"write"}} ELSE {{}}] :
     c.temporary => ~c.admin /\ c.acting = Nobody}

Named(kind) == (Tenants \X {0}) \cup (IF kind \in Twice THEN {<<Home, 1>>} ELSE {})

Init ==
  /\ \E late \in {{}, Late} :
       rows = ({Row(k, t, 0) : k \in Kinds, t \in Tenants} \ {Row(k, Home, 0) : k \in late})
                \cup {Row(k, Home, 1) : k \in Twice}
  /\ enabled = Tenants
  /\ \E endpoint \in Endpoints :
       /\ caller \in Askers(endpoint[1])
       /\ call = [pc |-> "sent", door |-> endpoint[1], handler |-> endpoint[2],
                  scope |-> Nobody, found |-> <<>>, seen |-> {}, wrote |-> {}]
  /\ changes = 0

Becomes(more) ==
  /\ call' = [f \in DOMAIN call |-> IF f \in DOMAIN more THEN more[f] ELSE call[f]]
  /\ UNCHANGED <<enabled, caller, changes>>
End(pc) == Becomes([pc |-> pc]) /\ UNCHANGED rows
At(pc) == call.pc = pc
HasEnded == call.pc \in {"refused", "missing", "failed", "done"}

(* AuthService.authenticate, and the door's own look at the password; for  *)
(* /mcp PersonalAccessTokenService.authenticate and the scope of the tool. *)
LetIn ==
  /\ Self \in Ids(rows)
  /\ caller.admin \/ Home \in enabled
  /\ ~caller.temporary
  /\ call.door \in Mcp => <<"token", Home, 0>> \in Ids(rows)
Allows(scopes) == call.door = "read" \/ "write" \in scopes

Authenticate ==
  /\ At("sent")
  /\ IF LetIn THEN End("known") ELSE End("refused")

(* Mutant: anybody may name a tenant.                                      *)
ScopeOf_Any ==
  CASE call.door \in {"user", "read", "write"} -> Home
    [] call.door = "admin" -> Nobody
    [] OTHER -> IF caller.acting = Nobody THEN Home ELSE caller.acting

(* get_current_tenant_id: the caller's own tenant, or the one an admin     *)
(* names; a token belongs to its user and tenant.                          *)
ScopeOf ==
  CASE call.door \in {"user", "read", "write"} -> Home
    [] call.door = "admin" -> Nobody
    [] OTHER -> IF caller.acting = Nobody \/ ~caller.admin THEN Home ELSE caller.acting

Resolve ==
  /\ At("known")
  /\ CASE call.door = "admin" /\ ~caller.admin -> End("refused")
       [] call.door \in Mcp /\ ~Allows(caller.scopes) -> End("refused")
       [] ScopeOf \notin {Home, Nobody} /\ <<"tenant", ScopeOf, 0>> \notin Ids(rows) ->
            End("missing")
       [] OTHER -> Becomes([pc |-> "scoped", scope |-> ScopeOf]) /\ UNCHANGED rows

-----------------------------------------------------------------------------
Found == {call.found[n] : n \in DOMAIN call.found}

(* A row found after one it may belong to has to belong to it.             *)
Under(r) == \A f \in Found : f.kind \in Parents[r.kind] => f.id \in r.of

(* The repositories of a tenant's rows; a user reaches only what is his;   *)
(* the administration is scoped to nobody.                                 *)
Reaches(r) ==
  CASE call.door = "admin" -> TRUE
    [] call.door = "user" -> Self \in r.of \cup {r.id}
    [] OTHER -> r.tenant = call.scope

Looking == At("scoped") /\ Len(call.found) < Len(call.handler.looks)
LookUp ==
  /\ Looking
  /\ LET kind == call.handler.looks[Len(call.found) + 1]
     IN \E name \in Named(kind) :
          LET r == {x \in rows : x.id = <<kind, name[1], name[2]>> /\ Reaches(x) /\ Under(x)}
          IN IF r = {} THEN End("missing")
             ELSE /\ Becomes([found |-> Append(call.found, CHOOSE x \in r : TRUE)])
                  /\ UNCHANGED rows

(* A kind without a tenant is read by the parent found, or joined to it.   *)
Listed ==
  {r \in rows : /\ r.kind \in call.handler.lists
                /\ Under(r)
                /\ \/ ~Scoped(r.kind) /\ \E f \in Found : f.kind \in Parents[r.kind]
                   \/ Reaches(r)}

(* What a new row refers to: the tenant, the user, the rows found and what *)
(* is made with it.                                                        *)
New(kind) ==
  LET refers == {<<"tenant", call.scope, 0>>, Self} \cup Ids(Found)
                  \cup {<<k, call.scope, 2>> : k \in call.handler.makes}
  IN [kind |-> kind, id |-> <<kind, call.scope, 2>>, tenant |-> call.scope,
      of |-> {id \in refers : id[1] \in Parents[kind]}]

Ensured(kind) == {r \in rows : r.kind = kind /\ Found # {} /\ Under(r)}
Made ==
  {New(k) : k \in call.handler.makes \cup {x \in call.handler.ensures : Ensured(x) = {}}}

(* ON DELETE CASCADE; references go three deep.                            *)
Swept(rs) == {r \in rs : r.of \subseteq Ids(rs)}
Without(id) == Swept(Swept(Swept({r \in rows : r.id # id})))

(* The handler's statements and the commit.  An UPDATE of a row that has   *)
(* gone and an INSERT under one fail; a DELETE of one is only warned of.   *)
Last == call.found[Len(call.found)]
Removed == IF call.handler.removes THEN rows \ Without(Last.id) ELSE {}
Altered ==
  (IF call.handler.alters THEN {Last} ELSE {}) \cup UNION {Ensured(k) : k \in call.handler.ensures}
Fails ==
  \/ call.handler.alters /\ Last.id \notin Ids(rows)
  \/ \E r \in Made : ~(r.of \subseteq Ids(rows \cup Made))

Serve ==
  /\ At("scoped") /\ ~Looking
  /\ IF Fails THEN End("failed")
     ELSE /\ rows' = (rows \ Removed) \cup Made
          /\ Becomes([pc |-> "done", wrote |-> Made \cup Altered \cup Removed,
                      seen |-> Listed \cup Found \cup Made \cup Altered \cup Removed])

(* The service refuses the payload or the state of the row, or another     *)
(* request got to a unique index first.                                    *)
Writes ==
  \/ call.handler.alters \/ call.handler.removes
  \/ call.handler.makes \cup call.handler.ensures # {}
Refuse == At("scoped") /\ ~Looking /\ Writes /\ End("refused")

(* Meanwhile: a row that matters to the request is removed, or a tenant    *)
(* is switched off.                                                        *)
Relevant ==
  Ids(Found) \cup {<<"tenant", t, 0>> : t \in Tenants} \cup {<<"token", Home, 0>>}
    \cup {<<"agent", Home, 0>>}
Disturb ==
  /\ ~HasEnded /\ changes < MaxChanges
  /\ \/ \E id \in Relevant : id \in Ids(rows) /\ rows' = Without(id) /\ UNCHANGED enabled
     \/ \E t \in enabled : enabled' = enabled \ {t} /\ UNCHANGED rows
  /\ changes' = changes + 1
  /\ UNCHANGED <<caller, call>>

Finished == HasEnded /\ UNCHANGED vars

Next == Authenticate \/ Resolve \/ LookUp \/ Serve \/ Refuse \/ Disturb \/ Finished

Spec == Init /\ [][Next]_vars

-----------------------------------------------------------------------------
TypeOK ==
  /\ \A r \in rows \cup Found \cup call.seen \cup call.wrote :
       r.kind \in Kinds /\ r.tenant \in Tenants /\ r.of \subseteq Kinds \X Tenants \X (0..2)
  /\ enabled \subseteq Tenants /\ call.scope \in Tenants \cup {Nobody}
  /\ changes \in 0..MaxChanges

(* What a request answers and writes is its account's tenant's, or the     *)
(* tenant's an administrator names; only the administration reaches over   *)
(* all; a personal access token is its owner's alone.                      *)
ScopeIsKept ==
  \A r \in call.seen :
    /\ \/ r.tenant = Home
       \/ caller.admin /\ call.door = "tenant" /\ r.tenant = caller.acting
       \/ caller.admin /\ call.door = "admin"
    /\ r.kind = "token" /\ ~call.handler.removes => Self \in r.of

(* A row refers to rows that are there and of its own tenant, however ids  *)
(* of tenants are mixed in a path and whatever is removed meanwhile.       *)
RowsFitTogether ==
  \A r \in rows : r.of \subseteq {x.id : x \in {y \in rows : y.tenant = r.tenant}}

(* A token that may only read changes nothing, but for the policy that     *)
(* reading it makes.                                                       *)
ReadersOnlyRead ==
  call.door \in Mcp /\ caller.scopes = {"read"} => \A r \in call.wrote : r.kind = "policy"

ApiIsScoped == ScopeIsKept /\ RowsFitTogether /\ ReadersOnlyRead

(* "it can change anything": no token without the write scope does.        *)
ReadTokensChangeNothing ==
  call.door \in Mcp /\ caller.scopes = {"read"} => call.wrote = {}

-----------------------------------------------------------------------------
(* Why ApiIsScoped holds: the invariant its proof rests on.                *)
RowIds == Kinds \X Tenants \X (0..2)
Rows == [kind : Kinds, id : RowIds, tenant : Tenants, of : SUBSET RowIds]

(* A row is named after its kind and tenant, and refers to its parents.    *)
Fits(r) ==
  /\ r.id[1] = r.kind /\ r.id[2] = r.tenant
  /\ \A i \in r.of : i[1] \in Parents[r.kind] /\ i[2] = r.tenant

RowsAreWhole == rows \subseteq Rows /\ \A r \in rows : Fits(r) /\ r.of \subseteq Ids(rows)

(* What every handler behind a door is like.                               *)
Handled(door, h) ==
  /\ h.looks \in Seq(Kinds) /\ h.makes \subseteq Kinds /\ h.ensures \subseteq Kinds
  /\ h.removes => h.makes = {} /\ h.ensures = {}
  /\ h.alters \/ h.removes => Len(h.looks) > 0
  /\ \A k \in h.ensures : \E n \in 1..Len(h.looks) : h.looks[n] \in Parents[k]
  /\ door # "user" => /\ "token" \notin h.lists \cup h.makes \cup h.ensures
                      /\ \A n \in 1..Len(h.looks) : h.looks[n] # "token"
  /\ door = "admin" => h.makes = {} /\ h.ensures = {}
  /\ door = "user" => h.ensures = {}
  /\ door = "read" => h.makes = {} /\ ~h.alters /\ ~h.removes /\ h.ensures \subseteq {"policy"}

(* The tenant a request is scoped to is one it may reach.                  *)
ScopeIsAllowed ==
  \/ call.door = "admin" /\ caller.admin
  \/ /\ call.door # "admin" /\ call.scope \in Tenants
     /\ call.door = "write" => "write" \in caller.scopes
     /\ \/ call.scope = Home
        \/ call.door = "tenant" /\ caller.admin /\ call.scope = caller.acting

(* What was found was reached, in the order of the path.                   *)
FoundAsAsked ==
  /\ call.found \in Seq(Rows) /\ Len(call.found) <= Len(call.handler.looks)
  /\ \A n \in 1..Len(call.found) :
       /\ Fits(call.found[n]) /\ call.found[n].kind = call.handler.looks[n]
       /\ call.door # "admin" => call.found[n].tenant = call.scope
       /\ call.found[n].kind = "token" => Self \in call.found[n].of

CallIsTyped ==
  /\ DOMAIN call = {"pc", "door", "handler", "scope", "found", "seen", "wrote"}
  /\ call.door \in {"tenant", "user", "admin", "read", "write"}
  /\ Handled(call.door, call.handler)

ApiInv ==
  /\ RowsAreWhole /\ CallIsTyped
  /\ call.pc \in {"sent", "known"} => call.found = <<>>
  /\ call.pc = "scoped" => ScopeIsAllowed /\ FoundAsAsked
  /\ call.pc # "done" => call.seen = {} /\ call.wrote = {}
  /\ ScopeIsKept /\ ReadersOnlyRead
=============================================================================
