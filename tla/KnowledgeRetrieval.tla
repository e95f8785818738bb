-------------------------- MODULE KnowledgeRetrieval --------------------------
(***************************************************************************)
(* One retrieval: which knowledge bases are asked, whether their texts are *)
(* injected whole or searched, the passes of the search, the share of each *)
(* base and the relevance threshold, while sources and settings change     *)
(* (src/src/modules/knowledge_base: KnowledgeBaseService.retrieve,         *)
(* KbSourceRepository.search and internal/retrieval).                      *)
(*                                                                         *)
(* Every read is a statement of its own and sees what is committed when it *)
(* begins.  A text is its size and the ranks the query as written and the  *)
(* widened one find it with; 0 is no match, and no text has size 0.        *)
(***************************************************************************)
EXTENDS Naturals, FiniteSets, FiniteSetsExt

CONSTANTS
  Sources,    \* sources, numbered by created_at
  Bases,      \* knowledge bases of the tenant
  BaseOf,     \* source -> its knowledge base
  Texts,      \* [size, narrow, wide]: texts a source may have
  Limit,      \* KB_KEYWORD_TOP_N
  MinRank,    \* KB_KEYWORD_MIN_RANK
  Floor,      \* 1 / Floor is KB_KEYWORD_RELATIVE_FLOOR
  Budget,     \* injection_budget
  MaxChanges  \* bound: changes made by others

NoText == [size |-> 0, narrow |-> 0, wide |-> 0]
Tiers == {"auto", "direct", "keyword"}
Wordings == {"narrow", "wide"}

RetrievalAssumption ==
  /\ Sources \subseteq Nat /\ IsFiniteSet(Sources)
  /\ BaseOf \in [Sources -> Bases] /\ IsFiniteSet(Bases)
  /\ \A t \in Texts : {t.size, t.narrow, t.wide} \subseteq Nat /\ t.size > 0
  /\ {Limit, Floor, MinRank} \subseteq Nat \ {0}
  /\ {Budget, MaxChanges} \subseteq Nat

VARIABLES
  tier,      \* knowledge base -> its retrieval_tier
  attached,  \* knowledge bases attached to the agent
  text,      \* source -> its text, if it is ready
  words,     \* whether the query has several words, so that it can be widened
  call,      \* the retrieval: next statement, what it read and its result
  changes    \* changes made by others

vars == <<tier, attached, text, words, call, changes>>

Init ==
  /\ tier \in [Bases -> Tiers]
  /\ attached \in {{}, Bases}
  /\ text \in [Sources -> Texts \cup {NoText}]
  /\ words \in BOOLEAN
  /\ call = [pc |-> "unsent"]
  /\ changes = 0

World == <<tier, attached, text, words, changes>>
At(pc) == call.pc = pc

(* A result: the tier it came by and the sources of its passages.          *)
Return(how, passages, wording) ==
  call' = [pc |-> "done", tier |-> how, passages |-> passages,
           wording |-> wording, scope |-> call.scope, since |-> call.since]

-----------------------------------------------------------------------------
(* The setting of bases that disagree.                                     *)
Configured(tiers) ==
  IF "keyword" \in tiers THEN "keyword"
  ELSE IF tiers = {"direct"} THEN "direct" ELSE "auto"

(* _retrieval_scope: one knowledge base, or those of the agent.            *)
Scope(scope) ==
  /\ At("unsent")
  /\ call' = IF scope = {}
             THEN [pc |-> "done", tier |-> "direct", passages |-> {},
                   wording |-> "narrow", scope |-> {}, since |-> changes]
             ELSE [pc |-> "weigh", scope |-> scope, since |-> changes,
                   configured |-> Configured({tier[b] : b \in scope})]
  /\ UNCHANGED World

Ask == Scope(attached) \/ \E b \in Bases : Scope({b})

Ready == {s \in Sources : text[s].size > 0 /\ BaseOf[s] \in call.scope}

SizeOf(texts, sources) == MapThenSumSet(LAMBDA s : texts[s].size, sources)

total_characters == SizeOf(text, Ready)

choose_tier(configured, total) ==
  IF configured # "auto" THEN configured
  ELSE IF total <= Budget THEN "direct" ELSE "keyword"

Weigh ==
  /\ At("weigh")
  /\ call' = [call EXCEPT !.pc = choose_tier(call.configured, total_characters)]
  /\ UNCHANGED World

(* ready_for_kbs and retrieve_direct.                                      *)
Inject == At("direct") /\ Return("direct", Ready, "narrow") /\ UNCHANGED World

-----------------------------------------------------------------------------
(* Mutant: the best of all bases take every slot.                          *)
share_of_Flat(limit, n) == limit

(* An even split, rounded up.                                              *)
share_of(limit, n) == IF n <= 1 THEN limit ELSE (limit + n - 1) \div n

Matching(q) == {s \in Ready : text[s][q] > 0}

(* The better rank, or the same and the older source.                      *)
Before(s, t, q) ==
  \/ text[s][q] > text[t][q]
  \/ text[s][q] = text[t][q] /\ s < t

Ahead(s, among, q) == Cardinality({t \in among : Before(t, s, q)})

(* _search: the best of each base up to its share, and of those the best   *)
(* up to the limit.                                                        *)
Rows(q) ==
  LET shared == {s \in Matching(q) :
        Ahead(s, {t \in Matching(q) : BaseOf[t] = BaseOf[s]}, q)
          < share_of(Limit, Cardinality(call.scope))}
  IN  {s \in shared : Ahead(s, shared, q) < Limit}

(* retrieve_keyword: what clears both floors, the relative one within its  *)
(* base.                                                                   *)
Kept(rows, q) ==
  {s \in rows : /\ text[s][q] >= MinRank
                /\ \A t \in rows : BaseOf[t] = BaseOf[s] =>
                                     text[s][q] * Floor >= text[t][q]}

(* Whether retrieve asks again although the search found rows.             *)
Widens(rows) == words

Judge(rows, q, again) ==
  IF Kept(rows, q) = {} /\ again /\ Widens(rows)
  THEN call' = [call EXCEPT !.pc = "again"]
  ELSE Return("keyword", Kept(rows, q), q)

(* search with the query as it is written; with no rows at all it is       *)
(* widened at once.                                                        *)
Search ==
  /\ At("keyword")
  /\ IF Rows("narrow") = {} /\ words
     THEN call' = [call EXCEPT !.pc = "widened"]
     ELSE Judge(Rows("narrow"), "narrow", TRUE)
  /\ UNCHANGED World

SearchWidened ==
  /\ At("widened")
  /\ Judge(Rows("wide"), "wide", TRUE)
  /\ UNCHANGED World

(* search with the widened query, which widens to itself.                  *)
SearchAgain ==
  /\ At("again")
  /\ IF Rows("wide") = {}
     THEN call' = [call EXCEPT !.pc = "last"]
     ELSE Judge(Rows("wide"), "wide", FALSE)
  /\ UNCHANGED World

SearchLast ==
  /\ At("last")
  /\ Judge(Rows("wide"), "wide", FALSE)
  /\ UNCHANGED World

-----------------------------------------------------------------------------
Changing == changes < MaxChanges /\ ~At("done") /\ changes' = changes + 1

(* A source is stored, extracted anew, fails or is deleted.                *)
SetText(s) ==
  /\ Changing
  /\ \E t \in (Texts \cup {NoText}) \ {text[s]} : text' = [text EXCEPT ![s] = t]
  /\ UNCHANGED <<tier, attached, words, call>>

(* attach and detach.                                                      *)
Attach(b) ==
  /\ Changing
  /\ attached' = IF b \in attached THEN attached \ {b} ELSE attached \cup {b}
  /\ UNCHANGED <<tier, text, words, call>>

(* update, and delete, which takes the sources along.                      *)
SetTier(b) ==
  /\ Changing
  /\ \E t \in Tiers \ {tier[b]} : tier' = [tier EXCEPT ![b] = t]
  /\ UNCHANGED <<attached, text, words, call>>

DeleteBase(b) ==
  /\ Changing
  /\ attached' = attached \ {b}
  /\ text' = [s \in Sources |-> IF BaseOf[s] = b THEN NoText ELSE text[s]]
  /\ UNCHANGED <<tier, words, call>>

Retrieve == Ask \/ Weigh \/ Inject \/ Search \/ SearchWidened \/ SearchAgain \/ SearchLast

Finished == At("done") /\ UNCHANGED vars

Next ==
  \/ Retrieve
  \/ \E s \in Sources : SetText(s)
  \/ \E b \in Bases : Attach(b) \/ SetTier(b) \/ DeleteBase(b)
  \/ Finished

Spec == Init /\ [][Next]_vars /\ WF_vars(Retrieve)

-----------------------------------------------------------------------------
TypeOK ==
  /\ tier \in [Bases -> Tiers]
  /\ attached \subseteq Bases
  /\ text \in [Sources -> Texts \cup {NoText}]
  /\ words \in BOOLEAN
  /\ changes \in 0..MaxChanges
  /\ call.pc \in {"unsent", "weigh", "direct", "keyword", "widened", "again",
                  "last", "done"}
  /\ At("done") => call.tier \in {"direct", "keyword"} /\ call.passages \subseteq Sources

(* Nothing has changed since the retrieval began.                          *)
Undisturbed == At("done") /\ call.since = changes

(* What is injected whole fits the budget, unless every base is pinned to  *)
(* injection, and never holds a base that is pinned to search.             *)
InjectionFits ==
  Undisturbed /\ call.tier = "direct" =>
    /\ \A b \in call.scope : tier[b] # "keyword"
    /\ (\A b \in call.scope : tier[b] = "direct") \/ total_characters <= Budget

(* A base that holds something above the floor for the query that was      *)
(* answered is among the passages, as long as the shares of the others     *)
(* leave it a slot.                                                        *)
NothingIsStarved ==
  Undisturbed /\ call.tier = "keyword" /\ call.passages # {}
    /\ (Cardinality(call.scope) - 1) * ((Limit + Cardinality(call.scope) - 1)
                                          \div Cardinality(call.scope)) < Limit
  => \A b \in call.scope :
       (\E s \in Ready : BaseOf[s] = b /\ text[s][call.wording] >= MinRank) =>
         \E s \in call.passages : BaseOf[s] = b

(* A search that ends without context has nothing above the floor, not     *)
(* even for the widened query.                                             *)
SilenceIsHonest ==
  Undisturbed /\ call.tier = "keyword" /\ call.passages = {} =>
    \A s \in Ready : text[s][IF words THEN "wide" ELSE "narrow"] < MinRank

-----------------------------------------------------------------------------
(* The inductive invariant: what the statements that have run stand for,   *)
(* as long as nothing has changed since the first.                         *)
Running ==
  [pc : {"weigh", "direct", "keyword", "widened", "again", "last"},
   scope : (SUBSET Bases) \ {{}}, since : Nat, configured : Tiers]

Result ==
  [pc : {"done"}, tier : {"direct", "keyword"}, passages : SUBSET Sources,
   wording : Wordings, scope : SUBSET Bases, since : Nat]

CallTypes ==
  /\ tier \in [Bases -> Tiers]
  /\ attached \subseteq Bases
  /\ text \in [Sources -> Texts \cup {NoText}]
  /\ words \in BOOLEAN
  /\ changes \in 0..MaxChanges
  /\ call \in {[pc |-> "unsent"]} \cup Running \cup Result

Settings == Configured({tier[b] : b \in call.scope})

Injects == call.scope = {} \/ choose_tier(Settings, total_characters) = "direct"

(* What the next statement relies on.                                      *)
Relied ==
  /\ call \in Running => call.configured = Settings
  /\ At("direct") => Injects
  /\ At("done") /\ call.tier = "direct" => Injects
  /\ At("done") /\ call.tier = "keyword" =>
       \A q \in Wordings : call.wording = q => call.passages = Kept(Rows(q), q)

RetrievalInv ==
  /\ CallTypes
  /\ ~At("unsent") => call.since <= changes
  /\ At("widened") \/ At("again") \/ At("last") => words
  /\ At("done") /\ call.tier = "keyword" =>
       /\ call.scope # {}
       /\ ~words => call.wording = "narrow"
       /\ words /\ call.passages = {} => call.wording = "wide"
  /\ ~At("unsent") /\ call.since = changes => Relied
=============================================================================
