---------------------------- MODULE ConnectorPull ----------------------------
(***************************************************************************)
(* One pull of a REST connector: the pages it walks of an endpoint whose   *)
(* records may change between them                                         *)
(* (src/src/modules/knowledge_base/internal/connectors/rest.py: fetch).    *)
(*                                                                         *)
(* A record is its id; those in Blank have no content field and are        *)
(* skipped.  The endpoint is an API that does what the pagination style    *)
(* says: it serves pages by number, by offset or by cursor, the first page *)
(* to a request without parameters, and everything at once when the style  *)
(* is none.                                                                *)
(***************************************************************************)
EXTENDS Naturals, Sequences, SequencesExt

CONSTANTS
  Records,     \* records the endpoint may have, numbered
  PageSize,    \* pageSize, of the connector and of the endpoint
  MaxPages,    \* SYNC_MAX_PAGES
  MaxRecords,  \* SYNC_MAX_RECORDS
  MaxLength,   \* bound: records the endpoint has
  MaxChanges   \* bound: changes of the endpoint during a pull

PullAssumption ==
  /\ 1..MaxLength \subseteq Records
  /\ {PageSize, MaxPages, MaxRecords} \subseteq Nat \ {0}
  /\ {MaxLength, MaxChanges} \subseteq Nat

Styles == {"none", "page", "offset", "cursor", "link"}

VARIABLES
  style,     \* PaginationStyle
  endpoint,  \* the records the endpoint has, in its order
  blank,     \* those of them the field mapping finds nothing in
  pull,      \* records taken, pages fetched, the cursor and the next step
  changed    \* changes of the endpoint since the pull began

vars == <<style, endpoint, blank, pull, changed>>

Init ==
  /\ style \in Styles
  /\ endpoint \in {[i \in 1..n |-> i] : n \in 0..MaxLength}
  /\ blank \in SUBSET Records
  /\ pull = [pc |-> "fetch", records |-> <<>>, pages |-> 0, cursor |-> 0,
             truncated |-> FALSE]
  /\ changed = 0

-----------------------------------------------------------------------------
(* The endpoint's answer to a request for what follows its first n records.*)
From(n) == SubSeq(endpoint, n + 1, Min({n + PageSize, Len(endpoint)}))

(* Mutant: pages are numbered from none.                                   *)
PageAsked_FromZero == pull.pages

PageAsked == pull.pages + 1

(* _page_params: the page after those fetched, the offset after the        *)
(* records taken, the cursor once there is one; nothing otherwise.  Page   *)
(* zero is page one to the endpoint.                                       *)
Page ==
  CASE style = "none" -> endpoint
    [] style = "page" -> From((IF PageAsked = 0 THEN 0 ELSE PageAsked - 1) * PageSize)
    [] style = "offset" -> From(Len(pull.records))
    [] style = "cursor" -> From(pull.cursor)
    [] style = "link" -> From(0)

(* _next_cursor: the endpoint gives one while there is more.               *)
next_cursor ==
  IF pull.cursor + PageSize < Len(endpoint) THEN pull.cursor + PageSize ELSE 0

Full(records) == Len(records) >= MaxRecords

(* The loop over the records of a page: _to_record finds nothing in some,  *)
(* and the record that fills the bound is the last.                        *)
Taken(page) ==
  LET taken[n \in 0..Len(page)] ==
        IF n = 0 THEN pull.records
        ELSE IF Full(taken[n - 1]) \/ page[n] \in blank THEN taken[n - 1]
        ELSE Append(taken[n - 1], page[n])
  IN taken[Len(page)]

Ended == [pull EXCEPT !.pc = "done", !.pages = @ + 1]

(* One page: an empty one, the bound on records and a style or a cursor    *)
(* with no next page end the walk, and so does the bound on pages.         *)
Fetch ==
  /\ pull.pc = "fetch" /\ pull.pages < MaxPages
  /\ LET records == Taken(Page)
         next == IF style = "cursor" THEN next_cursor ELSE 0
     IN  pull' =
           IF Page = <<>> THEN Ended
           ELSE IF Full(records)
           THEN [Ended EXCEPT !.records = records, !.truncated = TRUE]
           ELSE IF style = "none" \/ (style = "cursor" /\ next = 0)
           THEN [Ended EXCEPT !.records = records]
           ELSE [Ended EXCEPT !.pc = "fetch", !.records = records, !.cursor = next]
  /\ UNCHANGED <<style, endpoint, blank, changed>>

Truncate ==
  /\ pull.pc = "fetch" /\ pull.pages = MaxPages
  /\ pull' = [pull EXCEPT !.pc = "done", !.truncated = TRUE]
  /\ UNCHANGED <<style, endpoint, blank, changed>>

(* ConnectorError: nothing of the pull is kept.                            *)
Raise ==
  /\ pull.pc = "fetch"
  /\ pull' = [pull EXCEPT !.pc = "failed", !.records = <<>>]
  /\ UNCHANGED <<style, endpoint, blank, changed>>

(* A record appears in front, or one goes.                                 *)
Change ==
  /\ pull.pc = "fetch" /\ changed < MaxChanges
  /\ \/ \E r \in Records \ Range(endpoint) : endpoint' = <<r>> \o endpoint
     \/ \E i \in DOMAIN endpoint : endpoint' = RemoveAt(endpoint, i)
  /\ changed' = changed + 1
  /\ UNCHANGED <<style, blank, pull>>

Finished == pull.pc \in {"done", "failed"} /\ UNCHANGED vars

Step == Fetch \/ Truncate \/ Raise

Next == Step \/ Change \/ Finished

Spec == Init /\ [][Next]_vars /\ WF_vars(Fetch \/ Truncate)

-----------------------------------------------------------------------------
TypeOK ==
  /\ style \in Styles
  /\ endpoint \in Seq(Records)
  /\ blank \subseteq Records
  /\ pull.pc \in {"fetch", "done", "failed"}
  /\ pull.records \in Seq(Records)
  /\ {pull.pages, pull.cursor, changed} \subseteq Nat
  /\ pull.truncated \in BOOLEAN

(* However the endpoint answers, a pull stays within both bounds.          *)
PullIsBounded == Len(pull.records) <= MaxRecords /\ pull.pages <= MaxPages

(* Of the first n records of the endpoint, those with content.             *)
Indexed ==
  LET indexed[n \in 0..Len(endpoint)] ==
        IF n = 0 THEN <<>>
        ELSE IF endpoint[n] \in blank THEN indexed[n - 1]
        ELSE Append(indexed[n - 1], endpoint[n])
  IN indexed

Indexable == Indexed[Len(endpoint)]

Undisturbed == pull.pc = "done" /\ changed = 0

(* A pull that does not say it was truncated has every record once and in  *)
(* order, and one that does begins like that, if the endpoint stood still: *)
(* by number, by cursor, all at once, and by offset while no record is     *)
(* blank.                                                                  *)
UntruncatedIsWhole ==
  Undisturbed /\ style # "link" /\ (style = "offset" => blank = {}) =>
    IF pull.truncated THEN IsPrefix(pull.records, Indexable)
    ELSE pull.records = Indexable

(* fetch: "Walk the endpoint's pages and return every record it yields."   *)
(* Whatever the style, a pull of what fits the bounds has every record     *)
(* once.                                                                   *)
EveryRecordOnce ==
  Undisturbed /\ Len(endpoint) < MaxRecords /\ Len(endpoint) <= (MaxPages - 1) * PageSize =>
    pull.records = Indexable

-----------------------------------------------------------------------------
(* The inductive invariant: what a pull of an endpoint that stands still   *)
(* has taken is what is indexable of the records before the next page.     *)
Pull ==
  [pc : {"fetch", "done", "failed"}, records : Seq(Records), pages : 0..MaxPages,
   cursor : Nat, truncated : BOOLEAN]

PullTypes ==
  /\ style \in Styles
  /\ endpoint \in Seq(Records)
  /\ blank \subseteq Records
  /\ pull \in Pull
  /\ changed \in Nat

(* Where the next page begins.                                             *)
Reached ==
  CASE style = "none" -> 0
    [] style = "page" -> Min({pull.pages * PageSize, Len(endpoint)})
    [] style = "offset" -> Len(pull.records)
    [] style = "cursor" -> pull.cursor

Walks ==
  /\ pull.pc = "fetch" =>
       Reached \in 0..Len(endpoint) /\ pull.records = Indexed[Reached]
  /\ pull.pc = "done" =>
       IF pull.truncated THEN \E n \in 0..Len(endpoint) : pull.records = Indexed[n]
       ELSE pull.records = Indexed[Len(endpoint)]

PullInv ==
  /\ PullTypes
  /\ Len(pull.records) <= MaxRecords
  /\ pull.pc = "fetch" => ~Full(pull.records) /\ ~pull.truncated
  /\ changed = 0 /\ style # "link" /\ (style = "offset" => blank = {}) => Walks
=============================================================================
