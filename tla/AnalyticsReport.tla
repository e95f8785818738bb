--------------------------- MODULE AnalyticsReport ---------------------------
(***************************************************************************)
(* The read model (src/src/modules/analytics): a usage report and a        *)
(* failure report, each a row of statements that read what is committed    *)
(* when they run, while conversations go on and things fail.               *)
(*                                                                         *)
(* Time is a number of days.  A provider's answer has one token and costs  *)
(* one, if its model has a price; the question and a reply that the        *)
(* guardrails wrote have no provider, token or cost.                       *)
(***************************************************************************)
EXTENDS Naturals, Sequences, FiniteSets, FiniteSetsExt

CONSTANTS
  Convs,      \* conversations
  ChannelOf,  \* conversation -> its channel
  MaxDay,     \* bound: days that pass
  MaxTurns,   \* bound: turns that are committed
  MaxFailed,  \* bound: failures that are recorded
  MaxSpan,    \* ANALYTICS_MAX_WINDOW_DAYS
  Recent      \* the number of samples asked for

ReportAssumption ==
  /\ ChannelOf \in [Convs -> {"web", "preview"}]
  /\ {MaxDay, MaxTurns, MaxFailed, MaxSpan, Recent} \subseteq Nat

Kinds == {"ingestion", "provider", "webhook", "channel", "tool"}
None == MaxDay + 1
Days == 0..MaxDay

VARIABLES
  today,
  conv,     \* conversation -> when it started and was escalated
  message,  \* the messages, in the order of their commits
  failed,   \* the rows that tell of a failure
  report    \* what was asked and what the statements found

vars == <<today, conv, message, failed, report>>

Asked == {"usage", "failures"}

Init ==
  /\ today = 0
  /\ conv = [c \in Convs |-> [started |-> None, escalated |-> None]]
  /\ message = <<>>
  /\ failed = {}
  /\ \E asked \in Asked, preview \in BOOLEAN :
       report = [pc |-> "unasked", asked |-> asked, preview |-> preview,
                 disturbed |-> FALSE]

(* Commits before a report and one between its statements; what comes      *)
(* after it is left out.                                                   *)
Disturb ==
  /\ report.pc \notin {"refused", "done"} /\ ~report.disturbed
  /\ report' = [report EXCEPT !.disturbed = report.pc # "unasked"]

-----------------------------------------------------------------------------
(* What answers a question: a model whose price is not known or known, one *)
(* that no passage was found for, a guardrail.                             *)
Replies == {"answer", "priced", "blind", "canned"}
Provided == {"answer", "priced", "blind"}

(* A turn commits the question and its reply, the first one of a           *)
(* conversation its row as well; a guardrail may hand it over.             *)
Turn(c) ==
  /\ report.asked = "usage" /\ Len(message) < 2 * MaxTurns
  /\ conv[c].escalated = None
  /\ \E reply \in Replies, hand \in BOOLEAN :
       /\ hand => reply = "canned"
       /\ message' = message \o <<[conv |-> c, day |-> today, kind |-> "question"],
                                  [conv |-> c, day |-> today, kind |-> reply]>>
       /\ conv' = [conv EXCEPT ![c].started = IF @ = None THEN today ELSE @,
                               ![c].escalated = IF hand THEN today ELSE @]
  /\ Disturb /\ UNCHANGED <<today, failed>>

(* A call, a message or a provider's error is a row of its own; a source   *)
(* or an endpoint has one row, which its last failure dates.               *)
Fail ==
  /\ report.asked = "failures" /\ Cardinality(failed) < MaxFailed
  /\ \E kind \in Kinds :
       LET one == kind \in {"ingestion", "webhook"}
           id == IF one THEN 0 ELSE Cardinality(failed)
       IN failed' = {f \in failed : ~(one /\ f.kind = kind)}
                      \cup {[kind |-> kind, id |-> id, day |-> today]}
  /\ Disturb /\ UNCHANGED <<today, conv, message>>

Recover ==
  /\ \E f \in failed : f.kind \in {"ingestion", "webhook"} /\ failed' = failed \ {f}
  /\ Disturb /\ UNCHANGED <<today, conv, message>>

Tick ==
  /\ report.pc = "unasked" /\ today < MaxDay
  /\ today' = today + 1
  /\ UNCHANGED <<conv, message, failed, report>>

-----------------------------------------------------------------------------
(* Mutant: a window that holds both its ends.                              *)
Within_Closed(day, w) == w.start <= day /\ day <= w.end

(* Half-open, so that a day belongs to one of two adjacent windows.        *)
Within(day, w) == w.start <= day /\ day < w.end

(* Preview traffic counts when it is asked for.                            *)
InScope(c) == report.preview \/ ChannelOf[c] # "preview"

In(w) == {n \in DOMAIN message :
            Within(message[n].day, w) /\ InScope(message[n].conv)}

Of(rows, kinds) == {n \in rows : message[n].kind \in kinds}

(* What a row of a chart says of its messages: how many there are, their   *)
(* tokens and their cost.                                                  *)
Point(rows) == [messages |-> Cardinality(rows), tokens |-> Cardinality(Of(rows, Provided)),
                cost |-> Cardinality(Of(rows, {"priced"}))]

-----------------------------------------------------------------------------
(* What is found joins what the report has.                                *)
With(found, record) ==
  [f \in DOMAIN found \cup DOMAIN record |->
     IF f \in DOMAIN found THEN found[f] ELSE record[f]]

(* resolve: a window without days or beyond the longest span is refused.   *)
Ask ==
  /\ report.pc = "unasked"
  /\ \E start, end \in 0..(MaxDay + 1) :
       report' =
         IF start >= end \/ end - start > MaxSpan THEN [report EXCEPT !.pc = "refused"]
         ELSE With([window |-> [start |-> start, end |-> end]],
                   [report EXCEPT !.pc = IF report.asked = "usage" THEN "counts"
                                         ELSE "counting"])
  /\ UNCHANGED <<today, conv, message, failed>>

(* One statement of the report, which finds what is committed by now.      *)
Finds(pc, next, found) ==
  /\ report.pc = pc
  /\ report' = With(found, [report EXCEPT !.pc = next])
  /\ UNCHANGED <<today, conv, message, failed>>

(* conversation_counts: each by when it happened.                          *)
Counts ==
  Finds("counts", "totals",
    [started |-> Cardinality({c \in Convs : InScope(c) /\ Within(conv[c].started, report.window)}),
     escalated |-> Cardinality({c \in Convs :
                      InScope(c) /\ Within(conv[c].escalated, report.window)})])

message_totals ==
  [totals |-> Point(In(report.window)),
   assistant |-> Cardinality(Of(In(report.window), Replies)),
   without_context |-> Cardinality(Of(In(report.window), {"blind"}))]

Totals == Finds("totals", "daily", message_totals)

(* Days without traffic are absent.                                        *)
daily ==
  [daily |-> [d \in {message[n].day : n \in In(report.window)} |->
                Point({n \in In(report.window) : message[n].day = d})]]

Daily == Finds("daily", "channels", daily)

Joined(channel) == {n \in In(report.window) : ChannelOf[message[n].conv] = channel}

(* The outer join counts every conversation of the channel there is.       *)
by_channel ==
  LET inScope == {c \in Convs : InScope(c) /\ conv[c].started # None}
  IN [channels |-> [channel \in {ChannelOf[c] : c \in inScope} |->
        [conversations |-> Cardinality({c \in inScope : ChannelOf[c] = channel}),
         messages |-> Cardinality(Joined(channel))]]]

ByChannel == Finds("channels", "models", by_channel)

(* Only a provider's answers have a model: here, one with and one without  *)
(* a price.                                                                *)
by_model ==
  LET Model(n) == message[n].kind = "priced"
      rows == Of(In(report.window), Provided)
  IN [models |-> [m \in {Model(n) : n \in rows} |-> Point({n \in rows : Model(n) = m})]]

ByModel == Finds("models", "done", by_model)

-----------------------------------------------------------------------------
Dated(kind, w) == {f \in failed : f.kind = kind /\ (kind = "webhook" \/ Within(f.day, w))}

(* failing, count_in and recent: an endpoint is counted for what it is     *)
(* now, and no more of them than samples are asked for.                    *)
count_in ==
  [counted |-> [k \in Kinds |->
     IF k = "webhook" THEN Min({Recent, Cardinality(Dated(k, report.window))})
     ELSE Cardinality(Dated(k, report.window))]]

Counting == Finds("counting", "sampling", count_in)

Newest(f, rows) == {g \in rows : g.day > f.day}

Samples(rows) ==
  {s \in SUBSET rows :
     /\ Cardinality(s) = Min({Recent, Cardinality(rows)})
     /\ \A f \in s : Newest(f, rows) \subseteq s}

Sampling ==
  /\ report.pc = "sampling"
  /\ \E sampled \in {x \in [Kinds -> SUBSET failed] :
                      \A k \in Kinds : x[k] \in Samples(Dated(k, report.window))} :
       Finds("sampling", "done", [recent |-> sampled])

Finished == report.pc \in {"refused", "done"} /\ UNCHANGED vars

Next ==
  \/ \E c \in Convs : Turn(c)
  \/ Fail \/ Recover \/ Tick
  \/ Ask \/ Counts \/ Totals \/ Daily \/ ByChannel \/ ByModel
  \/ Counting \/ Sampling
  \/ Finished

Spec == Init /\ [][Next]_vars

-----------------------------------------------------------------------------
TypeOK ==
  /\ today \in Days
  /\ \A c \in Convs : conv[c].started \in Days \cup {None}
                      /\ conv[c].escalated \in Days \cup {None}
  /\ \A n \in DOMAIN message : message[n].day \in Days /\ message[n].conv \in Convs
  /\ failed \subseteq [kind : Kinds, id : 0..MaxFailed, day : Days]

Over(points, field) == MapThenSumSet(LAMBDA k : points[k][field], DOMAIN points)

(* Totals, days, channels and models add up to each other, if nothing was  *)
(* committed between their statements.                                     *)
TotalsAddUp ==
  report.asked = "usage" /\ report.pc = "done" /\ ~report.disturbed =>
    /\ report.totals.messages = Over(report.daily, "messages")
    /\ report.totals.tokens = Over(report.daily, "tokens")
    /\ report.totals.cost = Over(report.daily, "cost")
    /\ report.totals.messages = Over(report.channels, "messages")
    /\ report.totals.tokens = Over(report.models, "tokens")
    /\ report.totals.cost = Over(report.models, "cost")
    /\ report.without_context <= report.assistant

(* Two adjacent windows hold what the window of both holds, each message   *)
(* once.                                                                   *)
WindowsPartition ==
  report.pc = "done" =>
    \A cut \in (report.window.start + 1)..(report.window.end - 1) :
      LET first == [report.window EXCEPT !.end = cut]
          second == [report.window EXCEPT !.start = cut]
      IN /\ In(first) \cap In(second) = {}
         /\ In(first) \cup In(second) = In(report.window)

(* The samples of a kind are its newest failures, and as many as were      *)
(* counted, up to the number asked for.                                    *)
SamplesAreTheNewest ==
  report.asked = "failures" /\ report.pc = "done" /\ ~report.disturbed =>
    \A k \in Kinds :
      /\ Cardinality(report.recent[k]) = Min({Recent, report.counted[k]})
      /\ \A f \in report.recent[k], g \in Dated(k, report.window) :
           g.day > f.day => g \in report.recent[k]

ReportsAddUp == TotalsAddUp /\ WindowsPartition /\ SamplesAreTheNewest

(* "escalated / conversations, from 0 to 1".                               *)
RatesAreRatios ==
  report.asked = "usage" /\ report.pc = "done" /\ report.started > 0 =>
    report.escalated <= report.started

-----------------------------------------------------------------------------
(* The inductive invariant: what the statements that have run found is     *)
(* still so, unless something was committed between them.                  *)
MessageRow == [conv : Convs, day : Days, kind : Replies \cup {"question"}]
FailureRow == [kind : Kinds, id : 0..MaxFailed, day : Days]
ConvRow == [started : Days \cup {None}, escalated : Days \cup {None}]
Usage == {"counts", "totals", "daily", "channels", "models"}
Failures == {"counting", "sampling"}

RowTypes ==
  /\ today \in Days
  /\ conv \in [Convs -> ConvRow]
  /\ message \in Seq(MessageRow)
  /\ \A n \in DOMAIN message : conv[message[n].conv].started # None
  /\ failed \subseteq FailureRow /\ IsFiniteSet(failed)

ReportTypes ==
  /\ {"pc", "asked", "preview", "disturbed"} \subseteq DOMAIN report
  /\ report.asked \in Asked /\ report.disturbed \in BOOLEAN
  /\ report.pc \in Usage \cup Failures \cup {"unasked", "refused", "done"}
  /\ report.pc \in Usage => report.asked = "usage"
  /\ report.pc \in Failures => report.asked = "failures"
  /\ report.pc \notin {"unasked", "refused"} =>
       /\ "window" \in DOMAIN report
       /\ report.window \in [start : Nat, end : Nat]

Has(found) == \A f \in DOMAIN found : f \in DOMAIN report /\ report[f] = found[f]

HasFound ==
  /\ report.asked = "usage" =>
       /\ report.pc \in {"daily", "channels", "models", "done"} => Has(message_totals)
       /\ report.pc \in {"channels", "models", "done"} => Has(daily)
       /\ report.pc \in {"models", "done"} => Has(by_channel)
       /\ report.pc = "done" => Has(by_model)
  /\ report.asked = "failures" =>
       /\ report.pc \in {"sampling", "done"} => Has(count_in)
       /\ report.pc = "done" =>
            \A k \in Kinds : report.recent[k] \in Samples(Dated(k, report.window))

ReportInv == RowTypes /\ ReportTypes /\ (~report.disturbed => HasFound)
=============================================================================
