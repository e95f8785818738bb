------------------------------ MODULE LlmClient ------------------------------
(***************************************************************************)
(* One call of a language model through LLMClient (src/src/shared/llm:     *)
(* registry.py, retry.py, errors.py, the three adapters' streams and error *)
(* translation) or through verify_key (verification.py): the attempts at   *)
(* the agent's provider, the fallback, the text that has reached the       *)
(* caller and the usage that is booked for it.                             *)
(*                                                                         *)
(* A completion is the number of its deltas, and what a vendor bills for   *)
(* it is that number.  A vendor knows its own models only, and a request   *)
(* that names a model names one of the agent's provider.                   *)
(***************************************************************************)
EXTENDS Naturals

CONSTANTS
  MaxAttempts,  \* bound: LLM_MAX_ATTEMPTS
  MaxDeltas     \* bound: deltas of one completion

LlmAssumption == MaxAttempts \in Nat /\ MaxDeltas \in Nat \ {0}

Vendors == {"anthropic", "openai", "gemini"}
Modes == {"buffered", "streamed", "probe"}

VARIABLES
  mode,      \* complete, stream or verify_key
  vendor,    \* the agent's provider
  fallback,  \* LLM_FALLBACK_PROVIDER
  keyed,     \* whose key is configured
  attempts,  \* LLM_MAX_ATTEMPTS
  named,     \* whether the request names a model
  up,        \* the vendors that refuse nothing they can answer
  call       \* where the call is, what it tried, showed and booked

vars == <<mode, vendor, fallback, keyed, attempts, named, up, call>>
config == <<mode, vendor, fallback, keyed, attempts, named, up>>

(* PROVIDERS has no "unsupported".                                         *)
Init ==
  /\ mode \in Modes
  /\ vendor \in Vendors
  /\ fallback \in Vendors \cup {"", "unsupported"}
  /\ keyed \in {Vendors, Vendors \ {vendor}, Vendors \cap {vendor}}
  /\ attempts \in 0..MaxAttempts
  /\ named \in BOOLEAN
  /\ up \in {{}, Vendors \ {vendor}}
  /\ call = [pc |-> "build", provider |-> vendor, attempt |-> 0, tried |-> 0,
             second |-> 0, deltas |-> 0, shown |-> {}, reported |-> 0, usage |-> 0,
             error |-> "none"]

At(pc) == call.pc = pc
Becomes(more) ==
  /\ call' = [f \in DOMAIN call |-> IF f \in DOMAIN more THEN more[f] ELSE call[f]]
  /\ UNCHANGED config

OnFallback == call.provider # vendor

-----------------------------------------------------------------------------
(* What each SDK raises, and what _translated makes of it.  Gemini's       *)
(* adapter knows the SDK's own errors: what the transport below raises     *)
(* passes untranslated.                                                    *)
Raised == {"auth", "rate", "timeout", "connection", "server", "rejected"}

Translated(raised) ==
  IF call.provider = "gemini" /\ raised \in {"timeout", "connection"}
  THEN "untranslated"
  ELSE CASE raised = "auth" -> "authentication"
         [] raised = "rate" -> "rateLimit"
         [] raised = "timeout" -> "timeout"
         [] raised \in {"connection", "server"} -> "unavailable"
         [] raised = "rejected" -> "badRequest"

(* The adapters send request.model or their own default: the fallback is   *)
(* sent the model of the agent's provider.                                 *)
Answerable == named => ~OnFallback

(* What a vendor in good health raises is its refusal of a strange model.  *)
Possible ==
  CASE call.provider \notin up -> Raised
    [] Answerable -> {}
    [] OTHER -> {"rejected"}

Retryable(error) == error \in {"rateLimit", "timeout", "unavailable"}

(* The configured provider, if it is another and known, after a rate limit *)
(* or an outage.                                                           *)
FallsBack(error) ==
  fallback \in Vendors \ {vendor} /\ error \in {"rateLimit", "unavailable"}

Raise(error) == Becomes([pc |-> "raised", error |-> error])

(* The least attempts of a stream are one; a buffered call with none       *)
(* raises the RuntimeError behind its loop.                                *)
Tries == CASE mode = "probe" -> 1
            [] mode = "buffered" -> attempts
            [] mode = "streamed" -> IF attempts = 0 THEN 1 ELSE attempts

(* get_provider: the adapter of a provider without a key cannot be built.  *)
Build ==
  /\ At("build")
  /\ IF call.provider \notin keyed THEN Raise("configuration")
     ELSE IF Tries = 0 THEN Raise("noAttempt")
     ELSE Becomes([pc |-> "open", deltas |-> 0, reported |-> 0,
                   tried |-> call.tried + IF OnFallback THEN 0 ELSE 1,
                   second |-> call.second + IF OnFallback THEN 1 ELSE 0])

(* Mutant: a stream that failed is opened again whatever it has shown.     *)
Again_Shown(error) == Retryable(error) /\ call.attempt + 1 < Tries

(* with_retries and the loop of stream: once more, unless part of an       *)
(* answer was shown; the second choice is asked for one stream only.       *)
Again(error) ==
  /\ Retryable(error)
  /\ call.attempt + 1 < Tries
  /\ mode = "streamed" => call.shown = {} /\ ~OnFallback

Fails(error) ==
  IF Again(error)
  THEN Becomes([pc |-> "build", attempt |-> call.attempt + 1, error |-> error])
  ELSE IF mode # "probe" /\ ~OnFallback /\ call.shown = {} /\ FallsBack(error)
  THEN Becomes([pc |-> "build", provider |-> fallback, attempt |-> 0, error |-> error])
  ELSE Raise(error)

(* The provider refuses the call or breaks off its answer.                 *)
Break == At("open") /\ \E raised \in Possible : Fails(Translated(raised))

-----------------------------------------------------------------------------
(* complete: the whole answer and the usage it came with.                  *)
Answer ==
  /\ At("open") /\ mode # "streamed" /\ Answerable
  /\ \E n \in 1..MaxDeltas :
       Becomes([pc |-> "returned", deltas |-> n, usage |-> n,
                shown |-> {<<call.provider, call.attempt>>}])

(* A delta reaches the caller at once.  Gemini's chunks carry running      *)
(* totals; OpenAI's usage comes in a chunk of its own, Anthropic's with    *)
(* the final message.                                                      *)
Delta ==
  /\ At("open") /\ mode = "streamed" /\ Answerable
  /\ call.deltas < MaxDeltas
  /\ Becomes([deltas |-> call.deltas + 1,
              shown |-> call.shown \cup {<<call.provider, call.attempt>>},
              reported |-> IF call.provider = "gemini" THEN call.deltas + 1
                           ELSE call.reported])

(* What the source has reported once its iteration has ended.              *)
Booked == call.deltas

Finish ==
  /\ At("open") /\ mode = "streamed" /\ Answerable
  /\ Becomes([pc |-> "returned", reported |-> call.deltas, usage |-> Booked])

(* aclose, when the visitor leaves.                                        *)
Leave == At("open") /\ mode = "streamed" /\ Becomes([pc |-> "left"])

HasEnded == call.pc \in {"returned", "raised", "left"}
Finished == HasEnded /\ UNCHANGED vars

Next == Build \/ Break \/ Answer \/ Delta \/ Finish \/ Leave \/ Finished

Spec == Init /\ [][Next]_vars

(* verify_key: what the probe tells the tenant.                            *)
KeyCheck ==
  CASE call.pc = "returned" -> "ok"
    [] call.error = "authentication" -> "invalid_key"
    [] call.error = "badRequest" -> "model_rejected"
    [] call.error = "rateLimit" -> "rate_limited"
    [] call.error = "configuration" -> "not_configured"
    [] call.error \in {"timeout", "unavailable"} -> "unavailable"
    [] OTHER -> "raises"

-----------------------------------------------------------------------------
TypeOK ==
  /\ mode \in Modes /\ vendor \in Vendors /\ keyed \subseteq Vendors
  /\ call.provider \in Vendors
  /\ call.deltas \in 0..MaxDeltas /\ call.usage \in 0..MaxDeltas
  /\ call.tried \in 0..(MaxAttempts + 1) /\ call.second \in 0..(MaxAttempts + 1)

(* What a caller has been shown comes from one attempt, though attempts    *)
(* fail, are repeated and go over to another vendor.                       *)
OneAnswer == \A x, y \in call.shown : x = y

(* A call that returns books what was shown, all of it and nothing else;   *)
(* one that fails or is left books nothing.                                *)
UsageIsOfTheAnswer ==
  /\ At("returned") => call.usage = call.deltas
  /\ ~At("returned") => call.usage = 0

(* The agent's provider is tried LLM_MAX_ATTEMPTS times, the second choice *)
(* no more often, by a stream once; a probe tries once and goes nowhere.   *)
TriesAreBounded ==
  /\ call.tried <= Tries
  /\ call.second <= IF mode = "streamed" THEN 1 ELSE Tries
  /\ mode = "probe" => call.second = 0

(* A probe is always answered, except where Gemini's transport fails.      *)
ProbeIsAnswered ==
  mode = "probe" /\ HasEnded /\ KeyCheck = "raises" =>
    vendor = "gemini"

AnswersAreWhole == OneAnswer /\ UsageIsOfTheAnswer /\ TriesAreBounded /\ ProbeIsAnswered

(* "the tenant gets an answer from the second choice": a call that went    *)
(* over to a vendor that is up and has a key does not fail.                *)
SecondChoiceAnswers == ~(At("raised") /\ OnFallback /\ call.provider \in up \cap keyed)

-----------------------------------------------------------------------------
(* Why they hold: the invariant their proof rests on.                      *)
Errors == {"none", "configuration", "noAttempt", "untranslated", "authentication",
           "rateLimit", "timeout", "unavailable", "badRequest"}

Call == [pc : {"build", "open", "returned", "raised", "left"}, provider : Vendors,
         attempt : Nat, tried : Nat, second : Nat, deltas : Nat,
         shown : SUBSET (Vendors \X Nat), reported : Nat, usage : Nat,
         error : Errors]

Types == mode \in Modes /\ vendor \in Vendors /\ attempts \in Nat /\ call \in Call

(* Nothing has been shown when an attempt begins.                          *)
ShownByThisAttempt ==
  /\ call.shown \subseteq {<<call.provider, call.attempt>>}
  /\ At("build") => call.shown = {}
  /\ At("open") /\ mode # "streamed" => call.shown = {}

(* The attempts so far are numbered; the second choice begins anew.        *)
AttemptsAreCounted ==
  /\ At("build") => call.attempt = 0 \/ call.attempt < Tries
  /\ At("open") => call.attempt < Tries
  /\ ~OnFallback => /\ At("build") => call.tried <= call.attempt
                    /\ At("open") => call.tried <= call.attempt + 1
                    /\ call.second = 0
  /\ OnFallback => /\ At("build") => call.second <= call.attempt
                   /\ At("open") => call.second <= call.attempt + 1
                   /\ mode # "probe"
                   /\ mode = "streamed" => call.attempt = 0

ProbeRaises ==
  mode = "probe" /\ At("raised") =>
    vendor = "gemini" \/ call.error \notin {"none", "noAttempt", "untranslated"}

LlmInv ==
  /\ Types /\ ShownByThisAttempt /\ AttemptsAreCounted /\ ProbeRaises
  /\ UsageIsOfTheAnswer /\ TriesAreBounded
  /\ ~At("left") \/ mode = "streamed"
=============================================================================
