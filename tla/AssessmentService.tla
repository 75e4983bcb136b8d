-------------------------- MODULE AssessmentService --------------------------
(***************************************************************************)
(* The one path a Consumer Duty assessment takes                           *)
(* (domain/assessment_service.py), run by concurrent calls over one shared *)
(* container: evaluate, narrate behind four guardrail screens, audit,      *)
(* route to human review (rule R8), store, export.  One action per call    *)
(* the service makes on a port, because between two of them another call   *)
(* may run, the port may raise, or the process may stop.                   *)
(*                                                                         *)
(* The engine is OutcomeTests.tla: here a call's result is whatever the    *)
(* engine computed, and all this module knows of it is whether it needs    *)
(* review.  An assessment id is a digest of tenant, as_of and the results, *)
(* so two calls with equal inputs share one id.                            *)
(***************************************************************************)
EXTENDS Naturals, FiniteSets

CONSTANTS
    Call,           \* invocations of assess(), each by one surface
    Tenant,         \* tenants
    Instant,        \* values of as_of
    Result,         \* what the engine may compute
    Consequential,  \* the results with a breach or a gap
    Durable,        \* audit, store and export live in files, not in memory
    MaxRestarts     \* bound on the restarts of the process

ASSUME ConsequentialAssumption == Consequential \subseteq Result
ASSUME DurableAssumption == Durable \in BOOLEAN
ASSUME MaxRestartsAssumption == MaxRestarts \in Nat

VARIABLES
    router,      \* the bound review router: what the deployment chose
    assessment,  \* call -> the assessment it computes
    pc,          \* call -> the port call it makes next
    narration,   \* call -> which narration stands
    routing,     \* call -> what the recording wrapper reports
    review_ref,  \* call -> where the escalation went, "" for nowhere
    audit,       \* the audit trail
    outbox,      \* reviews pending in the local router's memory
    wire,        \* calls whose submission is on its way to the console
    replies,     \* calls whose submission the console has answered
    console,     \* reviews the console holds, by source_key
    stored,      \* the assessment store, one record per id
    warehouse,   \* the exported rows
    restarts,    \* how often the process restarted
    forgotten    \* history: the reviews that outboxes of stopped processes held

vars == <<router, assessment, pc, narration, routing, review_ref, audit, outbox,
          wire, replies, console, stored, warehouse, restarts, forgotten>>

reviewVars == <<outbox, wire, replies, console>>
recordVars == <<stored, warehouse>>
answerVars == <<routing, review_ref>>
givenVars == <<router, assessment, restarts, forgotten>>

-----------------------------------------------------------------------------
Assessment == [tenant: Tenant, as_of: Instant, result: Result]

Router == {"local", "managed", "off"}

\* The texts _narrate has screened, in order; "narrate" is the model between
\* them.
Screens == {"tenant", "prompt", "headline", "body"}
Working == Screens \cup {"narrate", "refused", "audit", "route", "await",
                         "store", "export"}
Ended == {"done", "error", "lost"}
Step == {"idle"} \cup Working \cup Ended

Narrations == {"fallback", "draft"}
Routings == {"routed", "failed", "off", "not_required"}
Refs == {"", "outbox", "console"}

Decisions == {"allowed", "escalated", "blocked"}
Event == [call: Call, id: Assessment, decision: Decisions]
Record == [id: Assessment, narration: Narrations, review_ref: Refs]
Row == [id: Assessment, review_ref: Refs]

NeedsReview(a) == a.result \in Consequential

\* _build: the verdict the assessment carries.
Overall(a) == IF NeedsReview(a) THEN "escalated" ELSE "allowed"

TypeOK ==
    /\ router \in Router
    /\ assessment \in [Call -> Assessment]
    /\ pc \in [Call -> Step]
    /\ narration \in [Call -> Narrations]
    /\ routing \in [Call -> Routings]
    /\ review_ref \in [Call -> Refs]
    /\ audit \subseteq Event
    /\ outbox \subseteq Assessment
    /\ wire \subseteq Call
    /\ replies \subseteq Call
    /\ console \subseteq Assessment
    /\ stored \subseteq Record
    /\ warehouse \subseteq Row
    /\ restarts \in 0..MaxRestarts
    /\ forgotten \subseteq Assessment

Init ==
    /\ router \in Router
    /\ assessment \in [Call -> Assessment]
    /\ pc = [c \in Call |-> "idle"]
    /\ narration = [c \in Call |-> "fallback"]
    /\ routing = [c \in Call |-> "not_required"]
    /\ review_ref = [c \in Call |-> ""]
    /\ audit = {}
    /\ outbox = {} /\ wire = {} /\ replies = {} /\ console = {}
    /\ stored = {} /\ warehouse = {}
    /\ restarts = 0 /\ forgotten = {}

-----------------------------------------------------------------------------
Goto(c, step) == pc' = [pc EXCEPT ![c] = step]

\* A port raised and nothing catches it: assess() raises too.
Raise(c) ==
    /\ Goto(c, "error")
    /\ UNCHANGED <<givenVars, answerVars, reviewVars, recordVars, narration, audit>>

\* signals.load, products.load, the consent lookups and the engine: the call
\* now holds its assessment and the deterministic narration.
Evaluate(c) ==
    /\ pc[c] = "idle"
    /\ Goto(c, "tenant")
    /\ UNCHANGED <<givenVars, answerVars, reviewVars, recordVars, narration, audit>>

\* One of the sources cannot be read, or a consent lookup raises.
EvaluateRaises(c) == pc[c] = "idle" /\ Raise(c)

\* Mutant: the verdict is acted on before it is recorded.
AfterScreenUnrecorded(text) ==
    CASE text = "tenant"   -> "prompt"
      [] text = "prompt"   -> "narrate"
      [] text = "headline" -> "body"
      [] text = "body"     -> "route"

AfterScreen(text) ==
    CASE text = "tenant"   -> "prompt"
      [] text = "prompt"   -> "narrate"
      [] text = "headline" -> "body"
      [] text = "body"     -> "audit"

\* The guardrail allows the text.  Once the body has passed, the grounding
\* gate keeps the draft or drops it (Narration: a function of the draft).
ScreenAllows(c) ==
    /\ pc[c] \in Screens
    /\ Goto(c, AfterScreen(pc[c]))
    /\ \/ UNCHANGED narration
       \/ /\ pc[c] = "body"
          /\ narration' = [narration EXCEPT ![c] = "draft"]
    /\ UNCHANGED <<givenVars, answerVars, reviewVars, recordVars, audit>>

\* Mutant: a refused text is screened again, from the first.
ScreenRefusesRetries(c) ==
    /\ pc[c] \in Screens
    /\ Goto(c, "tenant")
    /\ UNCHANGED <<givenVars, answerVars, reviewVars, recordVars, narration, audit>>

\* The guardrail blocks the text, returns no text, or raises instead of
\* deciding: all three are a refusal, which is to be audited next.
ScreenRefuses(c) ==
    /\ pc[c] \in Screens
    /\ Goto(c, "refused")
    /\ UNCHANGED <<givenVars, answerVars, reviewVars, recordVars, narration, audit>>

\* The model drafts, or it fails or declines and the fallback stands.
Narrate(c) ==
    /\ pc[c] = "narrate"
    /\ \/ Goto(c, "headline")
       \/ Goto(c, "audit")
    /\ UNCHANGED <<givenVars, answerVars, reviewVars, recordVars, narration, audit>>

RecordEvent(c, decision) ==
    audit' = audit \cup {[call |-> c, id |-> assessment[c], decision |-> decision]}

\* Mutant: a refused text is audited, and the next one is screened all the same.
AuditRefusalCarriesOn(c) ==
    /\ pc[c] = "refused"
    /\ RecordEvent(c, "blocked")
    /\ Goto(c, "body")
    /\ UNCHANGED <<givenVars, answerVars, reviewVars, recordVars, narration>>

\* _audit_guardrail_block; the fallback narration stands.
AuditRefusal(c) ==
    /\ pc[c] = "refused"
    /\ RecordEvent(c, "blocked")
    /\ Goto(c, "audit")
    /\ UNCHANGED <<givenVars, answerVars, reviewVars, recordVars, narration>>

\* The redacted verdict, before anything acts on it.
AuditVerdict(c) ==
    /\ pc[c] = "audit"
    /\ RecordEvent(c, Overall(assessment[c]))
    /\ Goto(c, IF NeedsReview(assessment[c]) THEN "route" ELSE "store")
    /\ UNCHANGED <<givenVars, answerVars, reviewVars, recordVars, narration>>

\* Mutant: a failed append is swallowed.
AuditRaisesSwallowed(c) ==
    /\ pc[c] = "audit"
    /\ Goto(c, IF NeedsReview(assessment[c]) THEN "route" ELSE "store")
    /\ UNCHANGED <<givenVars, answerVars, reviewVars, recordVars, narration, audit>>

\* The trail is mandatory: an append that fails fails the assessment.
AuditRaises(c) == pc[c] \in {"refused", "audit"} /\ Raise(c)

-----------------------------------------------------------------------------
\* Mutant: outcome and reference change places.
AnswerSwapped(c, outcome, reference) ==
    /\ routing' = [routing EXCEPT ![c] = reference]
    /\ review_ref' = [review_ref EXCEPT ![c] = outcome]
    /\ Goto(c, "store")

\* Rule R8.  The service calls the router for a result that needs review; the
\* recording wrapper turns an exception into "failed" and an empty reference.
Answer(c, outcome, reference) ==
    /\ routing' = [routing EXCEPT ![c] = outcome]
    /\ review_ref' = [review_ref EXCEPT ![c] = reference]
    /\ Goto(c, "store")

\* Routing switched off: DisabledReviewRouter submits nothing.
RouteOff(c) ==
    /\ pc[c] = "route"
    /\ router = "off"
    /\ Answer(c, "off", "")
    /\ UNCHANGED <<givenVars, reviewVars, recordVars, narration, audit>>

\* LocalReviewRouter: enqueue to the outbox in memory.
RouteLocally(c) ==
    /\ pc[c] = "route"
    /\ router = "local"
    /\ outbox' = outbox \cup {assessment[c]}
    /\ Answer(c, "routed", "outbox")
    /\ UNCHANGED <<givenVars, recordVars, narration, audit, wire, replies, console>>

\* CloudReviewRouter: the submission leaves for the console.
Submit(c) ==
    /\ pc[c] = "route"
    /\ router = "managed"
    /\ wire' = wire \cup {c}
    /\ Goto(c, "await")
    /\ UNCHANGED <<givenVars, answerVars, recordVars, narration, audit,
                   outbox, replies, console>>

\* Mutant: the wrapper catches the exception and forgets to note it.
RouteRaisesUnnoted(c) ==
    /\ \/ pc[c] = "route" /\ router = "managed"
       \/ pc[c] = "await"
    /\ Answer(c, "not_required", "")
    /\ UNCHANGED <<givenVars, reviewVars, recordVars, narration, audit>>

\* The router raises: no review_url or no credentials before anything is sent;
\* afterwards a refusal, a lost connection or a timeout, wherever the
\* submission has got to by then.
RouteRaises(c) ==
    /\ \/ pc[c] = "route" /\ router = "managed"
       \/ pc[c] = "await"
    /\ Answer(c, "failed", "")
    /\ UNCHANGED <<givenVars, reviewVars, recordVars, narration, audit>>

\* The console takes a submission, at most once per source_key, and answers
\* whoever still waits.
ConsoleTakes(c) ==
    /\ c \in wire
    /\ wire' = wire \ {c}
    /\ console' = console \cup {assessment[c]}
    /\ replies' = IF pc[c] = "await" THEN replies \cup {c} ELSE replies
    /\ UNCHANGED <<givenVars, answerVars, recordVars, pc, narration, audit, outbox>>

\* The submission never arrives, or the console refuses it.
SubmissionLost(c) ==
    /\ c \in wire
    /\ wire' = wire \ {c}
    /\ UNCHANGED <<givenVars, answerVars, recordVars, pc, narration, audit,
                   outbox, replies, console>>

\* Mutant: the submission is fired and forgotten.
SubmitReturnsUnanswered(c) ==
    /\ pc[c] = "await"
    /\ Answer(c, "routed", "console")
    /\ UNCHANGED <<givenVars, reviewVars, recordVars, narration, audit>>

\* The console's review id comes back.
SubmitReturns(c) ==
    /\ pc[c] = "await"
    /\ c \in replies
    /\ Answer(c, "routed", "console")
    /\ UNCHANGED <<givenVars, reviewVars, recordVars, narration, audit>>

-----------------------------------------------------------------------------
RecordOf(c) == [id |-> assessment[c], narration |-> narration[c],
                review_ref |-> review_ref[c]]

\* store.put: an upsert, keyed by the id.
Put(c) ==
    /\ pc[c] = "store"
    /\ stored' = {r \in stored : r.id # assessment[c]} \cup {RecordOf(c)}
    /\ Goto(c, "export")
    /\ UNCHANGED <<givenVars, answerVars, reviewVars, narration, audit, warehouse>>

\* warehouse.export: rows are appended; assess() returns.
Export(c) ==
    /\ pc[c] = "export"
    /\ warehouse' = warehouse \cup
                      {[id |-> assessment[c], review_ref |-> review_ref[c]]}
    /\ Goto(c, "done")
    /\ UNCHANGED <<givenVars, answerVars, reviewVars, narration, audit, stored>>

\* Mutant: a store that fails is skipped over.
KeepRaisesSkipped(c) ==
    /\ pc[c] = "store"
    /\ Goto(c, "export")
    /\ UNCHANGED <<givenVars, answerVars, reviewVars, recordVars, narration, audit>>

\* A write that fails fails a call that has been audited and routed.
KeepRaises(c) == pc[c] \in {"store", "export"} /\ Raise(c)

\* The process stops and starts again: the calls it was serving are gone, and
\* so is everything it held in memory.  What is on the wire stays there.
Restart ==
    /\ restarts < MaxRestarts
    /\ restarts' = restarts + 1
    /\ pc' = [c \in Call |-> IF pc[c] \in Working THEN "lost" ELSE pc[c]]
    /\ outbox' = {} /\ replies' = {}
    /\ forgotten' = forgotten \cup outbox
    /\ IF Durable
       THEN UNCHANGED <<audit, stored, warehouse>>
       ELSE audit' = {} /\ stored' = {} /\ warehouse' = {}
    /\ UNCHANGED <<router, assessment, narration, answerVars, wire, console>>

-----------------------------------------------------------------------------
\* What the process serving the call does next.
CallStep(c) ==
    \/ Evaluate(c) \/ EvaluateRaises(c)
    \/ ScreenAllows(c) \/ ScreenRefuses(c) \/ Narrate(c)
    \/ AuditRefusal(c) \/ AuditVerdict(c) \/ AuditRaises(c)
    \/ RouteOff(c) \/ RouteLocally(c) \/ Submit(c) \/ RouteRaises(c)
    \/ SubmitReturns(c)
    \/ Put(c) \/ Export(c) \/ KeepRaises(c)

Next ==
    \/ \E c \in Call : CallStep(c)
    \/ \E c \in Call : ConsoleTakes(c) \/ SubmissionLost(c)
    \/ Restart

Spec == Init /\ [][Next]_vars

\* A call inside a port that no deadline of this code bounds: the model, the
\* trail, the store, the warehouse, a console that has not answered.  (A screen
\* has a deadline, model_armor.timeout_seconds.)
Waits(c) ==
    \/ pc[c] \in {"narrate", "refused", "audit", "store", "export"}
    \/ pc[c] = "await" /\ c \notin replies

\* A call that has begun and waits for nobody keeps going.  The model, the
\* stores, the console and the network owe nothing.
FairSpec ==
    Spec /\ \A c \in Call : WF_vars(pc[c] # "idle" /\ ~Waits(c) /\ CallStep(c))
-----------------------------------------------------------------------------
Decided(a) == \E e \in audit : e.id = a /\ e.decision = Overall(a)

\* Nothing reaches a reviewer, on the console or in the local outbox, that the
\* trail does not show as escalated: not after a failed append, not from a
\* submission that is delivered after its call, or the process, is gone.
HandedOverWasAudited ==
    \A a \in console \cup outbox : NeedsReview(a) /\ Decided(a)

\* Every stored record and every exported row has its verdict in the trail: a
\* failed append fails the assessment before it leaves anything behind.
KeptWasAudited ==
    \A kept \in stored \cup warehouse : Decided(kept.id)

\* The warehouse names no assessment the store does not hold, whichever of
\* two calls with one id fails in between: put comes before export.
ExportedIsStored ==
    \A row \in warehouse : \E r \in stored : r.id = row.id

Held(a, reference) ==
    \/ reference = ""
    \/ reference = "console" /\ a \in console
    \/ reference = "outbox" /\ a \in outbox \cup forgotten

\* A review reference, in the store or in an exported row, is that of a review
\* the console holds or a local outbox has held: never of a submission that was
\* only tried.  (Whether an outbox still holds it is OutboxRetains.)
ReferencesNameReviews ==
    \A kept \in stored \cup warehouse : Held(kept.id, kept.review_ref)

\* What a caller is told of its own hand-off is true: a reference comes exactly
\* with "routed" and names a review that was made, "off" comes only from a
\* deployment that chose it, and "not_required" never hides an escalation.
AnswerIsTrue ==
    \A c \in Call : pc[c] = "done" =>
        /\ routing[c] = "routed" <=> review_ref[c] # ""
        /\ Held(assessment[c], review_ref[c])
        /\ routing[c] = "off" => router = "off"
        /\ routing[c] = "not_required" <=> ~NeedsReview(assessment[c])

\* A reader of the store never meets an escalation nobody has tried to hand
\* over yet: its record appears only after a call's routing attempt.
VisibleAfterRouting ==
    \A r \in stored : NeedsReview(r.id) =>
        \E c \in Call : assessment[c] = r.id /\ routing[c] # "not_required"

RefusedTo(c) == \E e \in audit : e.call = c /\ e.decision = "blocked"

\* A text the guardrail refused, in either direction, ends the draft: a call
\* with a refusal in the trail keeps the deterministic narration, and a stored
\* draft comes from a call that met none.
RefusedDraftNeverStands ==
    /\ \A c \in Call : RefusedTo(c) => narration[c] = "fallback"
    /\ \A r \in stored : r.narration = "draft" =>
          \E c \in Call : /\ assessment[c] = r.id
                           /\ narration[c] = "draft"
                           /\ ~RefusedTo(c)

\* A call that has begun ends, with an answer, an error or the process, or it is
\* in one port for good: no refusal, failed draft or stalled guardrail holds it
\* or sends it round.
OnlyAPortHolds ==
    \A c \in Call : pc[c] \in Working ~> (pc[c] \in Ended \/ []Waits(c))

\* ui and api/schemas.py: "failed means the result is NOT queued for review".
FailedMeansNotQueued ==
    \A c \in Call :
        pc[c] = "done" /\ routing[c] = "failed" => assessment[c] \notin console

\* models.py: review_ref "records where the escalation actually WENT, so a flag
\* that stopped here is distinguishable from a routed one".  Once a caller has
\* been given a reference, the stored record carries one.
RecordKeepsReference ==
    \A c \in Call : pc[c] = "done" /\ review_ref[c] # "" =>
        \E r \in stored : r.id = assessment[c] /\ r.review_ref # ""

\* COMPLIANCE.md: "the review path already degrades correctly (the outbox retains
\* an escalation the console could not take)".  An escalation whose record says
\* it is in the outbox is in the outbox, the process having restarted or not.
OutboxRetains ==
    \A r \in stored : r.review_ref = "outbox" => r.id \in outbox

\* The same sentence of a deployment with a console: whoever is told that the
\* hand-off failed has its escalation retained.
\* The code does not keep this one (README, section 6).
UntakenIsRetained ==
    \A c \in Call :
        pc[c] = "done" /\ routing[c] = "failed" => assessment[c] \in outbox \cup console

-----------------------------------------------------------------------------
\* Rule R8's promise, read off this module's state: a call is answered when it
\* is done and gone when it raised or was lost.
Answered(c) ==
    CASE pc[c] = "done" -> routing[c]
      [] pc[c] \in {"error", "lost"} -> "gone"
      [] OTHER -> "none"

Promise == INSTANCE EscalationPromise WITH
    Subject  <- Assessment,
    Serious  <- {a \in Assessment : NeedsReview(a)},
    subject  <- assessment,
    recorded <- {c \in Call : \E e \in audit : e.call = c /\ e.decision # "blocked"},
    desk     <- console,
    buffer   <- outbox,
    answer   <- [c \in Call |-> Answered(c)]

\* Every behaviour of the service keeps the promise of rule R8.
KeepsPromise == Promise!PromiseSpec
=============================================================================
