# Consumer Duty Monitoring: a verification development

The service scores a firm's products against the FCA Consumer Duty from the
outcome signals of a tenant (complaints, QA failures, conduct flags,
vulnerability cues, contacts), narrates the result, records it, hands what needs
a human to the human-review-console (rule R8), stores it and exports it.  This
directory holds TLA+ models of that service, the TLC configurations that check
them and the TLAPS proofs about them.

Paths are relative to the repository; `PKG` is `src/consumer_duty_monitoring`.

## 1. Inventory

| Component | State it keeps | Operations | What makes it correct |
|---|---|---|---|
| Assess path (`PKG/domain/assessment_service.py`) | none of its own: a call's locals between two port calls | `assess`, `read_assessment` | the verdict is audited before anything acts on it; a serious one is handed over; what the caller is told is true |
| Human-review routing (`PKG/adapters/controls.py`, `*/review_router.py`) | the outcome of one hand-off; the local outbox (memory); the console's queue (external) | `route`, `outcome` | "routed" only of a review somebody holds; a failure is reported, never hidden |
| Assessment store, warehouse export (`PKG/adapters/*/assessment_store.py`, `warehouse.py`) | records by id, JSON lines | `put`, `get`, `list_for_product`, `export` | nothing unrecorded is kept; the two agree |
| Engine and themes (`PKG/domain/outcome_tests.py`, `theme_synthesis.py`, `policy.py`) | none | four tests, `overall_verdict`, `synthesize_themes` | an unmeasured family is a gap, never a pass; every finding counted once |
| Consent context (`_consent_denied_subjects`, `PKG/ports/consent.py`) | the store's preferences (external) | `decide` | fails closed; a contact against a preference is counted |
| Narration and guardrail (`PKG/domain/narration.py`, `_narrate`, `_screen`) | none | `narrate`, `screen`, `grounded_or_fallback` | no unscreened, ungrounded or refused text stands |
| Audit trail (`PKG/adapters/*/audit.py`) | an append-only, hash-chained log (the chain is an external kit) | `record` | mandatory: an append that fails fails the assessment |
| Outcome pack (`PKG/outcome_pack.py`) | a per-path cache for the life of the process | `load_pack`, `pack_for` | every threshold is a usable number |
| Settings, profile, container (`PKG/config.py`, `managed_readiness.py`) | the profile choice, the switches, one cached adapter per port | `load`, `build_container`, `_bind` | no posture nobody chose; one adapter per port |
| Identity and tenant boundary (`PKG/adapters/*/identity.py`) | none; the deployment's audience and verifier | `resolve`, `_select_assertion`, `read_assessment`'s comparison | a tenant is named by a verified assertion and by nothing else |
| HTTP API (`PKG/api/app.py`) | the container behind `lru_cache`, the postures fixed at import | `assess`, `read_assessment`, `personas`, `healthz` | the posture bounds what answers an unauthenticated caller; requests in parallel share one container |
| Agent tools, CLI (`PKG/agent`, `PKG/cli`) | a container per call | `assess_products` and reads | the same path as the API |
| Web console (`ui/`) | the last answer, in-flight flags, the provenance pill | fetches | what is shown answers whoever pressed the button, as the fields were then |
| Demo, its server and self-test (`scripts/demo.py`, `demo_server.py`, `walkthrough.py`, `PKG/adapters/local/_seed.py`) | one run: its results, counters, outbox, trail; the walkthrough's last snapshot | `perform`, `/next`, `/restart`, `/state`; `walk` | PASS means every step was found true; the page's figures are the services' |
| On-premises placeholders (`PKG/adapters/onprem/`) | none | every port | each refuses, but the tracer, which does nothing |
| Serialization, infrastructure, evaluation metrics (`PKG/domain/serialization.py`, `infra/`, `eval/`) | none | conversions, declarations, ratios | not modelled, section 7 |

How they interact: a surface (API, agent tool, CLI) takes adapters from a
container, wraps the bound router in a `RecordingReviewRouter` for that one call
and runs `AssessmentService.assess`, a straight line of port calls: signals,
products, consent, engine, guardrail and narrator, audit, router, store,
warehouse.  FastAPI runs the handlers in a thread pool over one shared container,
so calls interleave between any two port calls; every port may raise; the process
may be replaced at any time; the review console is across a network.  In front of
the API, the web console's page talks to its own proxy, which decides the identity
it forwards.  Before anything is served, the profile variable and the settings
file are read by the preflight, by the import of `app.py`, by `main()`, and again
by the first request that needs the container.  Three caches fill while requests
run and none holds a lock: the container (`lru_cache`), each of its adapters
(`cached_property`) and the outcome pack by its path.  The demo drives the same
services over the seeded books; its self-test talks to the demo's server over HTTP
while a presenter may click on the page.

What is hard, in the order of weight: failures between two of the port calls;
the review console's lost or late answer; two calls with one id (it is a digest of
the tenant, the instant, the pack version and the results); restarts with
in-memory adapters; a port that never answers; what of a model's draft may stand; the posture when nobody chose one, or when the settings
change between two reads; the order of contacts in the consent context; gaps, ties
and empty inputs in the engine; requests in flight while a page is edited; first
use of a container by two threads, with a restart or an edit of the pack between; a
demo step that raises half-way and is performed again.  `PROJECT.json` lists these hazards line by line
with the properties that would catch them.

## 2. Modules

| Module | Models | State | Composes |
|---|---|---|---|
| `AssessmentService` | `assess()` by concurrent calls over one container, rule R8's routers, store, export, restarts | `pc` of each call, the trail, outbox, wire, console queue, store, warehouse | states its refinement of `EscalationPromise` |
| `EscalationPromise` | what rule R8 promises a caller and a reviewer, in five variables | who was recorded, handed over and told what | abstract specification |
| `OutcomeTests` | the engine, its aggregation, the themes, the consent context | the feed, the product frame, the pack, the grants | - |
| `Narration` | `_narrate`, the grounding gate, the guardrails, the local narrator | one assessment, the draft on its way, what the screens let through | details the screens of one call of `AssessmentService` |
| `Posture` | profile, switches, settings loads, readiness, exposure guard, identity binding, what each route answers | environment, the settings file and who has read it, container | - |
| `Console` | the page, its proxy, `get_principal`, `read_assessment` | page fields, requests in flight, replies, store | - |
| `OutcomePack` | `load_pack`: every check of a pack file, and the policy it yields | none (operators) | - |
| `Identity` | the verifying identity adapter: which header is read, the order of its checks, the tenant it names | none (operators) | - |
| `Serving` | the API process: container, adapters and pack as caches without a lock, identity per request, reads, tools, restarts, edits | the caches, who wrote what through which adapter, what each request holds, who was in flight together | extends `OutcomePack`, `Identity` |
| `Seed` | the seeded books, the consent fixture, the reference pack, the golden labels | none (operators) | an instance of `OutcomeTests` per book |
| `Demo` | the demo's eight steps, the server's run, the page's clicks, the walkthrough and its verdict, the hash-chained trail | the run, the walkthrough, clicks, faults | extends `Seed` |
| `AssessmentServiceProofs`, `OutcomeTestsProofs`, `NarrationProofs`, `PostureProofs`, `ConsoleProofs`, `ServingEffects`, `ServingProofs`, `DemoProofs` | theorems | | |
| `MC*` | the instances the runs check | | |

How state and actions correspond to the code:

- `AssessmentService`: an action is one port call of `assess()`
  (`assessment_service.py:102-160`).  `Evaluate` is the read of the sources, the
  consent lookups and the engine, which change nothing outside the call;
  `ScreenAllows`/`ScreenRefuses`/`Narrate` are `_narrate`; `AuditRefusal` and
  `AuditVerdict` are the two appends; `RouteOff`, `RouteLocally`, `Submit`,
  `SubmitReturns` and `RouteRaises` are `RecordingReviewRouter` around each of the
  three routers; `Put` and `Export` end the call.  Each port has its raising
  counterpart: what the code catches (guardrail, narrator, router) goes on, what
  it does not (sources, trail, store, warehouse) ends in `error`.  An assessment is
  identified by tenant, instant and results because that is what its id digests
  (the pack version is fixed in one deployment).
  `ConsoleTakes`/`SubmissionLost` are the network and the external console, which
  accepts a `source_key` once.  `Restart` empties what is memory; `forgotten` is
  history, the reviews an outbox has lost that way.
- `OutcomeTests`: the state is what a tenant's sources hold; the four tests,
  `_verdict`, `overall_verdict` and `synthesize_themes` are functions of it.  Metrics
  are integers in millionths, the six decimals the code rounds to.
- `Narration`: a text is whether it is blank and which numbers it mentions; the
  gate's pattern finds digits without a sign, so a mention of -2 is found as 2 (`Found`);
  what the engine published keeps its sign (`Published`).  The
  closed figure set, the deterministic sentences and the local narrator's are the
  ones of `narration.py` and `adapters/local/narration.py`.  A model may write
  anything; a client's own guardrail may rewrite anything.
- `Posture`: `Preflight`, `Import`, `Main` and the first `Serve` are the four moments
  that read the environment and the settings file.  `EditFile` is an operator between
  two of them.  A load that raises is not cached, so the next request loads again.
  `assess` resolves the caller, binds every port and loads the pack, any of which may
  crash it (`CannotAssess`); the verifying adapter refuses a missing header and an
  unpinned algorithm before it finds out whether a verifier is installed.
  The network guard, the host resolution and service authentication belong to
  `hex_service_kit` and are modelled as `app.py` uses them.
- `Console`: a request leaves the page with the fields as they were, is forwarded,
  refused or crashes at the proxy, is answered by the service under the principal
  its bound adapter resolves, and arrives, or is lost, while the page is edited.
  `asked` is history: the fields of each page when its button was last pressed.
- `Serving`: an action is one access to a shared cache.  `SeekContainer` and
  `BuildContainer` are `_container()` (`api/app.py:107`), asked twice by a request:
  by its identity dependency and by its handler.  `WirePort` and `ConstructAdapter`
  are the two halves of one `cached_property` of `Container` (`config.py:686`), in
  `build_service`'s order; `SeekPack` and `LoadPack` those of `_cached_pack`
  (`outcome_pack.py:113`).  `Identify` is `get_principal` over the verifying adapter,
  `AnswerAssess` and `AnswerRead` the handlers, whose port calls are one step here
  because `AssessmentService` has them apart.  A container and an adapter are named
  by the request that built them, so "which instance" is a value.  The data ports are
  bound to the SQLite adapters, over files or `":memory:"`.  `RunTool` is the agent
  tool or the CLI, in a process of its own.  `met` and `warm` are history: who was in
  flight together, and whether the process had answered an assessment by then.
- `Demo`: the server's lock covers a whole step, so a step is one action; a POST and
  the GET after it are two.  A step that raises leaves one of the states between its
  writes (`HalfDone`) and is not counted as performed.  What each book comes out as is
  computed by `OutcomeTests` on the seeded signals, and the engine's results are
  compared with the labels of `eval/datasets/golden_assessments.jsonl`, which were
  written without it.  A row's hash is the sequence of decisions it seals, which two
  trails share only as far as they agree.

## 3. Runs, bounds and what they show

| Run | Instance | Distinct states | Shows |
|---|---|---|---|
| `assess` | 2 calls, 1 tenant, 2 instants, a result that needs review and one that does not, durable files, 1 restart, fairness | 269,206 | 7 invariants of the assess path, its refinement of `EscalationPromise`, and that a call which does not end is in one port that does not answer |
| `engine` | 4 products, 9 signal kinds, feeds up to 2 signals over 7 frames and up to 3 cues and contacts on 2 channels over one more, 3 packs | 9,516 | gaps escalate, themes count every finding, the price test's shape, monotone harm, evidence stays local, consent fails closed |
| `posture` | 216 environments, 13 settings files, 3 starts, 1 edit | 1,255,184 | 6 invariants of profile, guard, readiness, controls and identity |
| `narration` | 2 families, 2 products, 1 signal, 4 guardrails, 2 narrators, a body with a sign | 1,354,672 | 6 invariants of the gate and the screens |
| `console` | 1 page, 2 personas of 2 tenants, a signed-in user with each tenant or none | 2,615,424 | for whom a page shows an answer, and that it agrees with the store |
| `serving` | 3 requests (symmetric), 2 at a time, 2 data ports in memory, 3 packs, 8 sets of headers, 3 deployments, 1 restart, 1 edit | 2,741,403 | one container per process, one pack, no lost record, no tenant beside the asserted ones |
| `demo` | 2 runs, 2 clicks, 2 faults, jumps to steps 1, 5 and 9 | 714,189 | the self-test's verdict is just and comes, the page's figures are the services' |
| `lost_reply`, `rerun_overwrites`, `outbox_forgotten`, `consent_channel`, `body_tenant` | the smallest that shows it | - | section 6 |

Why the bounds are enough.  Two calls are the smallest number that share an id or
not, and every property of the assess path is about one call or a pair that shares an
id; `MaxRestarts = 1` puts a restart between any two steps of either, and a second
would find nothing new in memory.  The engine's properties compare one product with
another, or a feed with one more signal; three products give a median with a value
on each side and a spread or none, two the even case.  The consent context depends on
the last contact of one subject, so three signals put two contacts on two channels on
either side of a cue.  `Posture` has every state of each variable
and files that differ from a complete one in one thing (one is unreadable and binds a
silent adapter, so that a failed load can hide what it binds); a missing verifier is
not crossed with the insecure demo, which only lifts the guard.  One edit separates any two of
the four reads.  In `Narration` two families suffice for a theme that is a gap beside
one that is a breach, and a negative measurement for the sign the pattern drops.
`Console` has one page because pages meet in the store alone, and
`OtherSurfaceAssesses` is every other page; one run per tenant leaves a stored and an
unknown id for each.  In `Serving` a race over a cache takes two requests and its
harm shows to a third; two ports put another cache between the first and the last of
a request's wiring; the in-memory instance is the one with something to lose, and the
theorems cover files and any number of requests, ports and restarts.  In `Demo` two
runs let the walkthrough mix them, and two faults repeat a step or break two; a number
below, in and beyond the arc is each case of the clamp.

The bounds by name: `MaxRestarts` (restarts of the process), `MaxSignals` (length of
the feed, and in `Narration` the evidence counted), `MaxProducts` (products of an
assessment), `MaxEdits` (edits of the settings file, and in `Serving` of the pack),
`Threads` (the pool's size, which the server fixes), `MaxStarts` (runs of the demo),
`MaxClicks` (clicks on its page), `MaxFaults` (steps of it that raise), `Numbers` (what
a presenter types).

`CHECK_DEADLOCK FALSE` is set where the system stops: an assessment ends, a feed
reaches its bound, a narration is decided, a boot is refused, all requests of the
instance are answered, the self-test has its verdict.  `console` checks deadlock: a
page can always do something.

**Fairness** is used by two runs.  `assess`:
`WF_vars(pc[c] # "idle" /\ ~Waits(c) /\ CallStep(c))`.  A thread that has begun a
request runs on, except where it waits inside a port that no deadline of this code
bounds (`Waits`): the model, the trail, the store, the warehouse, and a submission the
console has not answered, since `adapters/gcp/review_router.py` passes its client no
timeout and `COMPLIANCE.md` (P-10) lists the outbound timeouts as still to do.  The
sources are read in one step of the model; the guardrail's screen has a deadline
(`model_armor.timeout_seconds`).  Nothing is assumed of the model, the stores, the
console or the network, and no call is obliged to begin.  So `OnlyAPortHolds` does not
say that every call ends: it ends, or it is in one such port for good, and nothing in
between - a refused text, a draft that raised, a routing that failed - holds it or sends
it round again.

`demo`: `WF_vars(Walk)`.  The walkthrough is a process of its own that is scheduled, and
the server answers it because its lock is held for one step at a time and every step
returns or raises.  Nothing is assumed of whoever clicks, except that clicks are finitely
many (`MaxClicks`): one who restarts the run for ever does keep the self-test from its
end.

## 4. What is proved

Every invariant and every action property the passing runs check is a theorem, for
every value of the constants that the modules' own assumptions allow.

`AssessmentServiceProofs`, for any calls, tenants, instants, results and restarts:

- `TypeCorrect` needs nothing.
- `HandedOverIsAudited`, `KeptIsAudited`, `ReferencesAlwaysNameReviews`,
  `AnswersAreTrue`, `StoreIsInOrder` and `RefusedDraftsNeverStand` assume `Durable`:
  with the trail in memory, the `":memory:"` default, a restart forgets it while a
  review stays on the console, so the first two would be false.  Durability is of the
  trail and the stores: the local outbox is memory in every deployment, so a reference
  names a review that an outbox has held and may have forgotten (`forgotten`), and what
  a caller was told was so when it was told.  That the outbox keeps it is false (the
  run `outbox_forgotten`).

They follow from one inductive invariant, `IInv`.  The properties speak of ends of the
path, so each needs what the path had established before: that no text is refused or
kept while screens are pending (`DraftIsOpen`), that nothing is answered before routing
(`UnroutedIsSilent`), that whoever routes or has a submission on the wire has its
escalation on record even if its call has ended (`OnlyDecidedIsSent`, without which a
late delivery would break `HandedOverWasAudited`), that a reply is of a review the
console holds (`RepliesAreTrue`), that a settled routing is true from then on
(`RoutedIsTrue`), and that whoever exports has a record in the store, its own or one of
the same id that replaced it (`ExportingIsStored`).  `Growth` and `RecordStays` state
once that the records only grow.

The last part of `AssessmentServiceProofs` is `PromiseIsKept`, that `AssessmentService` implements
`EscalationPromise` (`Durable` again).  Every step of the service maps to a step of the
promise or to a stutter; the mapping needs two facts no property states, which
`PInv` adds to `IInv`: a call's own verdict is on record once it may be acted on
(`OwnVerdictIsRecorded`; `IInv` only knows that some call's verdict of that id is), and
what a call was routed to still holds its review when the caller is told
(`RoutedIsHeld`).

`OutcomeTestsProofs`, for any products, signals, feeds of any length, finite frames and
packs: `TypeCorrect`, `UnmeasuredEscalates`, `OutliersAreFew`, `ConsentIsFailClosed`,
`HarmOnlyGrows`, `EvidenceStays`, `ThemesAccount`.  The state is only what the sources
hold, so the inductive invariant (`Sources`) is its type, and the work is in the
operators:

- The sums over a feed and over the findings are `SumFunction` of the community modules.
  Its value on every finite function comes from lemmas that say that such a sum exists,
  is unique, and grows by what one more value adds (`SumOfOneMore`); `ThemesAccount` and
  `HarmOnlyGrows` follow from it.  The inductions are by least counterexample, a least
  subset of a finite set or a least natural number, since the library's induction
  theorems take an operator.
- `OutliersAreFew` needs that the k-th smallest value exists and is one of the values
  (`KthSmallestIs`), that at least half of them lie on either side of the median
  (`HalfAboveMedian`), and that the rounded division keeps order and sign
  (`RoundedMonotone`, `RoundedSign`).
- `ConsentIsFailClosed` needs that every contacted customer has a last contact, and so a
  channel that was asked about, whatever the order of the feed.
- `UnmeasuredEscalates` needs that the worst severity is one of those found
  (`WorstIs`).

`NarrationProofs`, for any families, measurements, drafts and names, with finitely many
families (`FamilyAssumption`) and numbers that are numbers (`FiguresAssumption`):
`TypeCorrect`, `BodyPublishedUpToSign`, `CitationsAlwaysEmitted`,
`StandingTextIsScreened`, `RefusalsAreWhole`, `LocalDraftAlwaysStands`.  The two
lemmas that carry them are `FallbackIsPublished` (the deterministic sentences would
pass the gate themselves) and `OutcomeIsGrounded` (either way the gate decides, the
outcome is grounded); the strengthening says that the deterministic narration stands
until the end (`UndecidedIsFallback`), that a refusal ends the narration
(`RefusedIsDone`) and that the headline that reaches the gate is a screened one.

`PostureProofs`, for any number of edits of the settings file, with a "no settings" that
is no settings (`NoSettingsAssumption`): the six passing invariants of `Posture`,
`TypeCorrect`, `UnchosenReachesNobody`, `SelfNamedCallersStayLocal`, `WhatStartsCanServe`,
`ControlsAlwaysWork` and `BareRefusalsAreExplained`.  What three of them leave open is
the code does not keep (section 6): a replaced identity binding, a pack that does not
load, a missing verifier.  `IInv` ties
what each read of the file left behind to the others: the postures fixed at boot to the
file as it was imported (`BootInv`), the container to some file that loads, its controls
configured and its switched-off ones logged (`ContainerInv`), the file to the one the
boot read while nobody has edited it (`UneditedInv`), and an answer to the container it
came from (`AnswerInv`).

`ConsoleProofs`, for any pages, personas, tenants and assessments, when every persona has
a tenant and "no tenant" is none (`TenancyAssumption`): `TypeCorrect`,
`ShownIsAlwaysForThePresser`, `AnswersAreTrue`.  What a page shows was on its way a step
earlier, so `IInv` states of every answer in flight what the properties state of those
shown (`Truthful`, `ForThePresser`).  `InStep` is why the edits made meanwhile do not
matter: what is on its way is the request of the last press, and as long as it is the
page's buttons are off.  That it stays true while other pages and surfaces write is because the
store only grows (`TruthLasts`); that it is true at first is the tenant boundary of the
read (`ReadIsTruthful`).

`ServingProofs`, on the steps' effects in `ServingEffects`, for any requests, ports,
packs, headers, restarts and edits, in memory or over files: `TypeCorrect`,
`HandlersShareOneContainer`, `HostedDomainIsAlwaysServed`, `PackStaysSettled`,
`AnsweredStaysReadable`.  `LocalInv` says what a request holds at each point of its
path, an identity that a sound assertion vouched for included.  `ContainerInv` is why
one container suffices although several are built: a handler asks again after the
identity dependency was answered, and by then one is kept.  The last two theorems need
`CacheInv`: a cache that a request has filled stays filled (`CachesGrow`), so whoever is
still building it, and will overwrite it, was in flight together with that request
(`Crossed`) and came before the process had answered anything (`Filled`), which is what
`Raced` exempts.

`DemoProofs`, for any number of runs, clicks and steps that raise, and whatever step
numbers a presenter types: `TypeCorrect`, `VerdictIsAlwaysJust`,
`SnapshotAlwaysAddsUp`.  Each has one hypothesis beside the specification,
`BooksAreAsLabelled`: that the engine finds in the three seeded books the breaches the
golden set labels them with.  That is a computation without a parameter, which the run
`demo` evaluates (it is a conjunct of `SnapshotAddsUp`).  `IInv` has four parts:

- `RunInv` holds of every run, also of one whose steps raised half-way and were performed
  again: the steps shown are the arc's in order, what was routed was escalated and is in
  the outbox, every row's hash seals the decisions up to it, and no row but the one in
  the middle, and no sooner than the tamper step, differs from its seal.  `RecordSeals`,
  `BrokenAre` and `RewriteBreaks` are the facts about the trail that carry it.
- `CleanRun` holds while no step has raised: the exact figures after each step, and that
  no check of the walkthrough fails on them (`Problems`).
- `WalkInv` holds of the walkthrough whatever is clicked on the page: a step it has seen
  was asserted of some run, a failed assertion is among its failures, and it has a
  verdict only when it is over.
- `UndisturbedInv` holds while nobody clicks: the snapshot the walkthrough holds is that
  of the run, and it has seen exactly the steps shown.  `VerdictIsJust` says of which run
  a PASS speaks, and neither part alone would show it.

Each step of the arc has a lemma on what it writes (`CaseAdvances`, `ReviewQueueAdvances` and
so on); `PerformedKeeps` and `HalfDoneKeeps` put them together for a step that ends and
for one that raises between two of its writes.

## 5. What is only model-checked

Liveness, which is out of the prover's reach: `OnlyAPortHolds` and `SelfTestEnds`.  And
`Breaching = ExpectedBreaches`, the outcome of the engine on the seeded books, which is a
computation.

## 6. Where the code and its documents differ

A run shows each of these, against one property in the document's words:

| Run | Code | Document |
|---|---|---|
| `lost_reply` | `failed` is reported for a time-out after the console took the submission | `api/schemas.py`: "`failed` means the result is NOT queued for review" |
| `rerun_overwrites` | a run with the same id whose routing fails overwrites the record that carried the reference | `models.py`: "`review_ref` records where the escalation actually WENT" |
| `outbox_forgotten` | the local outbox is memory: after a restart a stored reference names an escalation nobody holds | `COMPLIANCE.md` P-10: "the outbox retains an escalation the console could not take" |
| `consent_channel` | one channel per subject is asked about, the last contact's | `ports/consent.py`: a preference "to be contacted on that channel" |
| `body_tenant` | a verified principal without a hosted domain has no tenant, and the request body's is taken (`api/app.py:303`) | the handler's docstring: "never the request body", "so a caller cannot assess another tenant" |

The models show these as well.  The document's promise is a definition of its module
that no run lists; put as the `INVARIANT` of the cfg named, TLC refutes it:

| Definition, cfg | Code | Document |
|---|---|---|
| `UntakenIsRetained`, `assess.cfg` | the managed router submits inline and has no outbox: what the console did not take is held nowhere | `COMPLIANCE.md` P-10, as above; `adapters/local/review_router.py`: "the same transactional outbox the managed adapter flushes" |
| `HeadlineIsPublished`, `narration.cfg` | the gate reads the figures of the body and not of the headline | `domain/narration.py`: "it may mention only figures the engine PUBLISHED" |
| `BodyIsPublished`, `narration.cfg` | the gate's pattern has no sign: a body with -5 stands where 5 was published | the same sentence |
| `ScoredThresholdsAreNumbers`, `serving.cfg` with `PackFiles <- NanPackFiles` | a threshold of `.nan` is a float and passes; nothing reaches it, so its family never breaches | `outcome_pack.py`: "a threshold that is not a number" raises `OutcomePackError` |
| `StartedHasItsPack`, `posture.cfg` | the first assessment loads the pack, no check of the boot does | `outcome_pack.py`: "it must not start at all"; `rulepacks/consumer_duty.yaml`: "refuses to start on a malformed pack" |
| `BareRefusalIsTheCallers`, `posture.cfg` | without google-auth, a missing header or an unpinned algorithm is a bare 401, refused before the verifier is looked for | `adapters/gcp/identity.py`: "no credential would have helped, so those raise `EndUserAuthUnavailableError`" |
| `SelfNamedIsBounded`, `posture.cfg` | the posture is fixed at the import, the container loads the file again: a binding replaced in between is served under the old posture | `api/app.py`: "neither authenticates anyone, so neither may switch this off" |

What holds beside them is checked and proved in a statement that names the exception:
`ReferencesNameReviews` and `AnswerIsTrue` (an outbox may have forgotten),
`BodyIsPublishedUpToSign`, `StartedCanServe` (the pack), `BareRefusalIsExplained` (the
verifier), `SelfNamedStaysLocal` (the replaced binding), `HostedDomainIsServed`.

Stated in the models and not counted as differences:

- A service started by a bare server skips the preflight (`StartedCanServe` speaks of the
  shipped starts).
- `docs/runbook.md` says a control that is off "logs one warning at startup"; the API
  logs it when its first request builds the container.  `ControlsCanWork` is what holds:
  no container is used whose switched-off controls were not logged.
- With stores in memory, a request that overlapped one of the first may write to an
  adapter that its container then forgets (`Raced`); over files nothing is lost.
- The pack of a running process is the one it first loaded; an edit under the same version
  takes effect at the next restart.
- The walkthrough may pass over two runs of the demo, if somebody restarts the run on the
  page between its steps (`VerdictIsJust` says which run each step is of).
- The demo's tamper step rewrites the middle record to "allowed"; after a step that was
  performed twice that record may be a routine one, and the rewrite changes nothing to
  detect (`SnapshotAddsUp`).

## 7. Abstractions and what is not modelled

- External: the human-review-console, the network, Google's assertion verifier, Model
  Armor's and the heuristics' judgement of a text, the audit log's hash chain,
  `hex_service_kit`.  Their results are nondeterministic.
- Rationales, redaction, wording and layout; citations beyond the sets of instruments
  (and so the cap of eight), since no property is about them yet.
- Floating point: metrics are exact and rounded half up in millionths.  Ties in the
  seventh decimal, where `round` goes to even, are not distinguished; the instance has
  no metric that is one.
- A torn read of signals, products and consent: each source is read once, and what another
  clock would have shown is outside the program.
- A retried assessment has another instant, hence another id and a second review; calls in
  the model have an instant each, and no document states what a retry owes.
- Web console: the model pill, the embed policy and CORS.  The API: response schemas and
  headers.  Tools and CLI: `verify-audit`, the redaction of what a tool returns, the agent card.
- Of the demo: what a panel looks like, the portability step's own evidence beyond which
  placeholders refuse, the server's status codes for a malformed request.
- `list_for_product` of the store: nothing calls it.
- Serialization: a conversion of records that no property is about.  Infrastructure:
  declarations.  The evaluation harness (`eval/run_eval.py`): ratios over one pass, whose
  golden labels `Seed` and `Demo` use; `scripts/portability_demo.py`, `render_ui.py` and the
  lock and fork scripts: straight lines that print or rewrite files.

## 8. Plan

Written, in this order: `AssessmentService` with `EscalationPromise`, `OutcomeTests`,
`AssessmentServiceProofs`, `Posture`, `Narration`, `Console`, `NarrationProofs`,
`OutcomePack`, `Identity`, `Serving`, `Seed`, `Demo`, the refinement in
`AssessmentServiceProofs`, `PostureProofs`, `ServingEffects`, `ServingProofs`,
`ConsoleProofs`, `OutcomeTestsProofs`, `DemoProofs`.  What would come next:

1. That a call of `AssessmentService` whose screens are those of `Narration` keeps
   `RefusedDraftNeverStands`: a refinement between the two.
2. The order of a result's citations and the cap of eight in `OutcomeTests`: which
   instruments a reviewer sees of a product with many findings.
3. The model pill in `Console`, beside the answer it names the model of.
4. A second process over the same files in `Serving`, once a deployment runs more than one.
