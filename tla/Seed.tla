--------------------------------- MODULE Seed ---------------------------------
(***************************************************************************)
(* The synthetic books the local adapters serve                            *)
(* (adapters/local/_seed.py) and the reference pack, assessed by the       *)
(* engine of OutcomeTests: what the demo's three cases come out as is      *)
(* computed here, never assumed.                                           *)
(*                                                                         *)
(* A book's signals are kept with what the engine reads of them, its       *)
(* products with their cohorts and their fee per unit of benefit, in       *)
(* twentieths for the breaching book and two-hundredths for the clean one  *)
(* (a z-score does not see the scale).                                     *)
(***************************************************************************)
EXTENDS Integers, Sequences

Tenant == {"demo-bank", "clean-bank", "pii-bank"}

LOCAL Micro == 1000000

\* An OutcomeSignal of magnitude 1.0, the default.
OutcomeSignal(kind, product, cohort, subject, channel) ==
    [kind |-> kind, product |-> product, cohort |-> cohort, value |-> Micro,
     subject |-> subject, channel |-> channel]
Unnamed(kind, product, cohort) == OutcomeSignal(kind, product, cohort, "", "")

\* _SIGNALS: a vulnerable customer texted, a dear loan, an ISA sold off target,
\* a packaged account with complaints and conduct flags.
BreachingSignals ==
    <<OutcomeSignal("vulnerability_cue", "save", "mass_market", "subj-9001", ""),
      OutcomeSignal("contact_outcome", "save", "mass_market", "subj-9001", "sms"),
      Unnamed("complaint", "loan", "mass_market"),
      Unnamed("complaint", "loan", "mass_market"),
      Unnamed("complaint", "isa", "mass_market"),
      Unnamed("qa_failure", "isa", "students"),
      OutcomeSignal("contact_outcome", "isa", "affluent", "subj-9002", "email"),
      Unnamed("complaint", "packaged", "mass_market"),
      Unnamed("complaint", "packaged", "mass_market"),
      Unnamed("complaint", "packaged", "mass_market"),
      Unnamed("conduct_flag", "packaged", "mass_market"),
      Unnamed("conduct_flag", "packaged", "mass_market")>>

\* _PRODUCTS: fee over benefit 12/80, 200/10, 90/60 and 180/40.
BreachingProducts ==
    [save     |-> [target |-> {"mass_market", "students"}, ratio |-> 3],
     loan     |-> [target |-> {"mass_market"}, ratio |-> 400],
     isa      |-> [target |-> {"affluent"}, ratio |-> 30],
     packaged |-> [target |-> {"mass_market"}, ratio |-> 90]]

\* _CLEAN_SIGNALS and _CLEAN_PRODUCTS: fee over benefit 10/80 and 14/70.
CleanSignals ==
    <<Unnamed("complaint", "save", "mass_market"),
      Unnamed("complaint", "card", "mass_market")>>
CleanProducts ==
    [save |-> [target |-> {"mass_market", "students"}, ratio |-> 25],
     card |-> [target |-> {"mass_market"}, ratio |-> 40]]

seed_signals(t) == IF t = "clean-bank" THEN CleanSignals ELSE BreachingSignals
seed_frame(t) == IF t = "clean-bank" THEN CleanProducts ELSE BreachingProducts

\* The identifiers in a book's citations: one book's first signal plants one.
Planted(t) == IF t = "pii-bank" THEN {"nric"} ELSE {}

\* CONSENT_FIXTURE: decided by subject, whatever the channel; a subject it does
\* not list is refused.
CONSENT_FIXTURE == [s \in {"subj-9001", "subj-9002"} |-> s = "subj-9002"]
Channel == {"email", "sms"}
Granted == {s \in DOMAIN CONSENT_FIXTURE : CONSENT_FIXTURE[s]} \X Channel

\* The reference outcome pack.
ReferencePack ==
    [foreseeable_harm    |-> [threshold |-> 5 * Micro, severity |-> "high"],
     target_market_drift |-> [threshold |-> 250000, severity |-> "high"],
     price_vs_value      |-> [threshold |-> 3 * Micro, severity |-> "medium"],
     vulnerable_customer |-> [threshold |-> Micro, severity |-> "critical"]]

\* The engine on one tenant's book.
Book(t) == INSTANCE OutcomeTests WITH
    Product <- DOMAIN seed_frame(t), Cohort <- {"mass_market", "students", "affluent"},
    Subject <- DOMAIN CONSENT_FIXTURE, Channel <- Channel,
    Signal <- <<>>, Frames <- {seed_frame(t)}, Policies <- {ReferencePack},
    MaxSignals <- <<>>, signals <- seed_signals(t), frame <- seed_frame(t),
    policy <- ReferencePack, granted <- Granted

Breaching == [t \in Tenant |-> Book(t)!Breaching]

\* eval/datasets/golden_assessments.jsonl: the <<family, product>> results
\* labelled a breach, by reasoning about the books and never by the engine.
ExpectedBreaches ==
    [t \in Tenant |-> IF t = "clean-bank" THEN {} ELSE
        {<<"foreseeable_harm", "packaged">>, <<"target_market_drift", "isa">>,
         <<"price_vs_value", "loan">>, <<"vulnerable_customer", "save">>}]
=============================================================================
