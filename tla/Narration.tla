------------------------------- MODULE Narration -------------------------------
(***************************************************************************)
(* The narration of one settled assessment: the closed figure and source   *)
(* sets of the brief, the four guardrail screens around the narrator, and  *)
(* the grounding gate (domain/narration.py, AssessmentService._narrate).   *)
(*                                                                         *)
(* A text is what the gate and the screens can tell of it: whether it is   *)
(* blank and which numbers it mentions.  A number is written as the code   *)
(* writes it, and the gate's pattern finds digits without their sign: a    *)
(* mention of -2 is found as 2.                                            *)
(***************************************************************************)
EXTENDS Integers, FiniteSets, Functions, Folds

CONSTANTS
    Family,         \* outcome families
    MaxProducts,    \* bound on the products of an assessment
    MaxSignals,     \* bound on its signals
    Measurements,   \* what the engine may have observed: sets of numbers
    TenantFigures,  \* the numbers a tenant's name may contain: sets of numbers
    Source,         \* instruments an assessment may emit
    Foreign,        \* instruments none emits
    Headlines,      \* what a model's headline may mention: sets of numbers
    Bodies,         \* what its body may mention: sets of numbers
    Mask            \* the number in the mark a rewriting guardrail leaves

ASSUME BoundsAssumption == MaxProducts \in Nat /\ MaxSignals \in Nat
ASSUME FamilyAssumption == IsFiniteSet(Family)
ASSUME FiguresAssumption ==
    /\ Measurements \subseteq SUBSET Int
    /\ TenantFigures \subseteq SUBSET Nat
    /\ Headlines \subseteq SUBSET Int /\ Bodies \subseteq SUBSET Int
    /\ Mask \in Nat
ASSUME SourcesAssumption == Source \cap Foreign = {}

VARIABLES
    assessment,  \* the settled assessment
    guardrail,   \* which guardrail is bound
    narrator,    \* which narrator is bound
    pc,          \* the step _narrate takes next
    passed,      \* <<direction, text>> the guardrail let through, as returned
    sent,        \* the prompts the narrator was given
    draft,       \* the narrator's draft, its texts replaced by the screened ones
    narration,   \* the narration that stands
    blocked      \* BLOCKED events on the audit trail

vars == <<assessment, guardrail, narrator, pc, passed, sent, draft, narration, blocked>>
given == <<assessment, guardrail, narrator>>

-----------------------------------------------------------------------------
\* An unconfigured family is a gap for every product and a breach for none.
Total(counts) == FoldFunction(+, 0, counts)
Assessment ==
    {a \in [tenant: TenantFigures, products: 0..MaxProducts, signals: 0..MaxSignals,
            breaches: [Family -> 0..MaxProducts],
            breach_count: 0..(MaxProducts * Cardinality(Family)),
            unconfigured: SUBSET Family, evidence: [Family -> 0..MaxSignals],
            measured: Measurements, sources: SUBSET Source] :
        /\ a.breach_count = Total(a.breaches)
        /\ \A f \in Family :
            /\ a.breaches[f] <= a.products /\ a.evidence[f] <= a.signals
            /\ f \in a.unconfigured => a.breaches[f] = 0}

Gaps(a) == [f \in Family |-> IF f \in a.unconfigured THEN a.products ELSE 0]
GapCount(a) == a.products * Cardinality(a.unconfigured)
Findings(a, f) == a.breaches[f] + Gaps(a)[f]
ThemeFamilies(a) == {f \in Family : Findings(a, f) > 0}

Counts(a) == {a.breach_count, GapCount(a), a.products, a.signals}

\* _figures_for.  A theme names each product once, so it has as many products
\* as findings.
FiguresFor(a) ==
    Counts(a) \cup {a.products * Cardinality(Family)} \cup a.measured
    \cup UNION {{Findings(a, f), a.evidence[f]} : f \in ThemeFamilies(a)}

\* A title of an unconfigured family says how many gaps it has.
TitleFigures(a) == {Gaps(a)[f] : f \in ThemeFamilies(a) \cap a.unconfigured}

-----------------------------------------------------------------------------
Text == [blank: BOOLEAN, mentions: SUBSET Int]
Blank == [blank |-> TRUE, mentions |-> {}]
Saying(figures) == [blank |-> FALSE, mentions |-> figures]

\* _NUMBER.findall.
Found(text) == {IF n < 0 THEN -n ELSE n : n \in text.mentions}

NarrationRecord == [headline: Text, body: Text, sources: SUBSET (Source \cup Foreign)]

\* deterministic_narration: the headline, the counts, and each theme with its
\* findings.
Deterministic(a) ==
    [headline |-> Saying(a.tenant),
     body |-> Saying(a.tenant \cup Counts(a) \cup TitleFigures(a)
                     \cup {Findings(a, f) : f \in ThemeFamilies(a)}),
     sources |-> a.sources]

\* Mutant: the local narrator restates what was measured.
LocalDraftMeasured(a) ==
    [headline |-> Saying(a.tenant),
     body |-> Saying(a.tenant \cup Counts(a) \cup TitleFigures(a) \cup a.measured),
     sources |-> {}]

\* LocalNarrator: the same sentences from the brief, themes by title only.
LocalDraft(a) ==
    [headline |-> Saying(a.tenant),
     body |-> Saying(a.tenant \cup Counts(a) \cup TitleFigures(a)),
     sources |-> {}]

\* narration_prompt, with the tenant as the screen returned it.
Prompt(a, tenant) ==
    Saying(tenant.mentions \cup Counts(a) \cup TitleFigures(a) \cup FiguresFor(a))

\* Mutant: a draft with one published figure passes.
IsGroundedInPart(d, a) ==
    /\ Found(d.body) # {} => Found(d.body) \cap FiguresFor(a) # {}
    /\ d.sources \subseteq a.sources

\* is_grounded: the body's figures and the cited instruments.
IsGrounded(d, a) ==
    /\ Found(d.body) \subseteq FiguresFor(a)
    /\ d.sources \subseteq a.sources

\* Mutant: a grounded draft without citations keeps none.
GroundedOrFallbackUncited(d, a) == IF IsGrounded(d, a) THEN d ELSE Deterministic(a)

\* grounded_or_fallback, for a draft there is.
GroundedOrFallback(d, a) ==
    IF ~IsGrounded(d, a) THEN Deterministic(a)
    ELSE [headline |-> IF d.headline.blank THEN Deterministic(a).headline ELSE d.headline,
          body |-> d.body,
          sources |-> IF d.sources = {} THEN a.sources ELSE d.sources]

-----------------------------------------------------------------------------
Guardrails == {"local", "armor", "off", "client"}
Narrators == {"local", "model"}

\* Model Armor decides on a complete, clean screen and on nothing less.
ArmorStates == {"NO_MATCH_FOUND", "MATCH_FOUND", "absent"}
ArmorInvocations == {"SUCCESS", "PARTIAL"}
ArmorAllows(state, invocation) == state = "NO_MATCH_FOUND" /\ invocation = "SUCCESS"

\* The texts a screen may return for an allowed text: the shipped guardrails
\* decide and never rewrite; a client's own may mark or blank what it dislikes.
Allowed(text) ==
    CASE guardrail \in {"local", "off"} -> {text}
      [] guardrail = "armor" ->
            {text : v \in {v \in ArmorStates \X ArmorInvocations : ArmorAllows(v[1], v[2])}}
      [] guardrail = "client" -> {text, Blank, Saying(text.mentions \cup {Mask})}

\* Whether it may refuse: a heuristic match, anything but a complete and clean
\* Model Armor screen, a deadline or an error.  Off allows everything.
MayRefuse == guardrail # "off"

\* _screen: what is used from here on is the text as the screen returned it.
Screened(direction, text, returned) ==
    /\ returned \in Allowed(text)
    /\ passed' = passed \cup {<<direction, returned>>}

Input == {"tenant", "prompt"}
Output == {"headline", "body"}

TypeOK ==
    /\ assessment \in Assessment
    /\ guardrail \in Guardrails /\ narrator \in Narrators
    /\ pc \in Input \cup Output \cup {"narrate", "done"}
    /\ passed \subseteq {"INPUT", "OUTPUT"} \X Text
    /\ sent \subseteq Text
    /\ draft \in NarrationRecord /\ narration \in NarrationRecord
    /\ blocked \in 0..1

Init ==
    /\ assessment \in Assessment
    /\ guardrail \in Guardrails /\ narrator \in Narrators
    /\ pc = "tenant"
    /\ passed = {} /\ sent = {}
    /\ narration = Deterministic(assessment)
    /\ draft = narration
    /\ blocked = 0

\* Mutant: a refused draft keeps what was already screened.
RefuseHalfway ==
    /\ pc \in Input \cup Output /\ MayRefuse
    /\ blocked' = blocked + 1
    /\ pc' = "done"
    /\ narration' = IF pc = "body" THEN [narration EXCEPT !.headline = draft.headline]
                                   ELSE narration
    /\ UNCHANGED <<given, passed, sent, draft>>

\* Mutant: _narrate goes on after a screen that refused.
RefuseAndGoOn ==
    /\ pc \in Input \cup Output /\ MayRefuse
    /\ blocked' = blocked + 1
    /\ UNCHANGED <<given, pc, passed, sent, draft, narration>>

\* A block, or a guardrail that raised: audited once, and the fallback stands.
Refuse ==
    /\ pc \in Input \cup Output /\ MayRefuse
    /\ blocked' = blocked + 1
    /\ pc' = "done"
    /\ UNCHANGED <<given, passed, sent, draft, narration>>

ScreenTenant ==
    /\ pc = "tenant"
    /\ \E t \in Allowed(Saying(assessment.tenant)) :
          Screened("INPUT", Saying(assessment.tenant), t)
    /\ pc' = "prompt"
    /\ UNCHANGED <<given, sent, draft, narration, blocked>>

\* The narrator is given the screened prompt; it answers, declines or raises.
ScreenPrompt ==
    /\ pc = "prompt"
    /\ \E t \in {p[2] : p \in passed} :
          \E prompt \in Allowed(Prompt(assessment, t)) :
              /\ Screened("INPUT", Prompt(assessment, t), prompt)
              /\ sent' = {prompt}
    /\ pc' = "narrate"
    /\ UNCHANGED <<given, draft, narration, blocked>>

Drafts ==
    IF narrator = "local" THEN {LocalDraft(assessment)}
    ELSE [headline: {Blank} \cup {Saying(figures) : figures \in Headlines},
          body: {Blank} \cup {Saying(figures) : figures \in Bodies},
          sources: SUBSET (Source \cup Foreign)]

Narrate ==
    /\ pc = "narrate"
    /\ draft' \in Drafts
    /\ pc' = "headline"
    /\ UNCHANGED <<given, passed, sent, narration, blocked>>

NarratorFails ==
    /\ pc = "narrate" /\ narrator = "model"
    /\ pc' = "done"
    /\ UNCHANGED <<given, passed, sent, draft, narration, blocked>>

ScreenHeadline ==
    /\ pc = "headline"
    /\ \E headline \in Allowed(draft.headline) :
          /\ Screened("OUTPUT", draft.headline, headline)
          /\ draft' = [draft EXCEPT !.headline = headline]
    /\ pc' = "body"
    /\ UNCHANGED <<given, sent, narration, blocked>>

\* Mutant: the gate and the board are given the body the model wrote.
ScreenBodyUnused ==
    /\ pc = "body"
    /\ \E body \in Allowed(draft.body) : Screened("OUTPUT", draft.body, body)
    /\ narration' = GroundedOrFallback(draft, assessment)
    /\ pc' = "done"
    /\ UNCHANGED <<given, sent, draft, blocked>>

ScreenBody ==
    /\ pc = "body"
    /\ \E body \in Allowed(draft.body) :
          /\ Screened("OUTPUT", draft.body, body)
          /\ draft' = [draft EXCEPT !.body = body]
          /\ narration' = GroundedOrFallback([draft EXCEPT !.body = body], assessment)
    /\ pc' = "done"
    /\ UNCHANGED <<given, sent, blocked>>

Next ==
    \/ ScreenTenant \/ ScreenPrompt \/ ScreenHeadline \/ ScreenBody
    \/ Refuse
    \/ Narrate \/ NarratorFails

Spec == Init /\ [][Next]_vars

-----------------------------------------------------------------------------
\* What a board may be shown: the engine's figures and those of the tenant's name.
Published == FiguresFor(assessment) \cup assessment.tenant

\* No figure reaches a board in the body that the engine did not publish, up to
\* its sign: not from a model, not from the mark a guardrail left, and not from
\* the deterministic sentences (is_grounded).  The sign is what the gate does not
\* look at (BodyIsPublished).
BodyIsPublishedUpToSign ==
    \A n \in narration.body.mentions : {n, -n} \cap Published # {}

\* A narration cites instruments the assessment emitted, and cites some
\* whenever there are some (grounded_or_fallback).
CitationsAreEmitted ==
    /\ narration.sources \subseteq assessment.sources
    /\ assessment.sources # {} => narration.sources # {}

\* Every text of a standing draft is one an output screen returned, and a
\* narrator is given only a prompt an input screen returned whole (rule R1).
OnlyScreenedTextStands ==
    /\ \A prompt \in sent : <<"INPUT", prompt>> \in passed
    /\ narration.body # Deterministic(assessment).body =>
          <<"OUTPUT", narration.body>> \in passed
    /\ narration.headline # Deterministic(assessment).headline =>
          <<"OUTPUT", narration.headline>> \in passed

\* A refusal leaves one event and no part of a draft (_narrate).
RefusalIsWhole == blocked > 0 => narration = Deterministic(assessment)

\* The gate is not so strict that it drops a correct narration: the local
\* narrator's own draft stands when the guardrail let it through unchanged and
\* the tenant's name has no digits (adapters/local/narration.py).
LocalDraftStands ==
    /\ narrator = "local" /\ guardrail # "client" /\ pc = "done" /\ blocked = 0
    /\ assessment.tenant = {}
    => narration.body = LocalDraft(assessment).body

\* domain/narration.py: a draft "may mention only figures the engine PUBLISHED",
\* so a model can never move a number in front of a board.
\* The code does not keep this one (README, section 6).
HeadlineIsPublished == narration.headline.mentions \subseteq Published

\* The same sentence of the body, sign included.
\* The code does not keep this one (README, section 6).
BodyIsPublished == narration.body.mentions \subseteq Published
=============================================================================
