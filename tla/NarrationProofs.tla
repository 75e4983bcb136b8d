---------------------------- MODULE NarrationProofs ----------------------------
(***************************************************************************)
(* What holds of Narration for every assessment, guardrail, narrator and   *)
(* draft: the types, the grounding of the body and the citations, the      *)
(* screening of what stands, and the wholeness of a refusal.               *)
(***************************************************************************)
EXTENDS Narration, FiniteSetTheorems, TLAPS

-----------------------------------------------------------------------------
(* The figures of an assessment.                                           *)

\* Every count an assessment carries is a natural number, so the gate's
\* unsigned pattern finds it as it is written.
LEMMA CountsAreNatural ==
    ASSUME NEW a \in Assessment
    PROVE  /\ a.tenant \subseteq Nat
           /\ a.products \in Nat
           /\ Counts(a) \subseteq Nat
           /\ \A f \in Family : Gaps(a)[f] \in Nat /\ Findings(a, f) \in Nat
           /\ TitleFigures(a) \subseteq {a.products}
<1>1. /\ a.tenant \in TenantFigures /\ a.products \in 0..MaxProducts
      /\ a.signals \in 0..MaxSignals /\ a.unconfigured \subseteq Family
      /\ a.breaches \in [Family -> 0..MaxProducts]
      /\ a.breach_count \in 0..(MaxProducts * Cardinality(Family))
  BY DEF Assessment
<1>2. Cardinality(Family) \in Nat /\ Cardinality(a.unconfigured) \in Nat
  BY <1>1, FamilyAssumption, FS_CardinalityType, FS_Subset
<1>3. a.products \in Nat /\ a.signals \in Nat /\ a.breach_count \in Nat
  BY <1>1, <1>2, BoundsAssumption
<1>4. GapCount(a) \in Nat
  BY <1>2, <1>3 DEF GapCount
<1>5. \A f \in Family : Gaps(a)[f] \in {0, a.products} /\ a.breaches[f] \in Nat
  BY <1>1, BoundsAssumption DEF Gaps
<1>6. \A f \in Family : Gaps(a)[f] \in Nat /\ Findings(a, f) \in Nat
  BY <1>3, <1>5 DEF Findings
<1>7. TitleFigures(a) \subseteq {a.products}
  BY <1>1 DEF TitleFigures, Gaps, ThemeFamilies
<1> QED
  BY <1>1, <1>3, <1>4, <1>6, <1>7, FiguresAssumption DEF Counts

LEMMA FiguresAreNumbers ==
    ASSUME NEW a \in Assessment
    PROVE  FiguresFor(a) \subseteq Int
<1>1. a.measured \subseteq Int
  BY FiguresAssumption DEF Assessment
<1>2. \A f \in Family : a.evidence[f] \in Int
  BY BoundsAssumption DEF Assessment
<1>3. Cardinality(Family) \in Nat
  BY FamilyAssumption, FS_CardinalityType
<1>4. a.products * Cardinality(Family) \in Int
  BY <1>3, CountsAreNatural
<1>5. UNION {{Findings(a, f), a.evidence[f]} : f \in ThemeFamilies(a)} \subseteq Int
  BY <1>2, CountsAreNatural DEF ThemeFamilies
<1> QED
  BY <1>1, <1>4, <1>5, CountsAreNatural DEF FiguresFor

LEMMA FallbackIsTyped ==
    ASSUME NEW a \in Assessment
    PROVE  Deterministic(a) \in NarrationRecord /\ LocalDraft(a) \in NarrationRecord
<1>1. {Findings(a, f) : f \in ThemeFamilies(a)} \subseteq Int
  BY CountsAreNatural DEF ThemeFamilies
<1>2. a.tenant \subseteq Int /\ Counts(a) \subseteq Int /\ TitleFigures(a) \subseteq Int
  BY CountsAreNatural
<1>3. a.sources \subseteq Source
  BY DEF Assessment
<1> QED
  BY <1>1, <1>2, <1>3 DEF Deterministic, LocalDraft, NarrationRecord, Text, Saying

\* The deterministic sentences pass the gate they are the fallback of, but for
\* the figures of the tenant's own name.
LEMMA FallbackIsPublished ==
    ASSUME NEW a \in Assessment
    PROVE  Found(Deterministic(a).body) \subseteq FiguresFor(a) \cup a.tenant
<1>1. SUFFICES ASSUME NEW n \in Deterministic(a).body.mentions
               PROVE  n \in Nat /\ n \in FiguresFor(a) \cup a.tenant
  BY DEF Found
<1>2. \/ n \in a.tenant \/ n \in Counts(a) \/ n \in TitleFigures(a)
      \/ n \in {Findings(a, f) : f \in ThemeFamilies(a)}
  BY <1>1 DEF Deterministic, Saying
<1>3. CASE n \in a.tenant
  BY <1>3, CountsAreNatural
<1>4. CASE n \in Counts(a) \/ n \in TitleFigures(a)
  BY <1>4, CountsAreNatural DEF FiguresFor, Counts
<1>5. CASE n \in {Findings(a, f) : f \in ThemeFamilies(a)}
  BY <1>5, CountsAreNatural DEF FiguresFor, ThemeFamilies
<1> QED
  BY <1>2, <1>3, <1>4, <1>5

\* What is found in a text says which figures it mentions, up to their sign.
LEMMA FoundUpToSign ==
    ASSUME NEW text, NEW figures, Found(text) \subseteq figures
    PROVE  \A n \in text.mentions : {n, -n} \cap figures # {}
<1> SUFFICES ASSUME NEW n \in text.mentions PROVE {n, -n} \cap figures # {}
  OBVIOUS
<1>1. (IF n < 0 THEN -n ELSE n) \in figures
  BY DEF Found
<1> QED
  BY <1>1

\* Whatever draft is kept or dropped, the outcome is grounded and cites only
\* what was emitted, and some of it if there is any.
LEMMA OutcomeIsGrounded ==
    ASSUME NEW a \in Assessment, NEW d
    PROVE  LET n == GroundedOrFallback(d, a)
           IN  /\ Found(n.body) \subseteq FiguresFor(a) \cup a.tenant
               /\ n.sources \subseteq a.sources
               /\ a.sources # {} => n.sources # {}
<1>1. CASE IsGrounded(d, a)
  BY <1>1 DEF GroundedOrFallback, IsGrounded, Found
<1>2. CASE ~IsGrounded(d, a)
  <2>1. GroundedOrFallback(d, a) = Deterministic(a)
    BY <1>2 DEF GroundedOrFallback
  <2>2. Deterministic(a).sources = a.sources
    BY DEF Deterministic
  <2> QED
    BY <2>1, <2>2, FallbackIsPublished
<1> QED
  BY <1>1, <1>2

-----------------------------------------------------------------------------
(* Types.                                                                  *)

LEMMA SayingIsText ==
    /\ Blank \in Text
    /\ \A figures \in SUBSET Int : Saying(figures) \in Text
BY DEF Blank, Saying, Text

\* A guardrail returns a text for a text.
LEMMA AllowedIsText ==
    ASSUME guardrail \in Guardrails, NEW t \in Text
    PROVE  Allowed(t) \subseteq Text
<1>1. t.mentions \cup {Mask} \in SUBSET Int
  BY FiguresAssumption DEF Text
<1>2. Saying(t.mentions \cup {Mask}) \in Text
  BY <1>1, SayingIsText
<1> QED
  BY <1>2, SayingIsText DEF Allowed, Guardrails

LEMMA PromptIsText ==
    ASSUME NEW a \in Assessment, NEW t \in Text
    PROVE  Saying(a.tenant) \in Text /\ Prompt(a, t) \in Text
<1>1. a.tenant \in SUBSET Int
  BY CountsAreNatural
<1>2. t.mentions \cup Counts(a) \cup TitleFigures(a) \cup FiguresFor(a) \in SUBSET Int
  BY CountsAreNatural, FiguresAreNumbers DEF Text
<1> QED
  BY <1>1, <1>2, SayingIsText DEF Prompt

LEMMA DraftsAreTyped ==
    ASSUME assessment \in Assessment
    PROVE  Drafts \subseteq NarrationRecord
<1>1. \A figures \in Headlines \cup Bodies : Saying(figures) \in Text
  BY SayingIsText, FiguresAssumption
<1>2. {Blank} \cup {Saying(figures) : figures \in Headlines} \subseteq Text
  BY <1>1, SayingIsText
<1>3. {Blank} \cup {Saying(figures) : figures \in Bodies} \subseteq Text
  BY <1>1, SayingIsText
<1> QED
  BY <1>2, <1>3, FallbackIsTyped DEF Drafts, NarrationRecord

LEMMA OutcomeIsTyped ==
    ASSUME NEW a \in Assessment, NEW d \in NarrationRecord
    PROVE  GroundedOrFallback(d, a) \in NarrationRecord
<1>1. a.sources \subseteq Source
  BY DEF Assessment
<1> QED
  BY <1>1, FallbackIsTyped DEF GroundedOrFallback, NarrationRecord

LEMMA TypeInit == Init => TypeOK
BY FallbackIsTyped DEF Init, TypeOK, Input, Output

\* One event at most: a refusal ends the narration, so it is inductive only
\* together with what "done" means.
RefusedIsDone == blocked > 0 => pc = "done"

LEMMA TypeStep == TypeOK /\ RefusedIsDone /\ [Next]_vars => (TypeOK /\ RefusedIsDone)'
<1> SUFFICES ASSUME TypeOK, RefusedIsDone, [Next]_vars PROVE (TypeOK /\ RefusedIsDone)'
  OBVIOUS
<1> USE DEF TypeOK, RefusedIsDone, Input, Output, given, Screened
<1>1. CASE ScreenTenant
  <2>1. Saying(assessment.tenant) \in Text
    BY SayingIsText, CountsAreNatural
  <2> QED
    BY <1>1, <2>1, AllowedIsText DEF ScreenTenant
<1>2. CASE ScreenPrompt
  <2>1. PICK t \in {p[2] : p \in passed}, prompt \in Text :
          /\ passed' = passed \cup {<<"INPUT", prompt>>}
          /\ sent' = {prompt}
    BY <1>2, PromptIsText, AllowedIsText DEF ScreenPrompt
  <2> QED
    BY <1>2, <2>1 DEF ScreenPrompt
<1>3. CASE Narrate
  BY <1>3, DraftsAreTyped DEF Narrate
<1>4. CASE NarratorFails
  BY <1>4 DEF NarratorFails
<1>5. CASE ScreenHeadline
  <2>1. PICK headline \in Text :
          /\ passed' = passed \cup {<<"OUTPUT", headline>>}
          /\ draft' = [draft EXCEPT !.headline = headline]
    BY <1>5, AllowedIsText DEF ScreenHeadline, NarrationRecord
  <2> QED
    BY <1>5, <2>1 DEF ScreenHeadline, NarrationRecord
<1>6. CASE ScreenBody
  <2>1. PICK body \in Text :
          /\ passed' = passed \cup {<<"OUTPUT", body>>}
          /\ draft' = [draft EXCEPT !.body = body]
          /\ narration' = GroundedOrFallback([draft EXCEPT !.body = body], assessment)
    BY <1>6, AllowedIsText DEF ScreenBody, NarrationRecord
  <2>2. [draft EXCEPT !.body = body] \in NarrationRecord
    BY <2>1 DEF NarrationRecord
  <2>3. narration' \in NarrationRecord
    BY <2>1, <2>2, OutcomeIsTyped
  <2> QED
    BY <1>6, <2>1, <2>2, <2>3 DEF ScreenBody
<1>7. CASE Refuse
  BY <1>7 DEF Refuse
<1>8. CASE UNCHANGED vars
  BY <1>8 DEF vars
<1> QED
  BY <1>1, <1>2, <1>3, <1>4, <1>5, <1>6, <1>7, <1>8 DEF Next

\* Every variable keeps its type, and a narration is refused at most once.
THEOREM TypeCorrect == Spec => []TypeOK
<1>1. Init => TypeOK /\ RefusedIsDone
  BY TypeInit DEF Init, RefusedIsDone
<1> QED
  BY <1>1, TypeStep, PTL DEF Spec

-----------------------------------------------------------------------------
(* Grounding, screening and refusal.                                       *)

\* Until it is decided, the deterministic narration stands.
UndecidedIsFallback == pc # "done" => narration = Deterministic(assessment)

\* The headline the gate is about to judge is the one the screen returned.
HeadlineIsScreened == pc = "body" => <<"OUTPUT", draft.headline>> \in passed

IInv ==
    /\ TypeOK /\ RefusedIsDone
    /\ UndecidedIsFallback /\ HeadlineIsScreened
    /\ BodyIsPublishedUpToSign /\ CitationsAreEmitted /\ OnlyScreenedTextStands
    /\ RefusalIsWhole

\* The fallback satisfies everything that is asked of a narration.
LEMMA FallbackStands ==
    ASSUME NEW a \in Assessment
    PROVE  /\ Found(Deterministic(a).body) \subseteq FiguresFor(a) \cup a.tenant
           /\ Deterministic(a).sources = a.sources
BY FallbackIsPublished DEF Deterministic

LEMMA InvInit == Init => IInv
<1> SUFFICES ASSUME Init PROVE IInv
  OBVIOUS
<1>1. TypeOK /\ RefusedIsDone
  BY TypeInit DEF Init, RefusedIsDone
<1>2. narration = Deterministic(assessment) /\ assessment \in Assessment
  BY DEF Init
<1>3. BodyIsPublishedUpToSign /\ CitationsAreEmitted
  BY <1>2, FallbackStands, FoundUpToSign
     DEF BodyIsPublishedUpToSign, Published, CitationsAreEmitted
<1>4. OnlyScreenedTextStands /\ RefusalIsWhole /\ UndecidedIsFallback /\ HeadlineIsScreened
  BY <1>2 DEF Init, OnlyScreenedTextStands, RefusalIsWhole, UndecidedIsFallback,
              HeadlineIsScreened
<1> QED
  BY <1>1, <1>3, <1>4 DEF IInv

\* A step that leaves the narration alone keeps what is said of it, as long as
\* the screens' record grows and covers the prompts sent.
LEMMA StandingStep ==
    ASSUME IInv, UNCHANGED <<assessment, narration>>, passed \subseteq passed',
           \A prompt \in sent' : <<"INPUT", prompt>> \in passed'
    PROVE  BodyIsPublishedUpToSign' /\ CitationsAreEmitted' /\ OnlyScreenedTextStands'
BY DEF IInv, BodyIsPublishedUpToSign, Published, CitationsAreEmitted,
       OnlyScreenedTextStands

LEMMA PublishedStep ==
    ASSUME IInv, ScreenBody
    PROVE  /\ BodyIsPublishedUpToSign' /\ CitationsAreEmitted' /\ OnlyScreenedTextStands'
           /\ RefusalIsWhole'
<1> DEFINE screened(body) == [draft EXCEPT !.body = body]
<1>1. PICK body \in Allowed(draft.body) :
        /\ passed' = passed \cup {<<"OUTPUT", body>>}
        /\ narration' = GroundedOrFallback(screened(body), assessment)
  BY DEF ScreenBody, Screened
<1>2. UNCHANGED <<assessment, sent, blocked>> /\ assessment \in Assessment
  BY DEF ScreenBody, given, IInv, TypeOK
<1>3. BodyIsPublishedUpToSign' /\ CitationsAreEmitted'
  BY <1>1, <1>2, OutcomeIsGrounded, FoundUpToSign
     DEF BodyIsPublishedUpToSign, Published, CitationsAreEmitted
<1>4. blocked = 0
  BY DEF ScreenBody, IInv, TypeOK, RefusedIsDone
<1>5. draft \in NarrationRecord /\ <<"OUTPUT", draft.headline>> \in passed
  BY DEF ScreenBody, IInv, TypeOK, HeadlineIsScreened
<1>6. /\ screened(body).body = body
      /\ screened(body).headline = draft.headline
  BY <1>5 DEF NarrationRecord
<1>7. \/ narration' = Deterministic(assessment)
      \/ /\ narration'.body = body
         /\ narration'.headline \in {draft.headline, Deterministic(assessment).headline}
  <2> HIDE DEF screened
  <2> QED
    BY <1>1, <1>6 DEF GroundedOrFallback
<1>8. OnlyScreenedTextStands'
  BY <1>1, <1>2, <1>5, <1>7 DEF OnlyScreenedTextStands, IInv
<1> QED
  BY <1>2, <1>3, <1>4, <1>8 DEF RefusalIsWhole

LEMMA InvStep == IInv /\ [Next]_vars => IInv'
<1> SUFFICES ASSUME IInv, [Next]_vars PROVE IInv'
  OBVIOUS
<1>1. (TypeOK /\ RefusedIsDone)'
  BY TypeStep DEF IInv
<1> DEFINE Standing == BodyIsPublishedUpToSign /\ CitationsAreEmitted /\ OnlyScreenedTextStands
           Pending == UndecidedIsFallback /\ HeadlineIsScreened /\ RefusalIsWhole
<1> USE DEF IInv, TypeOK, given, Screened, UndecidedIsFallback, HeadlineIsScreened,
            RefusalIsWhole, RefusedIsDone
<1>2. CASE ScreenTenant
  <2>1. Standing'
    BY <1>2, StandingStep DEF ScreenTenant, OnlyScreenedTextStands
  <2> QED BY <1>1, <1>2, <2>1 DEF ScreenTenant
<1>3. CASE ScreenPrompt
  <2>1. \E prompt : passed' = passed \cup {<<"INPUT", prompt>>} /\ sent' = {prompt}
    BY <1>3 DEF ScreenPrompt
  <2>2. Standing'
    BY <1>3, <2>1, StandingStep DEF ScreenPrompt
  <2> QED BY <1>1, <1>3, <2>2 DEF ScreenPrompt
<1>4. CASE Narrate
  <2>1. Standing'
    BY <1>4, StandingStep DEF Narrate, OnlyScreenedTextStands
  <2> QED BY <1>1, <1>4, <2>1 DEF Narrate
<1>5. CASE NarratorFails
  <2>1. Standing'
    BY <1>5, StandingStep DEF NarratorFails, OnlyScreenedTextStands
  <2> QED BY <1>1, <1>5, <2>1 DEF NarratorFails
<1>6. CASE ScreenHeadline
  <2>1. PICK headline \in Allowed(draft.headline) :
          /\ passed' = passed \cup {<<"OUTPUT", headline>>}
          /\ draft' = [draft EXCEPT !.headline = headline]
    BY <1>6 DEF ScreenHeadline
  <2>2. draft'.headline = headline
    BY <2>1 DEF NarrationRecord
  <2>3. Standing'
    BY <1>6, <2>1, StandingStep DEF ScreenHeadline, OnlyScreenedTextStands
  <2> QED BY <1>1, <1>6, <2>1, <2>2, <2>3 DEF ScreenHeadline
<1>7. CASE ScreenBody
  BY <1>1, <1>7, PublishedStep DEF ScreenBody
<1>8. CASE Refuse
  <2>1. Standing'
    BY <1>8, StandingStep DEF Refuse, OnlyScreenedTextStands
  <2> QED BY <1>1, <1>8, <2>1 DEF Refuse, Input, Output
<1>9. CASE UNCHANGED vars
  <2>1. Standing'
    BY <1>9, StandingStep DEF vars, OnlyScreenedTextStands
  <2> QED BY <1>1, <1>9, <2>1 DEF vars
<1> QED
  BY <1>2, <1>3, <1>4, <1>5, <1>6, <1>7, <1>8, <1>9 DEF Next

LEMMA Invariance == Spec => []IInv
BY InvInit, InvStep, PTL DEF Spec

\* Whatever a model writes and a guardrail returns, every figure of the body
\* that stands is one the engine published or the tenant's name has, or the
\* opposite of one: the gate does not read the sign.
THEOREM BodyPublishedUpToSign == Spec => []BodyIsPublishedUpToSign
<1>1. IInv => BodyIsPublishedUpToSign
  BY DEF IInv
<1> QED
  BY <1>1, Invariance, PTL

\* A narration cites emitted instruments, and some whenever there are some.
THEOREM CitationsAlwaysEmitted == Spec => []CitationsAreEmitted
<1>1. IInv => CitationsAreEmitted
  BY DEF IInv
<1> QED
  BY <1>1, Invariance, PTL

\* No text of a draft stands, and no prompt is sent, that no screen returned.
THEOREM StandingTextIsScreened == Spec => []OnlyScreenedTextStands
<1>1. IInv => OnlyScreenedTextStands
  BY DEF IInv
<1> QED
  BY <1>1, Invariance, PTL

\* After a refusal the deterministic narration stands, whole.
THEOREM RefusalsAreWhole == Spec => []RefusalIsWhole
<1>1. IInv => RefusalIsWhole
  BY DEF IInv
<1> QED
  BY <1>1, Invariance, PTL

-----------------------------------------------------------------------------
(* The local narrator.                                                     *)

\* On its way through the screens, its draft is still its own.
LocalDraftIsKept ==
    narrator = "local" /\ guardrail # "client" /\ pc \in Output =>
        draft.body = LocalDraft(assessment).body /\ draft.sources = {}

LInv == TypeOK /\ RefusedIsDone /\ LocalDraftIsKept /\ LocalDraftStands

\* Its sentences carry no figure outside the closed set.
LEMMA LocalDraftIsGrounded ==
    ASSUME NEW a \in Assessment, a.tenant = {}
    PROVE  Found(LocalDraft(a).body) \subseteq FiguresFor(a)
<1>1. SUFFICES ASSUME NEW n \in LocalDraft(a).body.mentions
               PROVE  n \in Nat /\ n \in FiguresFor(a)
  BY DEF Found
<1>2. n \in Counts(a) \/ n \in TitleFigures(a)
  BY <1>1 DEF LocalDraft, Saying
<1> QED
  BY <1>2, CountsAreNatural DEF FiguresFor, Counts

\* The shipped guardrails return an allowed text as it is.
LEMMA ShippedNeverRewrite ==
    ASSUME guardrail \in Guardrails, guardrail # "client", NEW t, NEW u \in Allowed(t)
    PROVE  u = t
BY DEF Allowed, Guardrails

LEMMA LocalBodyStep ==
    ASSUME LInv, ScreenBody
    PROVE  LocalDraftStands'
<1> SUFFICES ASSUME narrator = "local", guardrail # "client", assessment.tenant = {}
             PROVE  narration'.body = LocalDraft(assessment).body
  BY DEF ScreenBody, given, LocalDraftStands
<1>1. PICK body \in Allowed(draft.body) :
        narration' = GroundedOrFallback([draft EXCEPT !.body = body], assessment)
  BY DEF ScreenBody
<1>2. /\ assessment \in Assessment /\ guardrail \in Guardrails
      /\ draft \in NarrationRecord /\ draft.sources = {}
      /\ draft.body = LocalDraft(assessment).body
  BY DEF ScreenBody, LInv, TypeOK, LocalDraftIsKept, Output
<1>3. body = draft.body
  BY <1>1, <1>2, ShippedNeverRewrite
<1>4. [draft EXCEPT !.body = body] = draft
  BY <1>2, <1>3 DEF NarrationRecord
<1>5. IsGrounded(draft, assessment)
  BY <1>2, LocalDraftIsGrounded DEF IsGrounded
<1> QED
  BY <1>1, <1>2, <1>4, <1>5 DEF GroundedOrFallback

LEMMA LocalStep == LInv /\ [Next]_vars => LInv'
<1> SUFFICES ASSUME LInv, [Next]_vars PROVE LInv'
  OBVIOUS
<1>1. (TypeOK /\ RefusedIsDone)'
  BY TypeStep DEF LInv
<1> USE DEF LInv, TypeOK, given, LocalDraftIsKept, LocalDraftStands, Input, Output
<1>2. CASE ScreenTenant \/ ScreenPrompt
  BY <1>1, <1>2 DEF ScreenTenant, ScreenPrompt
<1>3. CASE Narrate
  <2>1. narrator = "local" => draft' = LocalDraft(assessment)
    BY <1>3 DEF Narrate, Drafts
  <2> QED BY <1>1, <1>3, <2>1 DEF Narrate, LocalDraft
<1>4. CASE NarratorFails
  BY <1>1, <1>4 DEF NarratorFails
<1>5. CASE ScreenHeadline
  <2>1. draft'.body = draft.body /\ draft'.sources = draft.sources
    BY <1>5 DEF ScreenHeadline, NarrationRecord
  <2> QED BY <1>1, <1>5, <2>1 DEF ScreenHeadline
<1>6. CASE ScreenBody
  <2>1. LocalDraftStands'
    BY <1>6, LocalBodyStep
  <2> QED BY <1>1, <1>6, <2>1 DEF ScreenBody
<1>7. CASE Refuse
  BY <1>1, <1>7 DEF Refuse
<1>8. CASE UNCHANGED vars
  BY <1>1, <1>8 DEF vars
<1> QED
  BY <1>2, <1>3, <1>4, <1>5, <1>6, <1>7, <1>8 DEF Next

\* The gate drops no draft of the local narrator that was let through as it is,
\* about a tenant whose name has no digits.
THEOREM LocalDraftAlwaysStands == Spec => []LocalDraftStands
<1>1. Init => LInv
  BY TypeInit DEF Init, LInv, RefusedIsDone, LocalDraftIsKept, LocalDraftStands, Output
<1>2. LInv => LocalDraftStands
  BY DEF LInv
<1> QED
  BY <1>1, <1>2, LocalStep, PTL DEF Spec
=============================================================================
