----------------------------- MODULE OutcomeTests -----------------------------
(***************************************************************************)
(* The deterministic engine (domain/outcome_tests.py), its aggregation     *)
(* (overall_verdict), the theme synthesis (domain/theme_synthesis.py) and  *)
(* the consent context AssessmentService gives it.                         *)
(*                                                                         *)
(* The state is what a tenant's sources hold: a feed of signals that grows *)
(* between two assessments.  Everything else is a function of it, so an    *)
(* action property compares the assessments before and after a signal.     *)
(*                                                                         *)
(* Metrics are integers in millionths, the six decimals the code rounds    *)
(* to.  Fee per value is an integer ratio.                                 *)
(***************************************************************************)
EXTENDS Integers, Sequences, FiniteSets, FiniteSetsExt

CONSTANTS
    Product,     \* products a signal may name
    Cohort,      \* customer cohorts
    Subject,     \* pseudonymous customers
    Channel,     \* contact channels
    Signal,      \* frame -> the signals that tenant's feed may carry
    Frames,      \* the product frames a tenant may have
    Policies,    \* the packs a deployment may load
    MaxSignals   \* frame -> bound on its feed

VARIABLES
    signals,     \* the feed, oldest first
    frame,       \* product -> its target market and fee-per-value ratio
    policy,      \* configured family -> its threshold and severity
    granted      \* <<subject, channel>> pairs the consent store allows

vars == <<signals, frame, policy, granted>>

-----------------------------------------------------------------------------
Kind == {"complaint", "conduct_flag", "qa_failure",
         "vulnerability_cue", "contact_outcome"}
Family == {"foreseeable_harm", "target_market_drift",
           "price_vs_value", "vulnerable_customer"}
Severity == {"low", "medium", "high", "critical"}
Outcome == {"pass", "breach", "gap"}

Rank == [low |-> 0, medium |-> 1, high |-> 2, critical |-> 3]

\* A signal carries a magnitude; it need name no subject and no channel.
SignalType == [kind: Kind, product: Product, cohort: Cohort, value: Nat,
               subject: Subject \cup {""}, channel: Channel \cup {""}]
ProfileType == [target: SUBSET Cohort, ratio: Nat]
ThresholdType == [threshold: Int, severity: Severity]

ASSUME SignalAssumption ==
    (\A f \in Frames : Signal[f] \subseteq SignalType) /\ "email" \in Channel
ASSUME FramesAssumption ==
    \A f \in Frames :
        /\ DOMAIN f \subseteq Product /\ IsFiniteSet(DOMAIN f)
        /\ \A p \in DOMAIN f : f[p] \in ProfileType
ASSUME PoliciesAssumption ==
    \A y \in Policies : DOMAIN y \subseteq Family /\ \A f \in DOMAIN y : y[f] \in ThresholdType
ASSUME MaxSignalsAssumption == MaxSignals \in [Frames -> Nat]

Init ==
    /\ signals = <<>>
    /\ frame \in Frames
    /\ policy \in Policies
    /\ granted \in SUBSET (Subject \X Channel)

\* The warehouse gains a signal.
Observe(s) ==
    /\ Len(signals) < MaxSignals[frame]
    /\ signals' = Append(signals, s)
    /\ UNCHANGED <<frame, policy, granted>>

Next == \E s \in Signal[frame] : Observe(s)

Spec == Init /\ [][Next]_vars

-----------------------------------------------------------------------------
Micro == 1000000

\* round(numerator / denominator, 6) of a metric already scaled to millionths.
Rounded(n, d) == (2 * n + d) \div (2 * d)

\* by_product: the positions in the feed of a product's signals.
About(p) == {i \in DOMAIN signals : signals[i].product = p}
OfKind(kinds, at) == {i \in at : signals[i].kind \in kinds}
Subjects(at) == {signals[i].subject : i \in at} \ {""}

-----------------------------------------------------------------------------
\* The consent context: each vulnerable subject is asked about on the channel
\* of the last contact that names one, "email" when none does.
ContactsOf(x) ==
    {i \in OfKind({"contact_outcome"}, DOMAIN signals) :
        signals[i].subject = x /\ signals[i].channel # ""}

\* Mutant: a subject no contact names a channel for is not asked about.
ConsentDeniedReachable ==
    {x \in Subjects(OfKind({"vulnerability_cue"}, DOMAIN signals)) :
        ContactsOf(x) # {} /\ <<x, signals[Max(ContactsOf(x))].channel>> \notin granted}

ChannelAsked(x) ==
    IF ContactsOf(x) = {} THEN "email" ELSE signals[Max(ContactsOf(x))].channel

ConsentDenied ==
    {x \in Subjects(OfKind({"vulnerability_cue"}, DOMAIN signals)) :
        <<x, ChannelAsked(x)>> \notin granted}

-----------------------------------------------------------------------------
\* Test 1, foreseeable harm: a weighted count.
HarmWeight == [complaint |-> 1, conduct_flag |-> 2, qa_failure |-> 1]

HarmSignals(p) == OfKind(DOMAIN HarmWeight, About(p))

\* Mutant: the newest signal replaces the score instead of adding to it.
HarmScoreLatest(p) ==
    IF HarmSignals(p) = {} THEN 0
    ELSE LET last == signals[Max(HarmSignals(p))] IN HarmWeight[last.kind] * last.value

HarmScore(p) ==
    SumFunction([i \in HarmSignals(p) |-> HarmWeight[signals[i].kind] * signals[i].value])

\* Test 2, target-market drift: the share of signals from other cohorts.
OffTarget(p) == {i \in About(p) : signals[i].cohort \notin frame[p].target}

\* Mutant: the share is taken of the whole feed.
DriftOfFeed(p) ==
    IF signals = <<>> THEN 0
    ELSE Rounded(Micro * Cardinality(OffTarget(p)), Len(signals))

Drift(p) ==
    IF About(p) = {} THEN 0
    ELSE Rounded(Micro * Cardinality(OffTarget(p)), Cardinality(About(p)))

\* Test 3, price against value: a robust z-score over the product set.
\* sorted(values)[k - 1], the values indexed by a set.
KthSmallest(value, k) ==
    CHOOSE x \in {value[p] : p \in DOMAIN value} :
        /\ Cardinality({p \in DOMAIN value : value[p] < x}) < k
        /\ Cardinality({p \in DOMAIN value : value[p] <= x}) >= k

\* Mutant: the lower of the two middle positions is off by one.
TwiceMedianOffByOne(value) ==
    LET n == Cardinality(DOMAIN value) IN
    IF n < 2 THEN 0 ELSE KthSmallest(value, n \div 2) + KthSmallest(value, n \div 2)

\* Twice the median, which is an integer for an even number of values too.
TwiceMedian(value) ==
    LET n == Cardinality(DOMAIN value) IN
    IF n = 0 THEN 0
    ELSE KthSmallest(value, (n + 1) \div 2) + KthSmallest(value, n \div 2 + 1)

Ratios == [p \in DOMAIN frame |-> frame[p].ratio]
Distance(a, b) == IF a < b THEN b - a ELSE a - b

\* 0.6745 (value - median) / MAD, with +-999 where there is no spread.
PriceZ(p) ==
    LET m2 == TwiceMedian(Ratios)
        mad4 == TwiceMedian([q \in DOMAIN frame |-> Distance(2 * frame[q].ratio, m2)])
        above == 2 * frame[p].ratio - m2
    IN  IF mad4 > 0 THEN Rounded(674500 * 2 * above, mad4)
        ELSE IF above = 0 THEN 0
        ELSE IF above > 0 THEN 999 * Micro ELSE -999 * Micro

\* Test 4, vulnerable customers contacted against a preference.
Vulnerable(p) == Subjects(OfKind({"vulnerability_cue"}, About(p)))
Contacted(p) == Subjects(OfKind({"contact_outcome"}, About(p)))
Mishandled(p) == Vulnerable(p) \cap Contacted(p) \cap ConsentDenied
-----------------------------------------------------------------------------
\* The metric of one test, and the signals that contribute to it.
Observed(f, p) ==
    CASE f = "foreseeable_harm"    -> HarmScore(p)
      [] f = "target_market_drift" -> Drift(p)
      [] f = "price_vs_value"      -> PriceZ(p)
      [] f = "vulnerable_customer" -> Micro * Cardinality(Mishandled(p))

Contributing(f, p) ==
    CASE f = "foreseeable_harm"    -> HarmSignals(p)
      [] f = "target_market_drift" -> OffTarget(p)
      [] f = "price_vs_value"      -> {}
      [] f = "vulnerable_customer" ->
            {i \in OfKind({"vulnerability_cue", "contact_outcome"}, About(p)) :
                signals[i].subject \in Mishandled(p)}

\* Mutant: a family the pack leaves out reads as a pass.
OutcomeOfUnmeasured(f, p) ==
    IF f \notin DOMAIN policy THEN "pass"
    ELSE IF Observed(f, p) >= policy[f].threshold THEN "breach" ELSE "pass"

\* _verdict: a family the pack does not configure is a gap.
OutcomeOf(f, p) ==
    IF f \notin DOMAIN policy THEN "gap"
    ELSE IF Observed(f, p) >= policy[f].threshold THEN "breach" ELSE "pass"

SeverityOf(f, p) ==
    LET outcome == OutcomeOf(f, p) IN
    CASE outcome = "gap"    -> "high"
      [] outcome = "breach" -> policy[f].severity
      [] outcome = "pass"   -> "low"

\* OutcomeTestEngine.assess: every family against every product of the frame.
Tests == Family \X DOMAIN frame
Results == [t \in Tests |->
    [observed |-> Observed(t[1], t[2]),
     outcome  |-> OutcomeOf(t[1], t[2]),
     severity |-> SeverityOf(t[1], t[2]),
     signals  |-> Contributing(t[1], t[2])]]

Breaching == {t \in Tests : OutcomeOf(t[1], t[2]) \in {"breach", "gap"}}

\* overall_verdict: the worst breaching severity, and review if any breached.
BreachingRanks == {Rank[SeverityOf(t[1], t[2])] : t \in Breaching} \cup {Rank["low"]}

\* Mutant: an assessment with no breach has no severity.
WorstSeverityOrNone ==
    IF Breaching = {} THEN "none"
    ELSE CHOOSE v \in Severity : Rank[v] = Max(BreachingRanks)

WorstSeverity == CHOOSE v \in Severity : Rank[v] = Max(BreachingRanks)
RequiresReview == Breaching # {}

\* Mutant: a theme counts its breaches and forgets its gaps.
ThemeOfBreaches(f) ==
    LET found == {t \in Breaching : t[1] = f} IN
    [family   |-> f,
     findings |-> Cardinality({t \in found : OutcomeOf(f, t[2]) = "breach"}),
     products |-> {t[2] : t \in found},
     signals  |-> UNION {Contributing(f, t[2]) : t \in found}]

\* synthesize_themes: one theme per family with a finding.
ThemeOf(f) ==
    LET found == {t \in Breaching : t[1] = f} IN
    [family   |-> f,
     findings |-> Cardinality({t \in found : OutcomeOf(f, t[2]) = "breach"})
                + Cardinality({t \in found : OutcomeOf(f, t[2]) = "gap"}),
     products |-> {t[2] : t \in found},
     signals  |-> UNION {Contributing(f, t[2]) : t \in found}]
Themes == {ThemeOf(f) : f \in {t[1] : t \in Breaching}}

-----------------------------------------------------------------------------
ResultType == [observed: Int, outcome: Outcome, severity: Severity,
               signals: SUBSET (1..MaxSignals[frame])]

TypeOK ==
    /\ signals \in Seq(Signal[frame]) /\ Len(signals) <= MaxSignals[frame]
    /\ frame \in Frames /\ policy \in Policies
    /\ granted \subseteq Subject \X Channel
    /\ Results \in [Tests -> ResultType]
    /\ WorstSeverity \in Severity

\* A test that measured nothing never reads as an outcome that was found good:
\* a pack without a family escalates every assessment of a product, at HIGH at
\* least, whatever the signals say.
UnmeasuredIsNeverGood ==
    DOMAIN policy # Family /\ DOMAIN frame # {} =>
        RequiresReview /\ Rank[WorstSeverity] >= Rank["high"]

\* The board's themes account for every finding of the engine, once: their
\* counts add up to the breaches and gaps, each names the products it is about
\* and all the signals behind them.
ThemesCountEveryFinding ==
    /\ SumFunction([theme \in Themes |-> theme.findings]) = Cardinality(Breaching)
    /\ \A t \in Breaching : \E theme \in Themes :
          /\ theme.family = t[1]
          /\ t[2] \in theme.products
          /\ Contributing(t[1], t[2]) \subseteq theme.signals

\* The price test singles out outliers, never a majority: at most half of the
\* products are dearer than the median, and a dearer product never scores
\* lower than a cheaper one.
FewProductsStandOut ==
    /\ 2 * Cardinality({p \in DOMAIN frame : PriceZ(p) > 0}) <= Cardinality(DOMAIN frame)
    /\ \A p, q \in DOMAIN frame :
          frame[p].ratio >= frame[q].ratio => PriceZ(p) >= PriceZ(q)

\* Reading the consent store fails closed whatever the order and the channels
\* of the contacts: a vulnerable customer who was contacted and has granted
\* nothing is counted, one who has granted every channel is not.
ConsentFailsClosed ==
    \A p \in DOMAIN frame : \A x \in Vulnerable(p) \cap Contacted(p) :
        /\ (\A ch \in Channel : <<x, ch>> \notin granted) => x \in Mishandled(p)
        /\ (\A ch \in Channel : <<x, ch>> \in granted) => x \notin Mishandled(p)

\* More evidence of harm never clears a product: no signal lowers a harm score
\* or turns a harm breach back into a pass.
HarmAccumulates ==
    [][\A p \in DOMAIN frame :
         /\ HarmScore(p)' >= HarmScore(p)
         /\ OutcomeOf("foreseeable_harm", p) = "breach"
              => OutcomeOf("foreseeable_harm", p)' = "breach"]_vars

\* Evidence about one product moves no other product's harm, drift or price
\* result, and evidence about a product outside the frame moves none at all.
EvidenceStaysWithItsProduct ==
    [][\A p \in DOMAIN frame :
         signals'[Len(signals')].product # p =>
            \A f \in Family \ {"vulnerable_customer"} :
                Observed(f, p)' = Observed(f, p)]_vars

\* ports/consent.py: the test asks whether a vulnerable subject who was contacted
\* "had actually granted a preference to be contacted on that channel".  A
\* contact over a channel the subject did not grant is counted.
ContactAgainstPreferenceIsCounted ==
    \A p \in DOMAIN frame : \A i \in OfKind({"contact_outcome"}, About(p)) :
        LET x == signals[i].subject IN
        /\ x \in Vulnerable(p)
        /\ signals[i].channel # ""
        /\ <<x, signals[i].channel>> \notin granted
        => x \in Mishandled(p)
=============================================================================
