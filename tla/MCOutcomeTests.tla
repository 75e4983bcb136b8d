---------------------------- MODULE MCOutcomeTests ----------------------------
(***************************************************************************)
(* A small instance of OutcomeTests for TLC: feeds of up to two signals of *)
(* nine kinds about up to three framed products and one outside the frame, *)
(* and, for one tenant, feeds of up to three of the signals the consent    *)
(* context reads; one vulnerable customer, two channels.                   *)
(***************************************************************************)
EXTENDS OutcomeTests

MCProduct == {"card", "loan", "plan", "ghost"}
MCCohort == {"target", "other"}
MCSubject == {"subj"}
MCChannel == {"email", "sms"}

Sig(kind, product, cohort, value, subject, channel) ==
    [kind |-> kind, product |-> product, cohort |-> cohort, value |-> value,
     subject |-> subject, channel |-> channel]

Cue == Sig("vulnerability_cue", "card", "target", Micro, "subj", "")
Contact(product, channel) ==
    Sig("contact_outcome", product, "target", Micro, "subj", channel)

\* Every kind, on and off target, whole and half values, a contact with and
\* without a channel, on the cue's product and on another.
Signals ==
    {Sig("complaint", "card", "other", Micro, "", ""),
     Sig("qa_failure", "loan", "target", 500000, "", ""),
     Sig("conduct_flag", "card", "target", Micro, "", ""),
     Sig("complaint", "ghost", "other", Micro, "", ""),
     Cue, Contact("card", "email"), Contact("card", "sms"),
     Contact("card", ""), Contact("loan", "sms")}

\* The signals the consent context reads.
ConsentSignals == {Cue, Contact("card", "email"), Contact("card", "sms"),
                   Contact("card", ""), Contact("loan", "sms")}

Framed(products, ratios) ==
    [p \in products |-> [target |-> {"target"}, ratio |-> ratios[p]]]

Three(a, b, c) ==
    Framed({"card", "loan", "plan"}, [card |-> a, loan |-> b, plan |-> c])

\* The empty frame, one and two products, and three: all alike, two alike
\* (no spread, one dearer or cheaper), all different, one far out.
EngineFrames ==
    {Framed({}, <<>>), Framed({"card"}, [card |-> 10]),
     Framed({"card", "loan"}, [card |-> 10, loan |-> 90]),
     Three(10, 10, 10), Three(10, 90, 10), Three(20, 10, 20), Three(10, 20, 90)}

\* The tenant whose feed goes further, with cues and contacts only.
ConsentFrame == Framed({"card", "loan"}, [card |-> 10, loan |-> 20])
OneFrame == {ConsentFrame}

MCFrames == EngineFrames \cup OneFrame
MCSignal == [f \in MCFrames |-> IF f = ConsentFrame THEN ConsentSignals ELSE Signals]
MCMaxSignals == [f \in MCFrames |-> IF f = ConsentFrame THEN 3 ELSE 2]
ConsentOnly == [f \in OneFrame |-> ConsentSignals]
ThreeSignals == [f \in OneFrame |-> 3]

At(threshold, severity) == [threshold |-> threshold, severity |-> severity]

\* The reference pack with a harm threshold a short feed can reach, and packs
\* that leave a family out.
Reference == [foreseeable_harm    |-> At(2 * Micro, "high"),
              target_market_drift |-> At(250000, "high"),
              price_vs_value      |-> At(3 * Micro, "medium"),
              vulnerable_customer |-> At(Micro, "critical")]
Without(f) == [g \in Family \ {f} |-> Reference[g]]

MCPolicies == {Reference, Without("foreseeable_harm"), Without("vulnerable_customer")}
OnePolicy == {Reference}
=============================================================================
