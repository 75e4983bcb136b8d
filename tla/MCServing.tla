----------------------------- MODULE MCServing -----------------------------
EXTENDS Serving, TLC

CONSTANTS bankA, bankB, fca

Requests == Permutations(Request)

MCWiring == <<"audit", "assessment_store">>

Good(hd) == [alg |-> "pinned", signed |-> TRUE, audience |-> TRUE, fresh |-> TRUE,
             issuer |-> TRUE, complete |-> TRUE, hd |-> hd]

\* The edge's own assertion; one that travelled on under the other name; a
\* caller with no hosted domain; and one assertion short of each check.
MCHeaderSets ==
    {[edge |-> Good(bankA), forwarded |-> Absent],
     [edge |-> Absent, forwarded |-> Good(bankA)],
     [edge |-> Good(NoTenant), forwarded |-> Absent],
     [edge |-> Good(bankA), forwarded |-> [Good(bankB) EXCEPT !.signed = FALSE]],
     [edge |-> [Good(bankA) EXCEPT !.alg = "none"], forwarded |-> Absent],
     [edge |-> [Good(bankA) EXCEPT !.fresh = FALSE], forwarded |-> Absent],
     [edge |-> [Good(bankA) EXCEPT !.complete = FALSE], forwarded |-> Absent],
     [edge |-> Absent, forwarded |-> Absent]}

MCDeployments ==
    {[audience |-> TRUE, verifier |-> TRUE], [audience |-> TRUE, verifier |-> FALSE],
     [audience |-> FALSE, verifier |-> TRUE]}
Verifying == {[audience |-> TRUE, verifier |-> TRUE]}

Entry(threshold, severity) ==
    [family |-> "foreseeable_harm", mapping |-> TRUE, threshold |-> threshold,
     citation |-> fca, severity |-> severity]
Pack(entry) ==
    [state |-> "mapping", version |-> "2026.1", citations |-> {fca}, titled |-> TRUE,
     families |-> {entry}]

\* One pack, the same version with another severity, and one with a threshold
\* that is text.
MCPackFiles ==
    {Pack(Entry("number", Blank)), Pack(Entry("number", "critical")), Pack(Entry("text", "high"))}
NanPackFiles == {Pack(Entry("number", Blank)), Pack(Entry("nan", "high"))}
=============================================================================
