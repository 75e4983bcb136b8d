------------------------------ MODULE Identity ------------------------------
(***************************************************************************)
(* The verified end-user identity of the managed profile                   *)
(* (adapters/gcp/identity.py): the order in which an assertion is checked, *)
(* what each failure answers, and the tenant a verified assertion names.   *)
(***************************************************************************)
CONSTANTS
    Tenants,   \* the hosted domains an assertion may carry: the tenants
    NoTenant,  \* the empty tenant of an assertion with no hosted domain
    Absent     \* a header that is missing or blank

Assertions ==
    [alg : {"pinned", "none", "symmetric"},
     signed : BOOLEAN,     \* its signature verifies against the edge's key set
     audience : BOOLEAN,   \* it was issued for this deployment
     fresh : BOOLEAN,      \* it has not expired
     issuer : BOOLEAN,     \* it was issued by the edge
     complete : BOOLEAN,   \* iss, sub, email and exp are there and not empty
     hd : Tenants \cup {NoTenant}]

\* The two headers an assertion travels under.
Headers == [edge : Assertions \cup {Absent}, forwarded : Assertions \cup {Absent}]

\* A deployment may lack an audience, or the library that verifies.
DeploymentKinds == [audience : BOOLEAN, verifier : BOOLEAN]

\* select_assertion: the header the edge injects is preferred.
SelectAssertion(h) == IF h.edge # Absent THEN h.edge ELSE h.forwarded

\* _refuse_unpinned_algorithm, verify_token and _refuse_unpinned_claims.
Pinned(a) == a.alg = "pinned"
Verifies(a) == a.signed /\ a.audience /\ a.fresh
ClaimsHold(a) == a.issuer /\ a.complete

\* The status IapIdentityAdapter.resolve answers with, checks in their order:
\* 503 where nobody could be authenticated, 401 where this caller was not.
Resolution(d, h) ==
    LET a == SelectAssertion(h) IN
    IF ~d.audience THEN 503
    ELSE IF a = Absent \/ ~Pinned(a) THEN 401
    ELSE IF ~d.verifier THEN 503
    ELSE IF ~(Verifies(a) /\ ClaimsHold(a)) THEN 401
    ELSE 200

\* principal_from_iap_claims with tenant_from_hosted_domain.
PrincipalTenant(h) == SelectAssertion(h).hd

\* What a presented assertion must be for its hosted domain to be believed,
\* stated without reference to the order of the checks.
Sound(a) ==
    a.alg = "pinned" /\ a.signed /\ a.audience /\ a.fresh /\ a.issuer /\ a.complete

\* The tenants (NoTenant among them) some sound assertion of h names.
VouchedFor(h) ==
    {a.hd : a \in {x \in {h.edge, h.forwarded} \ {Absent} : Sound(x)}}
=============================================================================
