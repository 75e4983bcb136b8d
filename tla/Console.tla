-------------------------------- MODULE Console --------------------------------
(***************************************************************************)
(* The web console in front of the service: pages (ui/app/page.tsx) whose  *)
(* requests the same-origin proxy (ui/app/api/agent) forwards under an     *)
(* identity of its own choosing, and the service's run and read of stored  *)
(* assessments behind the tenant boundary (AssessmentService.read_         *)
(* assessment, api/app.py).                                                *)
(*                                                                         *)
(* Several pages share one service.  A page may change its persona or its  *)
(* id field while a request is in flight, and a request or its answer may  *)
(* be lost.                                                                *)
(***************************************************************************)
EXTENDS Naturals

CONSTANTS
    Page,         \* open pages
    Persona,      \* the seeded personas
    PersonaTenant,\* persona -> its tenant
    Tenants,      \* the tenants there are
    NoTenant,     \* a verified principal may carry none
    Run,          \* tells the assessments of one tenant apart
    NoId, Nothing \* an empty id field; nothing shown, nothing in flight

ASSUME TenancyAssumption ==
    /\ PersonaTenant \in [Persona -> Tenants]
    /\ NoTenant \notin Tenants

VARIABLES
    ui,      \* the console's environment
    bound,   \* what the service's identity adapter believes
    user,    \* page -> the tenant of the user signed in at its edge
    page,    \* page -> what the browser holds
    flight,  \* page -> its request on the way to the proxy
    reply,   \* page -> the answer on its way back
    stored,  \* the assessment store
    asked    \* page -> history: its fields as they were when a button was pressed

vars == <<ui, bound, user, page, flight, reply, stored, asked>>
deployment == <<ui, bound, user>>

-----------------------------------------------------------------------------
Principals == Tenants \cup {NoTenant}
Id == [tenant: Principals, run: Run]

UiEnvironment ==
    [profile: {"unset", "empty", "junk", "local", "secure", "onprem"},
     api_url: {"unset", "empty", "set"}, behind_proxy: BOOLEAN]

Request == [kind: {"assess", "read"}, persona: Persona, id: Id \cup {NoId}]

\* What a page shows: the status, the assessment of an answered request, the
\* id asked for, and on whose behalf the service answered.
Statuses == {"ok", "unauthenticated", "forbidden", "missing", "crashed", "lost"}
Shown == [kind: {"assess", "read"}, status: Statuses, id: Id \cup {NoId},
          asker: Principals \cup {Nothing}]

Browser == [persona: Persona, id: Id \cup {NoId}, busy: BOOLEAN,
            failed: BOOLEAN, result: Shown \cup {Nothing}]

TypeOK ==
    /\ ui \in UiEnvironment
    /\ bound \in {"personas", "verified"}
    /\ user \in [Page -> Principals]
    /\ page \in [Page -> Browser]
    /\ flight \in [Page -> Request \cup {Nothing}]
    /\ reply \in [Page -> Shown \cup {Nothing}]
    /\ stored \subseteq Id
    /\ asked \in [Page -> Request \cup {Nothing}]

Init ==
    /\ ui \in UiEnvironment
    /\ bound \in {"personas", "verified"}
    /\ user \in [Page -> Principals]
    /\ \E first \in Persona :
          page = [p \in Page |-> [persona |-> first, id |-> NoId, busy |-> FALSE,
                                  failed |-> FALSE, result |-> Nothing]]
    /\ flight = [p \in Page |-> Nothing]
    /\ reply = [p \in Page |-> Nothing]
    /\ stored = {}
    /\ asked = [p \in Page |-> Nothing]

-----------------------------------------------------------------------------
\* The page.  Its fields may be edited at any time, its buttons while no
\* request of its own is in flight.
PickPersona(p) ==
    /\ \E persona \in Persona : page' = [page EXCEPT ![p].persona = persona]
    /\ UNCHANGED <<deployment, flight, reply, stored, asked>>

TypeId(p) ==
    /\ \E id \in Id \cup {NoId} : page' = [page EXCEPT ![p].id = id]
    /\ UNCHANGED <<deployment, flight, reply, stored, asked>>

Send(p, request) ==
    /\ ~page[p].busy
    /\ page' = [page EXCEPT ![p].busy = TRUE, ![p].failed = FALSE]
    /\ flight' = [flight EXCEPT ![p] = request]
    /\ asked' = [asked EXCEPT ![p] = request]
    /\ UNCHANGED <<deployment, reply, stored>>

Assess(p) ==
    Send(p, [kind |-> "assess", persona |-> page[p].persona, id |-> NoId])

ReadBack(p) ==
    /\ page[p].id # NoId
    /\ Send(p, [kind |-> "read", persona |-> page[p].persona, id |-> page[p].id])

-----------------------------------------------------------------------------
\* The proxy.  serviceBaseUrl is read outside the handler's try.
ProxyCrashes == ui.api_url = "empty"

\* identityFor: a persona under a chosen local profile, the platform's
\* assertion under the secure one, and a refusal in every other case.
ForwardsPersona == ui.profile = "local"
ForwardsAssertion == ui.profile = "secure" /\ ui.behind_proxy
ProxyRefuses == ~ForwardsPersona /\ ~ForwardsAssertion

\* Mutant: the caller is resolved from what the page selects by now.
PrincipalsOfCurrent(p, request) ==
    CASE bound = "personas" /\ ForwardsPersona -> {PersonaTenant[page[p].persona]}
      [] bound = "personas" /\ ~ForwardsPersona -> {PersonaTenant[d] : d \in Persona}
      [] bound = "verified" -> IF ForwardsAssertion THEN {user[p]} ELSE {}

\* get_principal: the personas adapter resolves the persona a request names, and
\* one of its own choosing where none is named; the verifying one resolves the
\* assertion and nothing else.
PrincipalsOf(p, request) ==
    CASE bound = "personas" /\ ForwardsPersona -> {PersonaTenant[request.persona]}
      [] bound = "personas" /\ ~ForwardsPersona -> {PersonaTenant[d] : d \in Persona}
      [] bound = "verified" -> IF ForwardsAssertion THEN {user[p]} ELSE {}

Answer(request, status, id, asker) ==
    [kind |-> request.kind, status |-> status, id |-> id, asker |-> asker]

\* Mutant: an unknown id is answered like one of another tenant.
ReadStatusUnprobed(id, asker) ==
    IF asker # NoTenant /\ id.tenant = asker /\ id \in stored THEN "ok" ELSE "forbidden"

\* read_assessment: the boundary is the domain's, and a record of another
\* tenant is refused rather than denied to exist.
ReadStatus(id, asker) ==
    IF id \notin stored THEN "missing"
    ELSE IF asker = NoTenant \/ id.tenant # asker THEN "forbidden" ELSE "ok"

Deliver(p, answer) ==
    /\ reply' = [reply EXCEPT ![p] = answer]
    /\ flight' = [flight EXCEPT ![p] = Nothing]
    /\ UNCHANGED <<deployment, page, asked>>

ProxyAnswers(p) ==
    /\ flight[p] # Nothing
    /\ \/ ProxyCrashes /\ Deliver(p, Answer(flight[p], "crashed", flight[p].id, Nothing))
       \/ /\ ~ProxyCrashes /\ ProxyRefuses
          /\ Deliver(p, Answer(flight[p], "unauthenticated", flight[p].id, Nothing))
    /\ UNCHANGED stored

Reaches(p) == flight[p] # Nothing /\ ~ProxyCrashes /\ ~ProxyRefuses

\* No assertion, or one that does not verify.
ServiceRefuses(p) ==
    /\ Reaches(p) /\ bound = "verified"
    /\ Deliver(p, Answer(flight[p], "unauthenticated", flight[p].id, Nothing))
    /\ UNCHANGED stored

\* The page sends no tenant: the run is for the principal's own.
ServiceAssesses(p) ==
    /\ Reaches(p) /\ flight[p].kind = "assess"
    /\ \E asker \in PrincipalsOf(p, flight[p]), run \in Run :
          LET id == [tenant |-> asker, run |-> run]
          IN  /\ stored' = stored \cup {id}
              /\ Deliver(p, Answer(flight[p], "ok", id, asker))

ServiceReads(p) ==
    /\ Reaches(p) /\ flight[p].kind = "read"
    /\ \E asker \in PrincipalsOf(p, flight[p]) :
          Deliver(p, Answer(flight[p], ReadStatus(flight[p].id, asker), flight[p].id, asker))
    /\ UNCHANGED stored

\* A port that raises answers 500, and so does the proxy whose own fetch rejects,
\* a run's before or after its record was kept.
ServiceCrashes(p) ==
    /\ Reaches(p)
    /\ \E asker \in PrincipalsOf(p, flight[p]) :
          /\ Deliver(p, Answer(flight[p], "crashed", flight[p].id, asker))
          /\ \/ UNCHANGED stored
             \/ /\ flight[p].kind = "assess"
                /\ \E run \in Run : stored' = stored \cup {[tenant |-> asker, run |-> run]}

\* The CLI, an agent tool or another console keeps an assessment meanwhile.
OtherSurfaceAssesses ==
    /\ \E id \in Id : stored' = stored \cup {id}
    /\ UNCHANGED <<deployment, page, flight, reply, asked>>

-----------------------------------------------------------------------------
\* Mutant: a failed run empties the id field to nothing at all.
FilledIdCleared(b, answer) ==
    IF answer.kind = "assess" THEN IF answer.status = "ok" THEN answer.id ELSE Nothing
    ELSE b.id

\* The answer arrives: one render sets the style, the text, and after a run
\* the id field.
FilledId(b, answer) ==
    IF answer.kind = "assess" /\ answer.status = "ok" THEN answer.id ELSE b.id

Rendered(b, answer) ==
    [b EXCEPT !.busy = FALSE, !.failed = (answer.status # "ok"),
              !.result = answer, !.id = FilledId(b, answer)]

Arrive(p) ==
    /\ reply[p] # Nothing
    /\ page' = [page EXCEPT ![p] = Rendered(page[p], reply[p])]
    /\ reply' = [reply EXCEPT ![p] = Nothing]
    /\ UNCHANGED <<deployment, flight, stored, asked>>

\* fetch rejects: the request never arrived, or its answer was lost.
Lose(p) ==
    /\ flight[p] # Nothing \/ reply[p] # Nothing
    /\ LET kind == IF flight[p] # Nothing THEN flight[p].kind ELSE reply[p].kind
       IN  page' = [page EXCEPT ![p] =
                      Rendered(page[p], [kind |-> kind, status |-> "lost",
                                         id |-> NoId, asker |-> Nothing])]
    /\ flight' = [flight EXCEPT ![p] = Nothing]
    /\ reply' = [reply EXCEPT ![p] = Nothing]
    /\ UNCHANGED <<deployment, stored, asked>>

Next ==
    \/ OtherSurfaceAssesses
    \/ \E p \in Page :
        \/ PickPersona(p) \/ TypeId(p)
        \/ Assess(p) \/ ReadBack(p)
        \/ ProxyAnswers(p)
        \/ ServiceRefuses(p) \/ ServiceAssesses(p) \/ ServiceReads(p) \/ ServiceCrashes(p)
        \/ Arrive(p) \/ Lose(p)

Spec == Init /\ [][Next]_vars

-----------------------------------------------------------------------------
\* The tenant of whoever pressed the button: the persona selected at that
\* moment, the signed-in user where the service verifies, and any persona's
\* where the proxy forwards none.
Pressers(p) ==
    IF bound = "verified" THEN {user[p]}
    ELSE IF ForwardsPersona THEN {PersonaTenant[asked[p].persona]}
    ELSE {PersonaTenant[d] : d \in Persona}

\* Once the buttons are back, the text under them answers the last press, as
\* the fields were then: a run shows an assessment of the tenant that pressed
\* it, a read the very id that was in the field, and of that tenant - whatever
\* was selected or typed while the request was on its way, whatever was lost,
\* and whatever other pages and surfaces did (page.tsx: "Reads a stored
\* assessment as the CURRENT persona", "a persona from another tenant is
\* answered 403, never the record").
ShownIsForThePresser ==
    \A p \in Page :
        LET r == page[p].result
        IN  r # Nothing /\ ~page[p].busy =>
                /\ asked[p] # Nothing /\ r.kind = asked[p].kind
                /\ r.status = "ok" =>
                      /\ r.id.tenant \in Pressers(p)
                      /\ r.kind = "read" => r.id = asked[p].id

\* What an answer says about the store holds when it is shown, and stays so
\* while other pages and surfaces write: a run answered on any page can be read
\* back, and a principal with a tenant is told "forbidden" only of an
\* assessment that is stored and another tenant's - an unknown id is never
\* passed off as one (api/app.py: the 403 and the 404 of read_assessment).
AnswersMatchTheStore ==
    \A p \in Page :
        LET r == page[p].result
        IN  r # Nothing =>
                /\ r.status = "ok" => r.id \in stored
                /\ r.status = "forbidden" /\ r.asker # NoTenant =>
                      r.id \in stored /\ r.id.tenant # r.asker
=============================================================================
