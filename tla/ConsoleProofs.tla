----------------------------- MODULE ConsoleProofs -----------------------------
(***************************************************************************)
(* Proofs about Console, for any pages, personas, tenants and assessments. *)
(*                                                                         *)
(* What a page shows was an answer on its way a step earlier, so the       *)
(* invariants of what is shown are inductive once they are stated of the   *)
(* answers in flight as well; they survive the other pages' and surfaces'  *)
(* writes because the store only grows, and the edits of a page's fields   *)
(* because its buttons are off while anything of its own is in flight.     *)
(***************************************************************************)
EXTENDS Console, TLAPS

\* What an answer says of the store and of who asked.
Truthful(r) ==
    r # Nothing =>
        /\ r.status = "ok" => r.id \in stored
        /\ r.status = "forbidden" /\ r.asker # NoTenant =>
              r.id \in stored /\ r.id.tenant # r.asker

\* What an answer owes to the press of a button it answers.
ForThePresser(p, r) ==
    r # Nothing =>
        /\ asked[p] # Nothing /\ r.kind = asked[p].kind
        /\ r.status = "ok" =>
              /\ r.id.tenant \in Pressers(p)
              /\ r.kind = "read" => r.id = asked[p].id

\* What is on its way is on its way for the last press, and the buttons are
\* off for as long.
InStep(p) ==
    /\ flight[p] # Nothing => page[p].busy /\ flight[p] = asked[p]
    /\ reply[p] # Nothing => page[p].busy /\ flight[p] = Nothing
    /\ ForThePresser(p, reply[p])
    /\ ~page[p].busy => ForThePresser(p, page[p].result)

\* The inductive invariant.
IInv ==
    /\ TypeOK
    /\ \A p \in Page : Truthful(page[p].result) /\ Truthful(reply[p]) /\ InStep(p)

-----------------------------------------------------------------------------
LEMMA ReadStatusType ==
    ASSUME NEW id, NEW asker
    PROVE  ReadStatus(id, asker) \in {"ok", "forbidden", "missing"}
BY DEF ReadStatus

\* The boundary of the read: an answered read is of a stored record of the
\* asker's own tenant, a refused one of a stored record.
LEMMA ReadIsTruthful ==
    ASSUME NEW id, NEW asker
    PROVE  /\ ReadStatus(id, asker) = "ok" => id \in stored /\ id.tenant = asker
           /\ ReadStatus(id, asker) = "forbidden" /\ asker # NoTenant =>
                 id \in stored /\ id.tenant # asker
BY DEF ReadStatus

LEMMA PrincipalsType ==
    ASSUME TypeOK, NEW p \in Page, flight[p] # Nothing
    PROVE  PrincipalsOf(p, flight[p]) \subseteq Principals
<1>1. flight[p] \in Request /\ flight[p].persona \in Persona /\ user[p] \in Principals
    BY DEF TypeOK, Request
<1>2. \A d \in Persona : PersonaTenant[d] \in Principals
    BY TenancyAssumption DEF Principals
<1>3. QED
    BY <1>1, <1>2 DEF PrincipalsOf, TypeOK

\* An answer that is truthful stays so while the store grows.
LEMMA TruthLasts ==
    ASSUME stored \subseteq stored', NEW r, Truthful(r)
    PROVE  (Truthful(r))'
BY DEF Truthful

\* The service resolves nobody but whoever pressed the button.
LEMMA PrincipalsArePressers ==
    ASSUME TypeOK, NEW p \in Page, InStep(p), flight[p] # Nothing
    PROVE  PrincipalsOf(p, flight[p]) \subseteq Pressers(p)
BY DEF TypeOK, InStep, PrincipalsOf, Pressers

\* What is owed to a press does not depend on what happens after it.
LEMMA DebtLasts ==
    ASSUME NEW p \in Page, NEW r, ForThePresser(p, r),
           UNCHANGED deployment, asked'[p] = asked[p]
    PROVE  (ForThePresser(p, r))'
BY DEF ForThePresser, Pressers, ForwardsPersona, deployment

-----------------------------------------------------------------------------
LEMMA InitIInv == Init => IInv
<1> SUFFICES ASSUME Init PROVE IInv
    OBVIOUS
<1>1. PICK first \in Persona :
          page = [p \in Page |-> [persona |-> first, id |-> NoId, busy |-> FALSE,
                                  failed |-> FALSE, result |-> Nothing]]
    BY DEF Init
<1>2. TypeOK
    BY <1>1 DEF Init, TypeOK, Browser
<1>3. QED
    BY <1>1, <1>2 DEF IInv, Init, Truthful, InStep, ForThePresser

\* A page no step touches.
LEMMA OtherPage ==
    ASSUME IInv, NEW q \in Page, UNCHANGED deployment, stored \subseteq stored',
           page'[q] = page[q], flight'[q] = flight[q], reply'[q] = reply[q],
           asked'[q] = asked[q]
    PROVE  (Truthful(page[q].result) /\ Truthful(reply[q]) /\ InStep(q))'
<1>1. Truthful(page[q].result) /\ Truthful(reply[q]) /\ InStep(q)
    BY DEF IInv
<1>2. (Truthful(page[q].result) /\ Truthful(reply[q]))'
    BY <1>1 DEF Truthful
<1>3. (ForThePresser(q, reply[q]))'
    BY <1>1 DEF InStep, ForThePresser, Pressers, ForwardsPersona, deployment
<1>4. (~page[q].busy => ForThePresser(q, page[q].result))'
    BY <1>1 DEF InStep, ForThePresser, Pressers, ForwardsPersona, deployment
<1>5. QED
    BY <1>1, <1>2, <1>3, <1>4 DEF InStep

\* An answer put on its way.
LEMMA DeliverStep ==
    ASSUME IInv, NEW p \in Page, NEW answer \in Shown, Deliver(p, answer),
           flight[p] # Nothing, ForThePresser(p, answer),
           stored \subseteq stored', stored' \subseteq Id, (Truthful(answer))'
    PROVE  IInv'
<1>1. TypeOK'
    BY DEF IInv, TypeOK, Deliver, deployment
<1>2. ASSUME NEW q \in Page
      PROVE  (Truthful(page[q].result) /\ Truthful(reply[q]) /\ InStep(q))'
  <2>1. CASE q = p
    <3>1. reply'[p] = answer /\ flight'[p] = Nothing /\ page' = page /\ asked' = asked
        BY DEF Deliver, IInv, TypeOK
    <3>2. page[p].busy /\ Truthful(page[p].result)
        BY DEF IInv, InStep
    <3>3. (ForThePresser(p, reply[p]))'
        BY <3>1 DEF ForThePresser, Pressers, ForwardsPersona, Deliver, deployment
    <3>4. (Truthful(page[p].result) /\ Truthful(reply[p]))'
        BY <3>1, <3>2 DEF Truthful
    <3>5. QED
        BY <2>1, <3>1, <3>2, <3>3, <3>4 DEF InStep
  <2>2. CASE q # p
    <3>1. /\ page'[q] = page[q] /\ flight'[q] = flight[q] /\ reply'[q] = reply[q]
          /\ asked'[q] = asked[q] /\ UNCHANGED deployment
        BY <2>2 DEF IInv, TypeOK, Deliver
    <3>2. QED
        BY <3>1, OtherPage
  <2>3. QED
      BY <2>1, <2>2
<1>3. QED
    BY <1>1, <1>2 DEF IInv

\* An answer that tells nothing of the store.
LEMMA UntoldStep ==
    ASSUME IInv, NEW p \in Page, NEW answer \in Shown, Deliver(p, answer),
           flight[p] # Nothing, answer.kind = flight[p].kind,
           answer.status \notin {"ok", "forbidden"},
           stored \subseteq stored', stored' \subseteq Id
    PROVE  IInv'
<1>1. (Truthful(answer))'
    BY DEF Truthful
<1>2. ForThePresser(p, answer)
    BY DEF ForThePresser, IInv, InStep
<1>3. QED
    BY <1>1, <1>2, DeliverStep

\* An answer shown.
LEMMA RenderStep ==
    ASSUME IInv, NEW p \in Page, NEW answer \in Shown, Truthful(answer),
           ForThePresser(p, answer),
           page' = [page EXCEPT ![p] = Rendered(page[p], answer)],
           reply' = [reply EXCEPT ![p] = Nothing],
           flight' \in [Page -> Request \cup {Nothing}], flight'[p] = Nothing,
           \A q \in Page \ {p} : flight'[q] = flight[q],
           UNCHANGED <<deployment, stored, asked>>
    PROVE  IInv'
<1>1. Rendered(page[p], answer) \in Browser
  <2>1. page[p] \in Browser /\ answer.id \in Id \cup {NoId}
      BY DEF IInv, TypeOK, Shown
  <2>2. FilledId(page[p], answer) \in Id \cup {NoId}
      BY <2>1 DEF FilledId, Browser
  <2>3. QED
      BY <2>1, <2>2 DEF Rendered, Browser
<1>2. TypeOK'
    BY <1>1 DEF IInv, TypeOK, deployment
<1>3. ASSUME NEW q \in Page
      PROVE  (Truthful(page[q].result) /\ Truthful(reply[q]) /\ InStep(q))'
  <2>1. CASE q = p
    <3>1. page[p] \in Browser
        BY DEF IInv, TypeOK
    <3>2. page'[p].result = answer /\ reply'[p] = Nothing
        BY <3>1 DEF IInv, TypeOK, Rendered, Browser
    <3>3. (Truthful(page[p].result) /\ Truthful(reply[p]))'
        BY <3>2 DEF Truthful
    <3>4. (ForThePresser(p, reply[p]) /\ ForThePresser(p, page[p].result))'
        BY <3>2 DEF ForThePresser, Pressers, ForwardsPersona, deployment
    <3>5. QED
        BY <2>1, <3>2, <3>3, <3>4 DEF InStep
  <2>2. CASE q # p
    <3>1. /\ page'[q] = page[q] /\ flight'[q] = flight[q] /\ reply'[q] = reply[q]
          /\ asked'[q] = asked[q] /\ stored \subseteq stored' /\ UNCHANGED deployment
        BY <2>2 DEF IInv, TypeOK
    <3>2. QED
        BY <3>1, OtherPage
  <2>3. QED
      BY <2>1, <2>2
<1>4. QED
    BY <1>2, <1>3 DEF IInv

\* A field edited: what was pressed, sent, answered and shown is untouched.
LEMMA EditStep ==
    ASSUME IInv, page' \in [Page -> Browser],
           \A p \in Page : page'[p].result = page[p].result /\ page'[p].busy = page[p].busy,
           UNCHANGED <<deployment, flight, reply, stored, asked>>
    PROVE  IInv'
<1>1. TypeOK'
    BY DEF IInv, TypeOK, deployment
<1>2. ASSUME NEW q \in Page
      PROVE  (Truthful(page[q].result) /\ Truthful(reply[q]) /\ InStep(q))'
  <2>1. Truthful(page[q].result) /\ Truthful(reply[q]) /\ InStep(q)
      BY DEF IInv
  <2>2. (Truthful(page[q].result) /\ Truthful(reply[q]))'
      BY <2>1 DEF Truthful
  <2>3. (ForThePresser(q, reply[q]))'
      BY <2>1 DEF InStep, ForThePresser, Pressers, ForwardsPersona, deployment
  <2>4. (~page[q].busy => ForThePresser(q, page[q].result))'
      BY <2>1 DEF InStep, ForThePresser, Pressers, ForwardsPersona, deployment
  <2>5. QED
      BY <2>1, <2>2, <2>3, <2>4 DEF InStep
<1>3. QED
    BY <1>1, <1>2 DEF IInv

\* A button pressed: nothing of this page's was on its way.
LEMMA SendStep ==
    ASSUME IInv, NEW p \in Page, NEW request \in Request, Send(p, request)
    PROVE  IInv'
<1>1. TypeOK'
    BY DEF IInv, TypeOK, Send, Browser, deployment
<1>2. ASSUME NEW q \in Page
      PROVE  (Truthful(page[q].result) /\ Truthful(reply[q]) /\ InStep(q))'
  <2>1. CASE q = p
    <3>1. page[p] \in Browser /\ ~page[p].busy
        BY DEF IInv, TypeOK, Send
    <3>2. reply[p] = Nothing /\ Truthful(page[p].result)
        BY <3>1 DEF IInv, InStep
    <3>3. /\ page'[p].busy /\ page'[p].result = page[p].result /\ reply'[p] = Nothing
          /\ flight'[p] = request /\ asked'[p] = request /\ stored' = stored
        BY <3>1, <3>2 DEF IInv, TypeOK, Send, Browser
    <3>4. (Truthful(page[p].result) /\ Truthful(reply[p]))'
        BY <3>2, <3>3 DEF Truthful
    <3>5. (ForThePresser(p, reply[p]))'
        BY <3>3 DEF ForThePresser
    <3>6. QED
        BY <2>1, <3>3, <3>4, <3>5 DEF InStep
  <2>2. CASE q # p
    <3>1. /\ page'[q] = page[q] /\ flight'[q] = flight[q] /\ reply'[q] = reply[q]
          /\ asked'[q] = asked[q] /\ stored \subseteq stored' /\ UNCHANGED deployment
        BY <2>2 DEF IInv, TypeOK, Send
    <3>2. QED
        BY <3>1, OtherPage
  <2>3. QED
      BY <2>1, <2>2
<1>3. QED
    BY <1>1, <1>2 DEF IInv

-----------------------------------------------------------------------------
LEMMA NextIInv == IInv /\ [Next]_vars => IInv'
<1> SUFFICES ASSUME IInv, [Next]_vars PROVE IInv'
    OBVIOUS
<1>1. CASE UNCHANGED vars
  <2>1. page' = page /\ UNCHANGED <<deployment, flight, reply, stored, asked>>
      BY <1>1 DEF vars, deployment
  <2>2. page' \in [Page -> Browser]
      BY <2>1 DEF IInv, TypeOK
  <2>3. QED
      BY <2>1, <2>2, EditStep
<1>2. CASE OtherSurfaceAssesses
  <2>1. stored \subseteq stored' /\ stored' \subseteq Id
      BY <1>2 DEF IInv, TypeOK, OtherSurfaceAssesses
  <2>2. TypeOK'
      BY <1>2, <2>1 DEF IInv, TypeOK, OtherSurfaceAssesses, deployment
  <2>3. ASSUME NEW q \in Page
        PROVE  (Truthful(page[q].result) /\ Truthful(reply[q]) /\ InStep(q))'
      BY <1>2, <2>1, OtherPage DEF OtherSurfaceAssesses
  <2>4. QED
      BY <2>2, <2>3 DEF IInv
<1>3. ASSUME NEW p \in Page, PickPersona(p) PROVE IInv'
  <2>1. /\ page' \in [Page -> Browser]
        /\ \A q \in Page : page'[q].result = page[q].result /\ page'[q].busy = page[q].busy
      BY <1>3 DEF IInv, TypeOK, PickPersona, Browser
  <2>2. QED
      BY <1>3, <2>1, EditStep DEF PickPersona
<1>4. ASSUME NEW p \in Page, TypeId(p) PROVE IInv'
  <2>1. /\ page' \in [Page -> Browser]
        /\ \A q \in Page : page'[q].result = page[q].result /\ page'[q].busy = page[q].busy
      BY <1>4 DEF IInv, TypeOK, TypeId, Browser
  <2>2. QED
      BY <1>4, <2>1, EditStep DEF TypeId
<1>5. ASSUME NEW p \in Page, Assess(p) PROVE IInv'
  <2>1. [kind |-> "assess", persona |-> page[p].persona, id |-> NoId] \in Request
      BY <1>5 DEF IInv, TypeOK, Browser, Request
  <2>2. QED
      BY <1>5, <2>1, SendStep DEF Assess
<1>6. ASSUME NEW p \in Page, ReadBack(p) PROVE IInv'
  <2>1. [kind |-> "read", persona |-> page[p].persona, id |-> page[p].id] \in Request
      BY <1>6 DEF IInv, TypeOK, Browser, Request
  <2>2. QED
      BY <1>6, <2>1, SendStep DEF ReadBack
<1>7. ASSUME NEW p \in Page, ProxyAnswers(p) PROVE IInv'
  <2>1. /\ flight[p] \in Request /\ flight[p] # Nothing
        /\ stored \subseteq stored' /\ stored' \subseteq Id
      BY <1>7 DEF IInv, TypeOK, ProxyAnswers
  <2>2. PICK status \in {"crashed", "unauthenticated"} :
            Deliver(p, Answer(flight[p], status, flight[p].id, Nothing))
      BY <1>7 DEF ProxyAnswers
  <2>3. PICK answer \in Shown : /\ Deliver(p, answer) /\ answer.kind = flight[p].kind
                                /\ answer.status \notin {"ok", "forbidden"}
      BY <2>1, <2>2 DEF Answer, Shown, Request, Statuses
  <2>4. QED
      BY <2>1, <2>3, UntoldStep
<1>8. ASSUME NEW p \in Page, ServiceRefuses(p) PROVE IInv'
  <2>1. /\ flight[p] \in Request /\ flight[p] # Nothing
        /\ stored \subseteq stored' /\ stored' \subseteq Id
      BY <1>8 DEF IInv, TypeOK, ServiceRefuses, Reaches
  <2>2. PICK answer \in Shown : /\ Deliver(p, answer) /\ answer.kind = flight[p].kind
                                /\ answer.status = "unauthenticated"
      BY <1>8, <2>1 DEF ServiceRefuses, Answer, Shown, Request, Statuses
  <2>3. QED
      BY <2>1, <2>2, UntoldStep
<1>9. ASSUME NEW p \in Page, ServiceAssesses(p) PROVE IInv'
  <2>1. flight[p] \in Request /\ flight[p] # Nothing
      BY <1>9 DEF IInv, TypeOK, ServiceAssesses, Reaches
  <2>2. PICK asker \in PrincipalsOf(p, flight[p]), run \in Run :
            /\ stored' = stored \cup {[tenant |-> asker, run |-> run]}
            /\ Deliver(p, Answer(flight[p], "ok", [tenant |-> asker, run |-> run], asker))
      BY <1>9 DEF ServiceAssesses
  <2>3. asker \in Principals /\ asker \in Pressers(p)
      BY <2>1, PrincipalsType, PrincipalsArePressers DEF IInv
  <2>4. PICK id \in Id : id.tenant = asker /\ stored' = stored \cup {id}
                         /\ Deliver(p, Answer(flight[p], "ok", id, asker))
      BY <2>2, <2>3 DEF Id
  <2>5. PICK answer \in Shown : /\ Deliver(p, answer) /\ answer.status = "ok"
                                /\ answer.id = id /\ answer.kind = flight[p].kind
      BY <2>1, <2>3, <2>4 DEF Answer, Shown, Request, Statuses
  <2>6. (Truthful(answer))'
      BY <2>4, <2>5 DEF Truthful
  <2>7. stored \subseteq stored' /\ stored' \subseteq Id
      BY <2>4 DEF IInv, TypeOK
  <2>8. asked[p] = flight[p] /\ answer.kind = "assess"
      BY <1>9, <2>1, <2>5 DEF IInv, InStep, ServiceAssesses
  <2>9. ForThePresser(p, answer)
      BY <2>1, <2>3, <2>4, <2>5, <2>8 DEF ForThePresser
  <2>10. QED
      BY <2>1, <2>5, <2>6, <2>7, <2>9, DeliverStep
<1>10. ASSUME NEW p \in Page, ServiceReads(p) PROVE IInv'
  <2>1. flight[p] \in Request /\ flight[p] # Nothing /\ UNCHANGED stored
      BY <1>10 DEF IInv, TypeOK, ServiceReads, Reaches
  <2>2. PICK asker \in PrincipalsOf(p, flight[p]) :
            Deliver(p, Answer(flight[p], ReadStatus(flight[p].id, asker), flight[p].id, asker))
      BY <1>10 DEF ServiceReads
  <2>3. asker \in Principals /\ asker \in Pressers(p)
      BY <2>1, PrincipalsType, PrincipalsArePressers DEF IInv
  <2>4. ReadStatus(flight[p].id, asker) \in Statuses
      BY ReadStatusType DEF Statuses
  <2>5. PICK answer \in Shown :
            /\ Deliver(p, answer) /\ answer.asker = asker /\ answer.kind = flight[p].kind
            /\ answer.id = flight[p].id /\ answer.status = ReadStatus(flight[p].id, asker)
      BY <2>1, <2>2, <2>3, <2>4 DEF Answer, Shown, Request
  <2>6. Truthful(answer)
      BY <2>5, ReadIsTruthful DEF Truthful
  <2>7. asked[p] = flight[p]
      BY <2>1 DEF IInv, InStep
  <2>8. ForThePresser(p, answer)
      BY <2>1, <2>3, <2>5, <2>7, ReadIsTruthful DEF ForThePresser
  <2>9. stored \subseteq stored' /\ stored' \subseteq Id /\ (Truthful(answer))'
      BY <2>1, <2>6, TruthLasts DEF IInv, TypeOK
  <2>10. QED
      BY <2>1, <2>5, <2>8, <2>9, DeliverStep
<1>11. ASSUME NEW p \in Page, ServiceCrashes(p) PROVE IInv'
  <2>1. flight[p] \in Request /\ flight[p] # Nothing
      BY <1>11 DEF IInv, TypeOK, ServiceCrashes, Reaches
  <2>2. PICK asker \in PrincipalsOf(p, flight[p]) :
            /\ Deliver(p, Answer(flight[p], "crashed", flight[p].id, asker))
            /\ \/ UNCHANGED stored
               \/ \E run \in Run : stored' = stored \cup {[tenant |-> asker, run |-> run]}
      BY <1>11 DEF ServiceCrashes
  <2>3. asker \in Principals
      BY <2>1, PrincipalsType DEF IInv
  <2>4. stored \subseteq stored' /\ stored' \subseteq Id
      BY <2>2, <2>3 DEF IInv, TypeOK, Id
  <2>5. PICK answer \in Shown : /\ Deliver(p, answer) /\ answer.kind = flight[p].kind
                                /\ answer.status = "crashed"
      BY <2>1, <2>2, <2>3 DEF Answer, Shown, Request, Statuses
  <2>6. QED
      BY <2>1, <2>4, <2>5, UntoldStep
<1>12. ASSUME NEW p \in Page, Arrive(p) PROVE IInv'
  <2>1. /\ reply[p] \in Shown /\ Truthful(reply[p]) /\ ForThePresser(p, reply[p])
        /\ flight[p] = Nothing
      BY <1>12 DEF Arrive, IInv, TypeOK, InStep
  <2>2. flight' = flight /\ flight \in [Page -> Request \cup {Nothing}]
      BY <1>12 DEF Arrive, IInv, TypeOK
  <2>3. QED
      BY <1>12, <2>1, <2>2, RenderStep DEF Arrive
<1>13. ASSUME NEW p \in Page, Lose(p) PROVE IInv'
  <2>1. PICK kind \in {"assess", "read"} :
            /\ asked[p] # Nothing /\ asked[p].kind = kind
            /\ page' = [page EXCEPT ![p] =
                          Rendered(page[p], [kind |-> kind, status |-> "lost",
                                             id |-> NoId, asker |-> Nothing])]
    <3>1. flight[p] # Nothing =>
              flight[p].kind \in {"assess", "read"} /\ asked[p] = flight[p]
        BY <1>13 DEF IInv, TypeOK, Request, InStep
    <3>2. reply[p] # Nothing =>
              /\ reply[p].kind \in {"assess", "read"}
              /\ asked[p] # Nothing /\ asked[p].kind = reply[p].kind
        BY <1>13 DEF IInv, TypeOK, Shown, InStep, ForThePresser
    <3>3. QED
        BY <1>13, <3>1, <3>2 DEF Lose
  <2>2. PICK answer \in Shown :
            /\ page' = [page EXCEPT ![p] = Rendered(page[p], answer)]
            /\ answer.status = "lost" /\ answer.kind = kind
    <3> DEFINE answer == [kind |-> kind, status |-> "lost", id |-> NoId, asker |-> Nothing]
    <3>1. answer \in Shown /\ answer.status = "lost" /\ answer.kind = kind
        BY DEF Shown, Statuses
    <3> QED
        BY <2>1, <3>1
  <2>3. Truthful(answer) /\ ForThePresser(p, answer)
      BY <2>1, <2>2 DEF Truthful, ForThePresser
  <2>4. /\ flight' \in [Page -> Request \cup {Nothing}] /\ flight'[p] = Nothing
        /\ \A q \in Page \ {p} : flight'[q] = flight[q]
      BY <1>13 DEF Lose, IInv, TypeOK
  <2>5. QED
      BY <1>13, <2>2, <2>3, <2>4, RenderStep DEF Lose
<1>14. QED
    BY <1>1, <1>2, <1>3, <1>4, <1>5, <1>6, <1>7, <1>8, <1>9, <1>10, <1>11, <1>12, <1>13
    DEF Next

LEMMA Inductive == Spec => []IInv
BY InitIInv, NextIInv, PTL DEF Spec

-----------------------------------------------------------------------------
\* What the console, the proxy and the service hold always has its type: a
\* page never shows an answer the service does not give, and the id field holds
\* an id or nothing.
THEOREM TypeCorrect == Spec => []TypeOK
<1>1. IInv => TypeOK
    BY DEF IInv
<1>2. QED
    BY <1>1, Inductive, PTL

\* Once its buttons are back, what a page shows is for whoever pressed one
\* last - a run of that tenant's, or that tenant's record under the very id
\* asked for - with any number of pages and personas, and whatever was typed,
\* selected, lost or kept meanwhile (page.tsx, get_principal, read_assessment).
THEOREM ShownIsAlwaysForThePresser == Spec => []ShownIsForThePresser
<1>1. IInv => ShownIsForThePresser
    BY DEF IInv, InStep, ForThePresser, ShownIsForThePresser
<1>2. QED
    BY <1>1, Inductive, PTL

\* What an answer says about the store is so when it is shown and stays so:
\* a run answered can be read back, and "forbidden" is never said of an unknown
\* id (the 403 and the 404 of read_assessment).
THEOREM AnswersAreTrue == Spec => []AnswersMatchTheStore
<1>1. IInv => AnswersMatchTheStore
    BY DEF IInv, AnswersMatchTheStore, Truthful
<1>2. QED
    BY <1>1, Inductive, PTL
=============================================================================
