----------------------------- MODULE ServingEffects -----------------------------
(***************************************************************************)
(* What each step of Serving does to the one call it moves, as a predicate *)
(* per kind of step (Moved, Held, Took, Scored, Finished, Arrived,         *)
(* Resolved, AnsweredWith, Tooled) and a lemma per action, so that the     *)
(* proofs about the service never look inside a record again.              *)
(***************************************************************************)
EXTENDS Serving, TLAPS

\* What resolves to a principal rests on a sound assertion.
LEMMA ResolvedIsSound ==
    ASSUME NEW d \in DeploymentKinds, NEW h \in Headers, Resolution(d, h) = 200
    PROVE  /\ PrincipalTenant(h) \in VouchedFor(h)
           /\ VouchedFor(h) \subseteq Tenants \cup {NoTenant}
<1> DEFINE a == SelectAssertion(h)
<1>1. a # Absent /\ Sound(a)
  BY DEF Resolution, Pinned, Verifies, ClaimsHold, Sound
<1>2. a \in {h.edge, h.forwarded}
  BY DEF SelectAssertion
<1>3. a.hd \in VouchedFor(h)
  BY <1>1, <1>2 DEF VouchedFor
<1>4. VouchedFor(h) \subseteq Tenants \cup {NoTenant}
  BY DEF VouchedFor, Headers, Assertions
<1> QED BY <1>3, <1>4 DEF PrincipalTenant

LEMMA WiringType ==
    /\ Len(Wiring) \in Nat /\ 0 < Len(Wiring)
    /\ \A i \in 1 .. Len(Wiring) : Wiring[i] \in Ports
    /\ \A p \in Ports : \E i \in 1 .. Len(Wiring) : p = Wiring[i]
BY WiringAssumption DEF Ports

LEMMA CallType ==
    ASSUME TypeOK, NEW r \in Request
    PROVE  /\ call[r] \in Calls
           /\ call[r].pc \in PCs
           /\ call[r].kind \in {"none", "assess", "read", "public", "tool"}
           /\ call[r].container \in Request \cup {None}
           /\ call[r].adapter \in [Ports -> Request \cup {None}]
           /\ call[r].wired \in Int /\ 0 <= call[r].wired /\ call[r].wired <= Len(Wiring)
           /\ call[r].policy \in Policies \cup {None}
           /\ call[r].identified \in BOOLEAN
           /\ call[r].tenant \in Tenants \cup {NoTenant}
           /\ call[r].vouched \subseteq Tenants \cup {NoTenant}
           /\ call[r].record \in Tenants \cup {NoTenant}
           /\ call[r].born \in Int /\ 0 <= call[r].born
           /\ call[r].warm \in BOOLEAN
BY WiringType, NamesAssumption DEF TypeOK, Calls

LEMMA FreshType ==
    /\ Fresh \in Calls
    /\ Fresh.pc = "idle" /\ Fresh.kind = "none" /\ Fresh.wired = 0 /\ ~Fresh.identified
    /\ Fresh.born = 0 /\ ~Fresh.warm /\ Fresh.status = 0 /\ Fresh.adapter = [p \in Ports |-> None]
    /\ Fresh.policy = None /\ Fresh.record = NoTenant
BY WiringType, NamesAssumption DEF Fresh, Calls, PCs, Statuses

\* Only r moves.
Alone(r) ==
    /\ call' \in [Request -> Calls]
    /\ \A q \in Request \ {r} : call'[q] = call[q]

Moved(r, pc) ==
    /\ Alone(r)
    /\ call'[r].pc = pc
    /\ UNCHANGED <<call[r].kind, call[r].container, call[r].adapter, call[r].wired,
                   call[r].policy, call[r].identified, call[r].tenant, call[r].vouched,
                   call[r].record, call[r].status, call[r].born, call[r].warm>>

LEMMA MovesEffect ==
    ASSUME TypeOK, NEW r \in Request, NEW pc \in PCs, Moves(r, pc)
    PROVE  Moved(r, pc)
<1>1. ASSUME NEW c \in Calls PROVE [c EXCEPT !.pc = pc] \in Calls
  BY DEF Calls
<1>2. Alone(r)
  BY <1>1 DEF Moves, Alone, TypeOK
<1>3. call[r] \in Calls
  BY DEF TypeOK
<1> QED BY <1>2, <1>3 DEF Moves, TypeOK, Calls, Moved

Held(r, c) ==
    /\ Alone(r)
    /\ call'[r].pc = AfterContainer(r)
    /\ call'[r].container = c
    /\ UNCHANGED <<call[r].kind, call[r].adapter, call[r].wired,
                   call[r].policy, call[r].identified, call[r].tenant, call[r].vouched,
                   call[r].record, call[r].status, call[r].born, call[r].warm>>

LEMMA HoldsEffect ==
    ASSUME TypeOK, NEW r \in Request, NEW c \in Request \cup {None}, Holds(r, c)
    PROVE  Held(r, c)
<1>1. ASSUME NEW d \in Calls, NEW pc \in PCs
      PROVE  [d EXCEPT !.pc = pc, !.container = c] \in Calls
  BY DEF Calls
<1>2. AfterContainer(r) \in PCs
  BY DEF AfterContainer, PCs
<1>3. Alone(r)
  BY <1>1, <1>2 DEF Holds, Alone, TypeOK
<1>4. call[r] \in Calls
  BY DEF TypeOK
<1> QED BY <1>3, <1>4 DEF Holds, TypeOK, Calls, Held

Took(r, a) ==
    /\ Alone(r)
    /\ call'[r].pc = AfterWiring(r)
    /\ call'[r].wired = call[r].wired + 1
    /\ call'[r].adapter = [call[r].adapter EXCEPT ![NextPort(r)] = a]
    /\ UNCHANGED <<call[r].kind, call[r].container,
                   call[r].policy, call[r].identified, call[r].tenant, call[r].vouched,
                   call[r].record, call[r].status, call[r].born, call[r].warm>>

LEMMA TakesEffect ==
    ASSUME TypeOK, NEW r \in Request, NEW a \in Request, call[r].wired < Len(Wiring), Takes(r, a)
    PROVE  Took(r, a)
<1>1. NextPort(r) \in Ports /\ call[r].wired + 1 \in 0 .. Len(Wiring) /\ AfterWiring(r) \in PCs
  BY CallType, WiringType DEF NextPort, AfterWiring, PCs
<1> DEFINE next == NextPort(r)
           then == AfterWiring(r)
           changed == [call[r] EXCEPT !.pc = then, !.wired = @ + 1, !.adapter[next] = a]
<1>3. call \in [Request -> Calls] /\ call[r] \in Calls
  BY DEF TypeOK
<1>7. call' = [call EXCEPT ![r].pc = then, ![r].wired = @ + 1, ![r].adapter[next] = a]
  BY DEF Takes
<1> HIDE DEF next, then
<1>2. call' = [call EXCEPT ![r] = changed]
  BY <1>3, <1>7
<1>4. /\ changed.pc = then /\ changed.wired = call[r].wired + 1
      /\ changed.adapter = [call[r].adapter EXCEPT ![next] = a]
      /\ changed.kind = call[r].kind /\ changed.container = call[r].container
      /\ changed.policy = call[r].policy /\ changed.identified = call[r].identified
      /\ changed.tenant = call[r].tenant /\ changed.vouched = call[r].vouched
      /\ changed.record = call[r].record /\ changed.status = call[r].status
      /\ changed.born = call[r].born /\ changed.warm = call[r].warm
  BY <1>3 DEF Calls
<1>5. changed \in Calls
  BY <1>1, <1>3 DEF Calls, next, then
<1> HIDE DEF changed
<1>6. Alone(r) /\ call'[r] = changed
  BY <1>2, <1>5 DEF Alone, TypeOK
<1> QED BY <1>4, <1>6 DEF next, then, Took

Scored(r, y) ==
    /\ Alone(r)
    /\ call'[r].pc = "answer"
    /\ call'[r].policy = y
    /\ UNCHANGED <<call[r].kind, call[r].container, call[r].adapter, call[r].wired,
                   call[r].identified, call[r].tenant, call[r].vouched,
                   call[r].record, call[r].status, call[r].born, call[r].warm>>

LEMMA ScoresEffect ==
    ASSUME TypeOK, NEW r \in Request, NEW y \in Policies \cup {None}, Scores(r, y)
    PROVE  Scored(r, y)
<1>1. ASSUME NEW d \in Calls PROVE  [d EXCEPT !.pc = "answer", !.policy = y] \in Calls
  BY DEF Calls, PCs
<1>3. Alone(r)
  BY <1>1 DEF Scores, Alone, TypeOK
<1>4. call[r] \in Calls
  BY DEF TypeOK
<1> QED BY <1>3, <1>4 DEF Scores, TypeOK, Calls, Scored


\* What Over leaves of a request.
Ended(o, r, c, s) ==
    /\ o \in Calls
    /\ o.pc = c /\ o.kind = call[r].kind /\ o.status = s
    /\ o.born = call[r].born /\ o.warm = call[r].warm
    /\ o.wired = 0 /\ o.identified = FALSE /\ o.adapter = [p \in Ports |-> None]

LEMMA OverType ==
    ASSUME TypeOK, NEW r \in Request, NEW s \in Statuses, NEW c \in PCs
    PROVE  Ended(Over(r, c, s), r, c, s)
<1>1. call[r] \in Calls /\ Fresh \in Calls
  BY FreshType DEF TypeOK
<1> DEFINE o == Over(r, c, s)
           k == call[r].kind
           b == call[r].born
           w == call[r].warm
<1>2. /\ k \in {"none", "assess", "read", "public", "tool"}
      /\ b \in 0 .. MaxRestarts /\ w \in BOOLEAN
  BY <1>1 DEF Calls
<1>4. o = [Fresh EXCEPT !.pc = c, !.kind = k, !.status = s, !.born = b, !.warm = w]
  BY DEF Over
<1> HIDE DEF k, b, w, o
<1>5. /\ o \in Calls
      /\ o.pc = c /\ o.kind = k /\ o.status = s /\ o.born = b /\ o.warm = w
      /\ o.wired = Fresh.wired /\ o.identified = Fresh.identified /\ o.adapter = Fresh.adapter
  BY <1>1, <1>2, <1>4 DEF Calls
<1> QED BY <1>5, FreshType DEF k, b, w, o, Ended

LEMMA DoneType ==
    ASSUME TypeOK, NEW r \in Request, NEW s \in Statuses
    PROVE  Ended(Over(r, "done", s), r, "done", s)
<1>1. "done" \in PCs
  BY DEF PCs
<1> QED BY <1>1, OverType

LEMMA DeadType ==
    ASSUME TypeOK, NEW r \in Request
    PROVE  Ended(Over(r, "dead", 0), r, "dead", 0)
<1>1. "dead" \in PCs /\ 0 \in Statuses
  BY DEF PCs, Statuses
<1> QED BY <1>1, OverType

LEMMA EndsEffect ==
    ASSUME TypeOK, NEW r \in Request, NEW status \in Statuses, Ends(r, status)
    PROVE  Alone(r) /\ call'[r] = Over(r, "done", status)
<1>1. Over(r, "done", status) \in Calls
  BY DoneType DEF Ended
<1> QED BY <1>1 DEF Ends, Alone, TypeOK

AnsweredWith(r, tenant) ==
    /\ Alone(r)
    /\ call'[r].pc = "done" /\ call'[r].status = 200 /\ call'[r].record = tenant
    /\ call'[r].wired = 0 /\ call'[r].identified = FALSE
    /\ call'[r].adapter = [p \in Ports |-> None]
    /\ UNCHANGED <<call[r].kind, call[r].container, call[r].policy, call[r].vouched,
                   call[r].born, call[r].warm>>

LEMMA AnswersEffect ==
    ASSUME TypeOK, NEW r \in Request, NEW tenant \in Tenants \cup {NoTenant},
           AnswersWith(r, tenant)
    PROVE  AnsweredWith(r, tenant)
<1>1. 200 \in Statuses
  BY DEF Statuses
<1> DEFINE o == Over(r, "done", 200)
           held == call[r].container
           under == call[r].policy
           names == call[r].vouched
           changed == [o EXCEPT !.container = held, !.policy = under,
                         !.vouched = names, !.record = tenant]
<1>2. call' = [call EXCEPT ![r] = changed]
  BY DEF AnswersWith
<1>3. /\ held \in Request \cup {None} /\ under \in Policies \cup {None}
      /\ names \in SUBSET (Tenants \cup {NoTenant})
  BY CallType
<1>4. /\ o \in Calls /\ o.pc = "done" /\ o.status = 200 /\ o.kind = call[r].kind
      /\ o.born = call[r].born /\ o.warm = call[r].warm /\ o.wired = 0
      /\ o.identified = FALSE /\ o.adapter = [p \in Ports |-> None]
  <2>1. Ended(o, r, "done", 200)
    BY <1>1, DoneType
  <2> HIDE DEF o
  <2> QED BY <2>1 DEF Ended
<1> HIDE DEF o, held, under, names
<1>5. changed \in Calls
  BY <1>3, <1>4 DEF Calls
<1>6. /\ changed.pc = o.pc /\ changed.status = o.status /\ changed.kind = o.kind
      /\ changed.born = o.born /\ changed.warm = o.warm /\ changed.wired = o.wired
      /\ changed.identified = o.identified /\ changed.adapter = o.adapter
      /\ changed.container = held /\ changed.policy = under /\ changed.vouched = names
      /\ changed.record = tenant
  BY <1>4 DEF Calls
<1> HIDE DEF changed
<1>7. Alone(r) /\ call'[r] = changed
  BY <1>2, <1>5 DEF Alone, TypeOK
<1> QED BY <1>4, <1>6, <1>7 DEF held, under, names, AnsweredWith

Finished(r, status) ==
    /\ Alone(r)
    /\ Ended(call'[r], r, "done", status)

LEMMA FinishesEffect ==
    ASSUME TypeOK, NEW r \in Request, NEW status \in Statuses, Ends(r, status)
    PROVE  Finished(r, status)
<1>1. Alone(r) /\ call'[r] = Over(r, "done", status)
  BY EndsEffect
<1>2. Ended(Over(r, "done", status), r, "done", status)
  BY DoneType
<1> QED BY <1>1, <1>2 DEF Finished

Arrived(r, kind) ==
    /\ Alone(r)
    /\ call'[r].pc = "seek" /\ call'[r].kind = kind
    /\ call'[r].born = process.starts /\ call'[r].warm = Settled
    /\ UNCHANGED <<call[r].container, call[r].adapter, call[r].wired, call[r].policy,
                   call[r].identified, call[r].tenant, call[r].vouched, call[r].record,
                   call[r].status>>

LEMMA ArriveEffect ==
    ASSUME TypeOK, NEW r \in Request, NEW kind \in {"assess", "read", "public"},
           Arrive(r, kind)
    PROVE  Arrived(r, kind)
<1> DEFINE b == process.starts
           w == Settled
<1>1. b \in 0 .. MaxRestarts /\ w \in BOOLEAN
  BY DEF TypeOK, Settled
<1>2. call \in [Request -> Calls] /\ call[r] \in Calls
  BY DEF TypeOK
<1>3. call' = [call EXCEPT ![r].pc = "seek", ![r].kind = kind, ![r].born = b, ![r].warm = w]
  BY DEF Arrive
<1> HIDE DEF b, w
<1>4. ASSUME NEW d \in Calls
      PROVE  [d EXCEPT !.pc = "seek", !.kind = kind, !.born = b, !.warm = w] \in Calls
  BY <1>1 DEF Calls, PCs
<1>5. Alone(r)
  BY <1>2, <1>3, <1>4 DEF Alone
<1>6. /\ call'[r].pc = "seek" /\ call'[r].kind = kind
      /\ call'[r].born = b /\ call'[r].warm = w
      /\ UNCHANGED <<call[r].container, call[r].adapter, call[r].wired, call[r].policy,
                   call[r].identified, call[r].tenant, call[r].vouched, call[r].record,
                   call[r].status>>
  BY <1>2, <1>3 DEF Calls
<1> QED BY <1>5, <1>6 DEF Arrived, b, w

Resolved(r, h) ==
    /\ Alone(r)
    /\ call'[r].pc = "seek" /\ call'[r].identified = TRUE
    /\ call'[r].tenant \in call'[r].vouched
    /\ UNCHANGED <<call[r].kind, call[r].container, call[r].adapter, call[r].wired,
                   call[r].policy, call[r].record, call[r].status, call[r].born, call[r].warm>>

LEMMA IdentifyEffect ==
    ASSUME TypeOK, NEW r \in Request, NEW h \in HeaderSets, Identify(r, h)
    PROVE  (\E s \in {401, 503} : Ends(r, s)) \/ Resolved(r, h)
<1>1. CASE Resolution(deployment, h) # 200
  BY <1>1 DEF Identify, Resolution
<1>2. CASE Resolution(deployment, h) = 200
  <2> DEFINE t == PrincipalTenant(h)
             v == VouchedFor(h)
  <2>1. t \in v /\ v \in SUBSET (Tenants \cup {NoTenant})
    BY <1>2, InputsAssumption, ResolvedIsSound DEF TypeOK
  <2>2. call \in [Request -> Calls] /\ call[r] \in Calls
    BY DEF TypeOK
  <2>3. call' = [call EXCEPT ![r].pc = "seek", ![r].identified = TRUE,
                             ![r].tenant = t, ![r].vouched = v]
    BY <1>2 DEF Identify
  <2> HIDE DEF t, v
  <2>4. ASSUME NEW d \in Calls
        PROVE  [d EXCEPT !.pc = "seek", !.identified = TRUE, !.tenant = t, !.vouched = v]
                  \in Calls
    BY <2>1 DEF Calls, PCs
  <2>5. Alone(r)
    BY <2>2, <2>3, <2>4 DEF Alone
  <2>6. /\ call'[r].pc = "seek" /\ call'[r].identified = TRUE
        /\ call'[r].tenant = t /\ call'[r].vouched = v
        /\ UNCHANGED <<call[r].kind, call[r].container, call[r].adapter, call[r].wired,
                   call[r].policy, call[r].record, call[r].status, call[r].born, call[r].warm>>
    BY <2>2, <2>3 DEF Calls
  <2> QED BY <2>1, <2>5, <2>6 DEF Resolved
<1> QED BY <1>1, <1>2

-----------------------------------------------------------------------------
(* What is true of one call, by the point it has reached.                  *)

Handler == {"wire", "construct", "pack", "load", "answer"}

\* Where a request is and what it may hold there.
Placed(r) ==
    /\ At(r, "idle") => call[r] = Fresh
    /\ InFlight(r) => call[r].kind \in {"assess", "read", "public"}
    /\ call[r].pc \in {"seek", "build", "identify"} => call[r].wired = 0
    /\ call[r].pc \in {"identify", "wire", "construct"} => call[r].kind # "public"
    /\ call[r].pc \in {"wire", "construct"} => call[r].wired < Len(Wiring)
    /\ call[r].pc \in {"pack", "load"} => call[r].kind = "assess"
    /\ call[r].pc \in {"pack", "load", "answer"} /\ call[r].kind = "assess" =>
          call[r].wired = Len(Wiring)
    /\ call[r].pc \in Handler \cup {"identify"} => call[r].container \in Request
    /\ call[r].pc \in Handler => call[r].identified \/ call[r].kind = "public"
    /\ call[r].identified => call[r].tenant \in call[r].vouched

\* The adapters it has taken so far.
Wired(r) ==
    /\ \A i \in 1 .. call[r].wired : call[r].adapter[Wiring[i]] # None
    /\ \A p \in Ports : call[r].adapter[p] # None =>
          call[r].pc \in Handler /\ call[r].kind \in {"assess", "read"}

\* The process it came to.
Born(r) ==
    /\ InFlight(r) => call[r].born = process.starts
    /\ call[r].born <= process.starts

Served(r) ==
    Answered(r) /\ call[r].kind \in {"assess", "read"} =>
        \/ call[r].record \in call[r].vouched
        \/ call[r].kind = "assess" /\ NoTenant \in call[r].vouched

Local(r) == Placed(r) /\ Wired(r) /\ Born(r) /\ Served(r)
LocalInv == \A r \in Request : Local(r)

\* A step of one request, by what it does to the call.
LEMMA SeekEffect ==
    ASSUME TypeOK, NEW r \in Request, SeekContainer(r)
    PROVE  \/ process.container \in Request /\ Held(r, process.container)
           \/ process.container = None /\ Moved(r, "build")
<1>1. "build" \in PCs /\ process.container \in Request \cup {None}
  BY DEF PCs, TypeOK
<1> QED BY <1>1, HoldsEffect, MovesEffect DEF SeekContainer

\* It ended with an error answer.
Failed(r) == \E s \in {401, 403, 404, 500, 503} : Finished(r, s)

LEMMA FailsEffect ==
    ASSUME TypeOK, NEW r \in Request, NEW s \in {401, 403, 404, 500, 503}, Ends(r, s)
    PROVE  Failed(r)
<1>1. s \in Statuses
  BY DEF Statuses
<1> QED BY <1>1, FinishesEffect DEF Failed

LEMMA BuildEffect ==
    ASSUME TypeOK, NEW r \in Request, BuildContainer(r)
    PROVE  \/ Failed(r) /\ process' = process
           \/ Held(r, r) /\ process' = [process EXCEPT !.container = FirstBuilt(@, r)]
<1>1. CASE disk.settings = "broken"
  <2>1. PICK s \in {401, 403, 404, 500, 503} : Ends(r, s)
    BY <1>1 DEF BuildContainer
  <2> QED BY <1>1, <2>1, FailsEffect DEF BuildContainer
<1>2. CASE disk.settings # "broken"
  BY <1>2, HoldsEffect DEF BuildContainer
<1> QED BY <1>1, <1>2

LEMMA WireEffect ==
    ASSUME TypeOK, NEW r \in Request, Local(r), WirePort(r)
    PROVE  /\ NextPort(r) \in Ports
           /\ \/ Kept(r) \in Request /\ Took(r, Kept(r))
              \/ Kept(r) = None /\ Moved(r, "construct")
<1>1. "construct" \in PCs
  BY DEF PCs
<1>2. call[r].wired < Len(Wiring) /\ call[r].container \in Request
  BY DEF WirePort, At, Local, Placed, Handler
<1>3. NextPort(r) \in Ports
  BY <1>2, CallType, WiringType DEF NextPort
<1>4. Kept(r) \in Request \cup {None}
  BY <1>2, <1>3 DEF TypeOK, Kept
<1> QED BY <1>1, <1>2, <1>3, <1>4, TakesEffect, MovesEffect DEF WirePort

LEMMA ConstructEffect ==
    ASSUME TypeOK, NEW r \in Request, Local(r), ConstructAdapter(r)
    PROVE  NextPort(r) \in Ports /\ call[r].container \in Request /\ Took(r, r)
<1>2. call[r].wired < Len(Wiring) /\ call[r].container \in Request
  BY DEF ConstructAdapter, At, Local, Placed, Handler
<1>3. NextPort(r) \in Ports
  BY <1>2, CallType, WiringType DEF NextPort
<1> QED BY <1>2, <1>3, TakesEffect DEF ConstructAdapter

LEMMA PackEffect ==
    ASSUME TypeOK, NEW r \in Request, SeekPack(r)
    PROVE  \/ process.policy # None /\ Scored(r, process.policy)
           \/ process.policy = None /\ Moved(r, "load")
<1>1. "load" \in PCs /\ process.policy \in Policies \cup {None}
  BY DEF PCs, TypeOK
<1> QED BY <1>1, ScoresEffect, MovesEffect DEF SeekPack

LEMMA LoadEffect ==
    ASSUME TypeOK, NEW r \in Request, LoadPack(r)
    PROVE  \/ Failed(r) /\ process' = process
           \/ \E y \in Policies :
                /\ Scored(r, y)
                /\ process' = [process EXCEPT !.policy = IF @ = None THEN y ELSE @]
<1>2. CASE ~Loads(disk.pack)
  <2>1. PICK s \in {401, 403, 404, 500, 503} : Ends(r, s)
    BY <1>2 DEF LoadPack
  <2> QED BY <1>2, <2>1, FailsEffect DEF LoadPack
<1>3. CASE Loads(disk.pack)
  <2> DEFINE y == Policy(disk.pack)
  <2>1. y \in Policies
    BY <1>3 DEF TypeOK, Policies
  <2>2. Scores(r, y) /\ process' = [process EXCEPT !.policy = IF @ = None THEN y ELSE @]
    BY <1>3 DEF LoadPack
  <2> HIDE DEF y
  <2> QED BY <2>1, <2>2, ScoresEffect
<1> QED BY <1>2, <1>3

LEMMA AssessEffect ==
    ASSUME TypeOK, NEW r \in Request, NEW body \in Bodies, AnswerAssess(r, body)
    PROVE  AnsweredWith(r, TenantOf(r, body))
<1>1. TenantOf(r, body) \in Tenants \cup {NoTenant}
  BY CallType, InputsAssumption DEF TenantOf
<1> QED BY <1>1, AnswersEffect DEF AnswerAssess

LEMMA ReadEffect ==
    ASSUME TypeOK, NEW r \in Request, NEW q \in Request, AnswerRead(r, q)
    PROVE  Failed(r) \/ AnsweredWith(r, call[r].tenant)
<1>1. call[r].tenant \in Tenants \cup {NoTenant}
  BY CallType
<1>2. (\E s \in {401, 403, 404, 500, 503} : Ends(r, s)) \/ AnswersWith(r, call[r].tenant)
  BY DEF AnswerRead, MayRead
<1> QED BY <1>1, <1>2, FailsEffect, AnswersEffect

LEMMA PublicEffect ==
    ASSUME TypeOK, NEW r \in Request, AnswerPublic(r) PROVE Finished(r, 200)
<1>1. 200 \in Statuses
  BY DEF Statuses
<1> QED BY <1>1, FinishesEffect DEF AnswerPublic

LEMMA RefusalEffect ==
    ASSUME TypeOK, NEW r \in Request, NEW h \in HeaderSets, Identify(r, h)
    PROVE  Failed(r) \/ Resolved(r, h)
BY IdentifyEffect, FailsEffect

\* A tool call is over as soon as it is made.
Tooled(r) ==
    /\ Alone(r)
    /\ call'[r].pc = "done" /\ call'[r].kind = "tool" /\ call'[r].wired = 0
    /\ call'[r].identified = FALSE /\ call'[r].born = 0 /\ call'[r].warm = FALSE
    /\ call'[r].adapter = [p \in Ports |-> None]

LEMMA ToolEffect ==
    ASSUME TypeOK, NEW r \in Request, NEW tenant \in Bodies, RunTool(r, tenant)
    PROVE  Tooled(r)
<1>1. tenant \in Tenants \cup {NoTenant}
  BY InputsAssumption
<1> DEFINE o == [Fresh EXCEPT !.pc = "done", !.kind = "tool", !.status = 200,
                              !.record = tenant]
<1>6. "done" \in PCs /\ 200 \in Statuses
  BY DEF PCs, Statuses
<1>2. o \in Calls
  <2>1. ASSUME NEW d \in Calls, NEW c \in PCs, NEW s \in Statuses
        PROVE  [d EXCEPT !.pc = c, !.kind = "tool", !.status = s, !.record = tenant]
                  \in Calls
    BY <1>1 DEF Calls
  <2> QED BY <1>6, <2>1, FreshType
<1>3. /\ o.pc = "done" /\ o.kind = "tool" /\ o.wired = Fresh.wired
      /\ o.identified = Fresh.identified /\ o.born = Fresh.born /\ o.warm = Fresh.warm
      /\ o.adapter = Fresh.adapter
  BY FreshType DEF Calls
<1>4. call' = [call EXCEPT ![r] = o]
  BY DEF RunTool
<1> HIDE DEF o
<1>5. Alone(r) /\ call'[r] = o
  BY <1>2, <1>4 DEF Alone, TypeOK
<1> QED BY <1>3, <1>5, FreshType DEF Tooled
=============================================================================
