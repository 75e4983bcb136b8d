----------------------------- MODULE ServingProofs -----------------------------
(***************************************************************************)
(* The invariant of Serving, IInv, and the theorems it carries.  TypeOK    *)
(* and LocalInv (what one call holds at each point) are inductive          *)
(* together.  ContainerInv adds which container a handler has; MetInv,     *)
(* that any two requests in flight at once are recorded; CacheInv, that    *)
(* whoever still misses a cache another request has filled was in flight   *)
(* with it and came to a process that had answered no assessment yet.      *)
(***************************************************************************)
EXTENDS ServingEffects

-----------------------------------------------------------------------------
(* Types and the facts of one call are inductive.                          *)

LEMMA InitLocal == Init => TypeOK /\ LocalInv
<1> SUFFICES ASSUME Init PROVE TypeOK /\ LocalInv
  OBVIOUS
<1>1. \A r \in Request : call[r] = Fresh
  BY DEF Init
<1>2. call \in [Request -> Calls]
  BY FreshType DEF Init
<1>3. process \in [starts : 0 .. MaxRestarts, container : Request \cup {None},
                   adapters : [Request -> [Ports -> Request \cup {None}]],
                   policy : Policies \cup {None}]
  BY NamesAssumption DEF Init, Empty
<1>4. disk \in [settings : {"sound", "broken"}, pack : PackFiles, edits : 0 .. MaxEdits]
  BY NamesAssumption DEF Init
<1>5. TypeOK
  BY <1>2, <1>3, <1>4 DEF Init, TypeOK
<1>6. process.starts = 0
  BY DEF Init
<1>7. ASSUME NEW r \in Request PROVE Local(r)
  <2>1. call[r] = Fresh /\ call[r].pc = "idle" /\ call[r].wired = 0 /\ ~call[r].identified
        /\ call[r].born = 0 /\ call[r].kind = "none"
        /\ \A p \in Ports : call[r].adapter[p] = None
    BY <1>1, FreshType
  <2> QED BY <1>6, <2>1 DEF Local, Placed, Wired, Born, Served, At, InFlight, Answered, Handler
<1> QED BY <1>5, <1>7 DEF LocalInv

\* The calls of a step that only r takes.
LEMMA OthersLocal ==
    ASSUME LocalInv, NEW r \in Request, Alone(r), process'.starts = process.starts,
           NEW q \in Request, q # r
    PROVE  Local(q)'
<1>1. call'[q] = call[q]
  BY DEF Alone
<1> QED BY <1>1 DEF LocalInv, Local, Placed, Wired, Born, Served, At, InFlight, Answered

LEMMA MovedLocal ==
    ASSUME TypeOK, NEW r \in Request, Local(r), process'.starts = process.starts,
           \/ Moved(r, "build") /\ At(r, "seek")
           \/ Moved(r, "construct") /\ At(r, "wire")
           \/ Moved(r, "load") /\ At(r, "pack")
    PROVE  Local(r)'
BY CallType DEF Moved, Local, Placed, Wired, Born, Served, At, InFlight, Answered, Handler

LEMMA HeldLocal ==
    ASSUME TypeOK, NEW r \in Request, Local(r), process'.starts = process.starts,
           NEW c \in Request, Held(r, c), At(r, "seek") \/ At(r, "build")
    PROVE  Local(r)'
BY CallType, WiringType
   DEF Held, AfterContainer, Local, Placed, Wired, Born, Served, At, InFlight, Answered, Handler

LEMMA TookLocal ==
    ASSUME TypeOK, NEW r \in Request, Local(r), process'.starts = process.starts,
           NEW a \in Request, Took(r, a), At(r, "wire") \/ At(r, "construct")
    PROVE  Local(r)'
<1>1. Placed(r)'
  BY CallType, WiringType
     DEF Took, AfterWiring, Local, Placed, At, InFlight, Handler
<1>2. Wired(r)'
  <2>1. a # None
    BY NamesAssumption
  <2>2. call'[r].pc \in Handler /\ call'[r].kind \in {"assess", "read"}
    BY DEF Took, AfterWiring, Local, Placed, At, InFlight, Handler
  <2>3. ASSUME NEW i \in 1 .. call'[r].wired PROVE call'[r].adapter[Wiring[i]] # None
    <3>1. call[r].adapter \in [Ports -> Request \cup {None}] /\ call[r].wired < Len(Wiring)
      BY CallType DEF Local, Placed, At
    <3>2. i \in 1 .. Len(Wiring) /\ Wiring[i] \in Ports
      BY <2>3, <3>1, CallType, WiringType DEF Took
    <3>3. CASE i = call[r].wired + 1
      BY <2>1, <3>1, <3>2, <3>3 DEF Took, NextPort
    <3>4. CASE i # call[r].wired + 1
      <4>1. i \in 1 .. call[r].wired
        BY <2>3, <3>4, CallType DEF Took
      <4>2. call[r].adapter[Wiring[i]] # None
        BY <4>1 DEF Local, Wired
      <4> QED BY <2>1, <3>1, <3>2, <4>2 DEF Took
    <3> QED BY <3>3, <3>4
  <2> QED BY <2>2, <2>3 DEF Wired
<1>3. Born(r)' /\ Served(r)'
  BY DEF Took, AfterWiring, Local, Born, Served, At, InFlight, Answered
<1> QED BY <1>1, <1>2, <1>3 DEF Local

LEMMA ScoredLocal ==
    ASSUME TypeOK, NEW r \in Request, Local(r), process'.starts = process.starts,
           NEW y \in Policies \cup {None}, Scored(r, y), At(r, "pack") \/ At(r, "load")
    PROVE  Local(r)'
BY DEF Scored, Local, Placed, Wired, Born, Served, At, InFlight, Answered, Handler

LEMMA FinishedLocal ==
    ASSUME TypeOK, NEW r \in Request, Local(r), process'.starts = process.starts,
           NEW s, Finished(r, s), s # 200 \/ call[r].kind = "public"
    PROVE  Local(r)'
BY DEF Finished, Ended, Local, Placed, Wired, Born, Served, At, InFlight, Answered, Handler

LEMMA FailedLocal ==
    ASSUME TypeOK, NEW r \in Request, Local(r), process'.starts = process.starts, Failed(r)
    PROVE  Local(r)' /\ Alone(r)
<1>1. PICK s : Finished(r, s) /\ s # 200
  BY DEF Failed
<1> QED BY <1>1, FinishedLocal DEF Finished

LEMMA ResolvedLocal ==
    ASSUME TypeOK, NEW r \in Request, Local(r), process'.starts = process.starts,
           NEW h, Resolved(r, h), At(r, "identify")
    PROVE  Local(r)'
BY DEF Resolved, Local, Placed, Wired, Born, Served, At, InFlight, Answered, Handler

LEMMA AnsweredLocal ==
    ASSUME TypeOK, NEW r \in Request, Local(r), process'.starts = process.starts,
           NEW t, AnsweredWith(r, t), At(r, "answer"),
           \/ call[r].kind = "read" /\ t = call[r].tenant
           \/ call[r].kind = "assess" /\ (t = call[r].tenant \/ call[r].tenant = NoTenant)
    PROVE  Local(r)'
BY DEF AnsweredWith, Local, Placed, Wired, Born, Served, At, InFlight, Answered, Handler

LEMMA ArrivedLocal ==
    ASSUME TypeOK, NEW r \in Request, Local(r), process' = process,
           NEW kind \in {"assess", "read", "public"}, Arrived(r, kind), At(r, "idle")
    PROVE  Local(r)'
BY FreshType
   DEF Arrived, Local, Placed, Wired, Born, Served, At, InFlight, Answered, Handler, TypeOK

LEMMA TooledLocal ==
    ASSUME TypeOK, NEW r \in Request, Local(r), process' = process, Tooled(r)
    PROVE  Local(r)'
BY NamesAssumption
   DEF Tooled, Local, Placed, Wired, Born, Served, At, InFlight, Answered, Handler, TypeOK

\* A step that one request takes.
RequestStep(r) ==
    \/ \E kind \in {"assess", "read", "public"} : Arrive(r, kind)
    \/ SeekContainer(r) \/ BuildContainer(r)
    \/ \E h \in HeaderSets : Identify(r, h)
    \/ WirePort(r) \/ ConstructAdapter(r)
    \/ SeekPack(r) \/ LoadPack(r)
    \/ \E body \in Bodies : AnswerAssess(r, body) \/ RunTool(r, body)
    \/ \E q \in Request : AnswerRead(r, q)
    \/ AnswerPublic(r)

LEMMA RequestLocal ==
    ASSUME TypeOK, LocalInv, NEW r \in Request, RequestStep(r)
    PROVE  Local(r)' /\ Alone(r) /\ process'.starts = process.starts
<1>0. Local(r)
  BY DEF LocalInv
<1>10. process'.starts = process.starts
  BY DEF RequestStep, Arrive, SeekContainer, BuildContainer, Identify, WirePort,
     ConstructAdapter, SeekPack, LoadPack, AnswerAssess, RunTool, AnswerRead, AnswerPublic,
     TypeOK
<1>1. ASSUME NEW kind \in {"assess", "read", "public"}, Arrive(r, kind)
      PROVE Local(r)' /\ Alone(r)
  <2>1. Arrived(r, kind) /\ At(r, "idle") /\ process' = process
    BY <1>1, ArriveEffect DEF Arrive
  <2> QED BY <1>0, <2>1, ArrivedLocal DEF Arrived
<1>2. CASE SeekContainer(r)
  BY <1>0, <1>2, <1>10, SeekEffect, HeldLocal, MovedLocal DEF SeekContainer, Held, Moved
<1>3. CASE BuildContainer(r)
  <2>1. At(r, "build") /\ (Failed(r) \/ Held(r, r))
    BY <1>3, BuildEffect DEF BuildContainer
  <2> QED BY <1>0, <1>10, <2>1, HeldLocal, FailedLocal DEF Held
<1>4. ASSUME NEW h \in HeaderSets, Identify(r, h) PROVE Local(r)' /\ Alone(r)
  <2>1. At(r, "identify")
    BY <1>4 DEF Identify
  <2>2. CASE Resolved(r, h)
    BY <1>0, <1>10, <2>1, <2>2, ResolvedLocal DEF Resolved
  <2> QED BY <1>0, <1>4, <1>10, <2>2, RefusalEffect, FailedLocal
<1>5. CASE WirePort(r)
  <2>1. At(r, "wire")
    BY <1>5 DEF WirePort
  <2> QED BY <1>0, <1>5, <1>10, <2>1, WireEffect, TookLocal, MovedLocal DEF Took, Moved
<1>6. CASE ConstructAdapter(r)
  <2>1. At(r, "construct")
    BY <1>6 DEF ConstructAdapter
  <2> QED BY <1>0, <1>6, <1>10, <2>1, ConstructEffect, TookLocal DEF Took
<1>7. CASE SeekPack(r)
  <2>1. At(r, "pack") /\ process.policy \in Policies \cup {None}
    BY <1>7 DEF SeekPack, TypeOK
  <2> QED BY <1>0, <1>7, <1>10, <2>1, PackEffect, ScoredLocal, MovedLocal DEF Scored, Moved
<1>8. CASE LoadPack(r)
  <2>1. At(r, "load")
    BY <1>8 DEF LoadPack
  <2>2. ASSUME NEW y \in Policies, Scored(r, y) PROVE Local(r)' /\ Alone(r)
    BY <1>0, <1>10, <2>1, <2>2, ScoredLocal DEF Scored
  <2> QED BY <1>0, <1>8, <1>10, <2>2, LoadEffect, FailedLocal
<1>9. ASSUME NEW body \in Bodies, AnswerAssess(r, body) PROVE Local(r)' /\ Alone(r)
  <2>1. At(r, "answer") /\ call[r].kind = "assess"
    BY <1>9 DEF AnswerAssess
  <2> DEFINE t == TenantOf(r, body)
  <2>2. t = call[r].tenant \/ call[r].tenant = NoTenant
    BY DEF TenantOf
  <2>3. AnsweredWith(r, t)
    BY <1>9, AssessEffect
  <2> HIDE DEF t
  <2> QED BY <1>0, <1>10, <2>1, <2>2, <2>3, AnsweredLocal DEF AnsweredWith
<1>11. ASSUME NEW body \in Bodies, RunTool(r, body) PROVE Local(r)' /\ Alone(r)
  <2>1. Tooled(r) /\ process' = process
    BY <1>11, ToolEffect DEF RunTool
  <2> QED BY <1>0, <2>1, TooledLocal DEF Tooled
<1>12. ASSUME NEW q \in Request, AnswerRead(r, q) PROVE Local(r)' /\ Alone(r)
  <2>1. At(r, "answer") /\ call[r].kind = "read"
    BY <1>12 DEF AnswerRead
  <2>2. CASE AnsweredWith(r, call[r].tenant)
    BY <1>0, <1>10, <2>1, <2>2, AnsweredLocal DEF AnsweredWith
  <2> QED BY <1>0, <1>10, <1>12, <2>2, ReadEffect, FailedLocal
<1>13. CASE AnswerPublic(r)
  <2>1. call[r].kind = "public" /\ Finished(r, 200)
    BY <1>13, PublicEffect DEF AnswerPublic
  <2> QED BY <1>0, <1>10, <2>1, FinishedLocal DEF Finished
<1> QED
  BY <1>1, <1>2, <1>3, <1>4, <1>5, <1>6, <1>7, <1>8, <1>9, <1>10, <1>11, <1>12, <1>13
     DEF RequestStep

LEMMA RestartLocal ==
    ASSUME TypeOK, LocalInv, Restart
    PROVE  /\ call' \in [Request -> Calls]
           /\ LocalInv'
<1>1. ASSUME NEW r \in Request
      PROVE  /\ ~InFlight(r) => call'[r] = call[r]
             /\ InFlight(r) => Ended(call'[r], r, "dead", 0)
             /\ call'[r] \in Calls
  <2>1. call'[r] = IF InFlight(r) THEN Over(r, "dead", 0) ELSE call[r]
    BY DEF Restart
  <2>2. Ended(Over(r, "dead", 0), r, "dead", 0)
    BY DeadType
  <2>3. call[r] \in Calls
    BY DEF TypeOK
  <2> QED BY <2>1, <2>2, <2>3 DEF Ended
<1>2. call' \in [Request -> Calls]
  BY <1>1 DEF Restart
<1>3. process'.starts = process.starts + 1 /\ process.starts \in Int
  BY NamesAssumption DEF Restart, TypeOK
<1>4. ASSUME NEW r \in Request PROVE Local(r)'
  <2>1. Local(r) /\ call[r].born \in Int
    BY CallType DEF LocalInv
  <2>2. CASE ~InFlight(r)
    <3>1. call'[r] = call[r]
      BY <1>1, <2>2
    <3> QED BY <1>3, <2>1, <2>2, <3>1
         DEF Local, Placed, Wired, Born, Served, At, InFlight, Answered, Handler
  <2>3. CASE InFlight(r)
    <3>1. /\ call'[r].pc = "dead" /\ call'[r].wired = 0 /\ call'[r].identified = FALSE
          /\ call'[r].born = call[r].born /\ \A p \in Ports : call'[r].adapter[p] = None
      BY <1>1, <2>3 DEF Ended
    <3>2. Placed(r)' /\ Wired(r)' /\ Served(r)'
      BY <3>1 DEF Placed, Wired, Served, At, InFlight, Answered, Handler
    <3>3. Born(r)'
      BY <1>3, <2>1, <3>1 DEF Local, Born, InFlight
    <3> QED BY <3>2, <3>3 DEF Local
  <2> QED BY <2>2, <2>3
<1> QED BY <1>2, <1>4 DEF LocalInv

LEMMA TypeStep == ASSUME TypeOK, LocalInv, [Next]_vars PROVE TypeOK' /\ LocalInv'
<1> DEFINE P == [starts : 0 .. MaxRestarts, container : Request \cup {None},
                 adapters : [Request -> [Ports -> Request \cup {None}]],
                 policy : Policies \cup {None}]
<1>1. ASSUME NEW r \in Request, RequestStep(r) PROVE TypeOK' /\ LocalInv'
  <2>1. Local(r)' /\ Alone(r) /\ process'.starts = process.starts
    BY <1>1, RequestLocal
  <2>2. LocalInv'
    BY <2>1, OthersLocal DEF LocalInv
  <2>3. process' \in P
    <3>1. CASE BuildContainer(r)
      BY <3>1 DEF TypeOK, BuildContainer, FirstBuilt
    <3>2. CASE LoadPack(r)
      <4>1. process' = process
            \/ \E y \in Policies : process' = [process EXCEPT !.policy = IF @ = None THEN y ELSE @]
        BY <3>2, LoadEffect
      <4> QED BY <4>1 DEF TypeOK
    <3>3. CASE ConstructAdapter(r)
      <4>1. NextPort(r) \in Ports /\ call[r].container \in Request
        BY <3>3, ConstructEffect DEF LocalInv
      <4> DEFINE c == call[r].container
                 p == NextPort(r)
      <4>2. process' = [process EXCEPT !.adapters[c][p] = r]
        BY <3>3 DEF ConstructAdapter
      <4> HIDE DEF c, p
      <4> QED BY <4>1, <4>2 DEF TypeOK, c, p
    <3>4. CASE ~(BuildContainer(r) \/ LoadPack(r) \/ ConstructAdapter(r))
      <4>1. process' = process
        BY <1>1, <3>4 DEF RequestStep, Arrive, SeekContainer, Identify, WirePort,
           SeekPack, AnswerAssess, RunTool, AnswerRead, AnswerPublic
      <4> QED BY <4>1 DEF TypeOK
    <3> QED BY <3>1, <3>2, <3>3, <3>4
  <2>4. deployment' = deployment /\ disk' = disk
    BY <1>1 DEF RequestStep, Arrive, SeekContainer, BuildContainer, Identify, WirePort,
       ConstructAdapter, SeekPack, LoadPack, AnswerAssess, RunTool, AnswerRead, AnswerPublic
  <2>5. met' \subseteq SUBSET Request
    <3>1. ASSUME NEW kind, Arrive(r, kind) PROVE met' \subseteq SUBSET Request
      BY <3>1 DEF Arrive, TypeOK
    <3>2. (\E kind \in {"assess", "read", "public"} : Arrive(r, kind)) \/ met' = met
      BY <1>1 DEF RequestStep, SeekContainer, BuildContainer, Identify, WirePort,
         ConstructAdapter, SeekPack, LoadPack, AnswerAssess, RunTool, AnswerRead, AnswerPublic
    <3> QED BY <3>1, <3>2 DEF TypeOK
  <2>6. data' \subseteq Ports \X (Request \cup {Disk}) \X Request
    <3>1. ASSUME NEW body, AnswerAssess(r, body) 
          PROVE  data' \subseteq Ports \X (Request \cup {Disk}) \X Request
      <4>1. ASSUME NEW p \in Ports PROVE Home(r, p) \in Request \cup {Disk}
        <5>1. call[r].adapter[p] \in Request
          <6>1. call[r].wired = Len(Wiring)
            BY <3>1 DEF AnswerAssess, LocalInv, Local, Placed, At
          <6>2. PICK i \in 1 .. Len(Wiring) : p = Wiring[i]
            BY WiringType
          <6>3. call[r].adapter[p] # None
            BY <6>1, <6>2 DEF LocalInv, Local, Wired
          <6> QED BY <6>3, CallType
        <5> QED BY <5>1 DEF Home
      <4>2. data' = data \cup {<<p, Home(r, p), r>> : p \in Ports}
        BY <3>1 DEF AnswerAssess
      <4> QED BY <4>1, <4>2 DEF TypeOK
    <3>2. ASSUME NEW body, RunTool(r, body)
          PROVE  data' \subseteq Ports \X (Request \cup {Disk}) \X Request
      BY <3>2 DEF RunTool, TypeOK
    <3>3. (\E body \in Bodies : AnswerAssess(r, body) \/ RunTool(r, body)) \/ data' = data
      BY <1>1 DEF RequestStep, Arrive, SeekContainer, BuildContainer, Identify, WirePort,
         ConstructAdapter, SeekPack, LoadPack, AnswerRead, AnswerPublic
    <3> QED BY <3>1, <3>2, <3>3 DEF TypeOK
  <2> QED BY <2>1, <2>2, <2>3, <2>4, <2>5, <2>6 DEF TypeOK, Alone
<1>2. CASE Restart
  <2>1. process' \in P
    BY <1>2, NamesAssumption DEF TypeOK, Restart, Empty
  <2>2. UNCHANGED <<deployment, disk, met>> /\ data' \subseteq data
    BY <1>2 DEF Restart
  <2> QED BY <1>2, <2>1, <2>2, RestartLocal DEF TypeOK
<1>3. CASE EditSettings \/ EditPack
  <2>1. disk' \in [settings : {"sound", "broken"}, pack : PackFiles, edits : 0 .. MaxEdits]
    <3>1. disk.edits + 1 \in 0 .. MaxEdits
      <4>1. disk.edits \in 0 .. MaxEdits
        BY DEF TypeOK
      <4>2. disk.edits < MaxEdits
        BY <1>3 DEF EditSettings, EditPack
      <4> QED BY <4>1, <4>2, NamesAssumption
    <3>2. CASE EditSettings
      BY <3>1, <3>2 DEF EditSettings, TypeOK
    <3>3. CASE EditPack
      BY <3>1, <3>3 DEF EditPack, TypeOK
    <3> QED BY <1>3, <3>2, <3>3
  <2>2. UNCHANGED <<deployment, process, data, call, met>>
    BY <1>3 DEF EditSettings, EditPack
  <2> QED BY <2>1, <2>2
       DEF TypeOK, LocalInv, Local, Placed, Wired, Born, Served, At, InFlight, Answered
<1>4. CASE UNCHANGED vars
  BY <1>4 DEF vars, TypeOK, LocalInv, Local, Placed, Wired, Born, Served, At, InFlight, Answered
<1> QED BY <1>1, <1>2, <1>3, <1>4 DEF Next, RequestStep

-----------------------------------------------------------------------------
(* The container.                                                          *)

Contained(r) ==
    call[r].born = process.starts /\ call[r].kind \in {"assess", "read"} =>
        /\ call[r].identified \/ call[r].pc = "identify" => process.container # None
        /\ call[r].pc = "build" => ~call[r].identified
        /\ call[r].pc \in Handler \/ Answered(r) =>
              process.container # None /\ call[r].container = process.container

ContainerInv == \A r \in Request : Contained(r)

\* What only grows while a process lives.
LEMMA ProcessGrows ==
    ASSUME TypeOK, LocalInv, NEW r \in Request, RequestStep(r)
    PROVE  /\ process.container # None => process'.container = process.container
           /\ process.policy # None => process'.policy = process.policy
           /\ met \subseteq met' /\ data \subseteq data'
           /\ ~BuildContainer(r) => process'.container = process.container
           /\ ~LoadPack(r) => process'.policy = process.policy
           /\ ~ConstructAdapter(r) => process'.adapters = process.adapters
<1>1. CASE BuildContainer(r)
  BY <1>1 DEF BuildContainer, FirstBuilt, TypeOK
<1>2. CASE LoadPack(r)
  BY <1>2 DEF LoadPack, TypeOK
<1>3. CASE ConstructAdapter(r)
  BY <1>3 DEF ConstructAdapter, TypeOK
<1>4. CASE ~(BuildContainer(r) \/ LoadPack(r) \/ ConstructAdapter(r))
  BY <1>4 DEF RequestStep, Arrive, SeekContainer, Identify, WirePort,
     SeekPack, AnswerAssess, RunTool, AnswerRead, AnswerPublic
<1> QED BY <1>1, <1>2, <1>3, <1>4

LEMMA ContainerStep ==
    ASSUME TypeOK, LocalInv, ContainerInv, NEW r \in Request, RequestStep(r)
    PROVE  ContainerInv'
<1> USE DEF At, Answered, Handler
<1>1. Alone(r) /\ process'.starts = process.starts /\ Local(r) /\ Contained(r)
  BY RequestLocal DEF LocalInv, ContainerInv
<1>2. ASSUME NEW q \in Request, q # r PROVE Contained(q)'
  <2>1. call'[q] = call[q] /\ Contained(q)
    BY <1>1, <1>2 DEF Alone, ContainerInv
  <2> QED BY <1>1, <2>1, ProcessGrows DEF Contained
<1> SUFFICES Contained(r)'
  BY <1>2 DEF ContainerInv
<1>3. ASSUME Failed(r) PROVE Contained(r)'
  BY <1>3 DEF Failed, Finished, Ended, Contained
<1>4. ASSUME NEW kind \in {"assess", "read", "public"}, Arrive(r, kind) PROVE Contained(r)'
  <2>1. Arrived(r, kind) /\ ~call[r].identified
    BY <1>1, <1>4, ArriveEffect, FreshType DEF Arrive, Local, Placed
  <2> QED BY <2>1 DEF Arrived, Contained
<1>5. CASE SeekContainer(r)
  <2>1. process'.container = process.container /\ At(r, "seek")
    BY <1>5 DEF SeekContainer
  <2>2. CASE process.container \in Request /\ Held(r, process.container)
    BY <1>1, <2>1, <2>2, NamesAssumption DEF Held, AfterContainer, Contained
  <2>3. CASE process.container = None /\ Moved(r, "build")
    BY <1>1, <2>1, <2>3 DEF Moved, Contained
  <2> QED BY <1>5, <2>2, <2>3, SeekEffect
<1>6. CASE BuildContainer(r)
  <2>1. CASE Held(r, r) /\ process' = [process EXCEPT !.container = FirstBuilt(@, r)]
    <3>1. process'.container # None
      BY <2>1, NamesAssumption DEF FirstBuilt, TypeOK
    <3>2. call'[r].born = process'.starts /\ call'[r].kind \in {"assess", "read"} =>
             ~call[r].identified
      BY <1>1, <1>6, <2>1 DEF Held, BuildContainer, Contained
    <3> QED BY <2>1, <3>1, <3>2 DEF Held, AfterContainer, Contained
  <2> QED BY <1>3, <1>6, <2>1, BuildEffect
<1>7. ASSUME NEW h \in HeaderSets, Identify(r, h) PROVE Contained(r)'
  <2>1. CASE Resolved(r, h)
    BY <1>1, <1>7, <2>1 DEF Resolved, Identify, Contained
  <2> QED BY <1>3, <1>7, <2>1, RefusalEffect
<1>8. CASE WirePort(r)
  <2>1. process' = process /\ At(r, "wire")
    BY <1>8 DEF WirePort
  <2>2. CASE Moved(r, "construct")
    BY <1>1, <2>1, <2>2 DEF Moved, Contained
  <2>3. ASSUME NEW a \in Request, Took(r, a) PROVE Contained(r)'
    BY <1>1, <2>1, <2>3 DEF Took, AfterWiring, Contained
  <2> QED BY <1>1, <1>8, <2>2, <2>3, WireEffect
<1>9. CASE ConstructAdapter(r)
  <2>1. process'.container = process.container /\ At(r, "construct") /\ Took(r, r)
    BY <1>1, <1>9, ConstructEffect, ProcessGrows DEF ConstructAdapter, TypeOK
  <2> QED BY <1>1, <2>1 DEF Took, AfterWiring, Contained
<1>10. CASE SeekPack(r)
  <2>1. process' = process /\ At(r, "pack")
    BY <1>10 DEF SeekPack
  <2> QED BY <1>1, <1>10, <2>1, PackEffect DEF Scored, Moved, Contained
<1>11. CASE LoadPack(r)
  <2>1. process'.container = process.container /\ At(r, "load")
    BY <1>11 DEF LoadPack, TypeOK
  <2>2. ASSUME NEW y \in Policies, Scored(r, y) PROVE Contained(r)'
    BY <1>1, <2>1, <2>2 DEF Scored, Contained
  <2> QED BY <1>3, <1>11, <2>2, LoadEffect
<1>12. ASSUME NEW t, AnsweredWith(r, t), process' = process, At(r, "answer") PROVE Contained(r)'
  BY <1>1, <1>12 DEF AnsweredWith, Contained
<1>13. ASSUME NEW body \in Bodies, AnswerAssess(r, body) PROVE Contained(r)'
  <2>1. process' = process /\ At(r, "answer")
    BY <1>13 DEF AnswerAssess
  <2> QED BY <1>12, <1>13, <2>1, AssessEffect
<1>14. ASSUME NEW q \in Request, AnswerRead(r, q) PROVE Contained(r)'
  <2>1. process' = process /\ At(r, "answer")
    BY <1>14 DEF AnswerRead
  <2> QED BY <1>3, <1>12, <1>14, <2>1, ReadEffect
<1>15. CASE AnswerPublic(r)
  <2>1. call[r].kind = "public" /\ Finished(r, 200)
    BY <1>15, PublicEffect DEF AnswerPublic
  <2> QED BY <2>1 DEF Finished, Ended, Contained
<1>16. ASSUME NEW body \in Bodies, RunTool(r, body) PROVE Contained(r)'
  <2>1. Tooled(r)
    BY <1>16, ToolEffect
  <2> QED BY <2>1 DEF Tooled, Contained
<1> QED
  BY <1>4, <1>5, <1>6, <1>7, <1>8, <1>9, <1>10, <1>11, <1>13, <1>14, <1>15, <1>16
     DEF RequestStep

-----------------------------------------------------------------------------
(* Requests in flight together.                                            *)

MetInv ==
    /\ \A m \in met : \A r \in m : ~At(r, "idle")
    /\ \A r, q \in Request : r # q /\ InFlight(r) /\ InFlight(q) => {r, q} \in met

LEMMA MetStep ==
    ASSUME TypeOK, LocalInv, MetInv, NEW r \in Request, RequestStep(r)
    PROVE  /\ MetInv'
           /\ \A q \in Request : ~At(q, "idle") => ~At(q, "idle")' /\ call'[q].warm = call[q].warm
           /\ \A q \in Request : Raced(q) => Raced(q)'
           /\ ~At(r, "idle") => met' = met /\ InFlight(r)
           /\ \A q \in Request : InFlight(q)' /\ q # r => InFlight(q)
<1>1. Alone(r)
  BY RequestLocal
<1>2. ASSUME NEW kind \in {"assess", "read", "public"}, Arrive(r, kind)
      PROVE  /\ call[r].pc = "idle" /\ call'[r].pc = "seek"
             /\ met' = met \cup {{r, q} : q \in {x \in Request : InFlight(x)}}
  BY <1>2, ArriveEffect DEF Arrive, At, Arrived
<1>3. ASSUME NEW body \in Bodies, RunTool(r, body)
      PROVE  call[r].pc = "idle" /\ call'[r].pc = "done" /\ met' = met
  BY <1>3, ToolEffect DEF RunTool, At, Tooled
<1>4. ASSUME call[r].pc # "idle"
      PROVE  /\ call'[r].pc # "idle" /\ call'[r].warm = call[r].warm
             /\ InFlight(r) /\ met' = met
  <2>1. Local(r)
    BY DEF LocalInv
  <2>2. CASE SeekContainer(r)
    BY <2>2, SeekEffect DEF Held, Moved, AfterContainer, SeekContainer, At, InFlight
  <2>3. ASSUME Failed(r) PROVE call'[r].pc = "done" /\ call'[r].warm = call[r].warm
    BY <2>3 DEF Failed, Finished, Ended
  <2>4. CASE BuildContainer(r)
    BY <2>3, <2>4, BuildEffect DEF Held, AfterContainer, BuildContainer, At, InFlight
  <2>5. ASSUME NEW h \in HeaderSets, Identify(r, h)
        PROVE  /\ call'[r].pc # "idle" /\ call'[r].warm = call[r].warm
               /\ InFlight(r) /\ met' = met
    BY <2>3, <2>5, RefusalEffect DEF Resolved, Identify, At, InFlight
  <2>6. CASE WirePort(r)
    BY <2>1, <2>6, WireEffect DEF Took, Moved, AfterWiring, WirePort, At, InFlight
  <2>7. CASE ConstructAdapter(r)
    BY <2>1, <2>7, ConstructEffect DEF Took, AfterWiring, ConstructAdapter, At, InFlight
  <2>8. CASE SeekPack(r)
    BY <2>8, PackEffect DEF Scored, Moved, SeekPack, At, InFlight
  <2>9. CASE LoadPack(r)
    BY <2>3, <2>9, LoadEffect DEF Scored, LoadPack, At, InFlight
  <2>10. ASSUME NEW body \in Bodies, AnswerAssess(r, body)
         PROVE  /\ call'[r].pc # "idle" /\ call'[r].warm = call[r].warm
                /\ InFlight(r) /\ met' = met
    BY <2>10, AssessEffect DEF AnsweredWith, AnswerAssess, At, InFlight
  <2>11. ASSUME NEW q \in Request, AnswerRead(r, q)
         PROVE  /\ call'[r].pc # "idle" /\ call'[r].warm = call[r].warm
                /\ InFlight(r) /\ met' = met
    BY <2>3, <2>11, ReadEffect DEF AnsweredWith, AnswerRead, At, InFlight
  <2>12. CASE AnswerPublic(r)
    BY <2>12, PublicEffect DEF Finished, Ended, AnswerPublic, At, InFlight
  <2> QED
    BY <1>2, <1>3, <1>4, <2>2, <2>4, <2>5, <2>6, <2>7, <2>8, <2>9, <2>10, <2>11, <2>12
       DEF RequestStep
<1>5. ASSUME NEW q \in Request, q # r PROVE call'[q] = call[q]
  BY <1>1, <1>5 DEF Alone
<1>6. call'[r].pc # "idle"
  BY <1>2, <1>3, <1>4 DEF RequestStep, SeekContainer, BuildContainer, Identify, WirePort,
     ConstructAdapter, SeekPack, LoadPack, AnswerAssess, AnswerRead, AnswerPublic, At
<1>7. /\ met \subseteq met'
      /\ \A m \in met' \ met : \E q \in Request : m = {r, q} /\ InFlight(q)
      /\ call[r].pc = "idle" => \A q \in Request : InFlight(q) => {r, q} \in met' \/ ~InFlight(r)'
  BY <1>2, <1>3, <1>4 DEF RequestStep, SeekContainer, BuildContainer, Identify, WirePort,
     ConstructAdapter, SeekPack, LoadPack, AnswerAssess, AnswerRead, AnswerPublic, At, InFlight
<1>8. \A q \in Request : ~At(q, "idle") => ~At(q, "idle")' /\ call'[q].warm = call[q].warm
  BY <1>4, <1>5 DEF At
<1>9. MetInv'
  <2>1. ASSUME NEW m \in met', NEW q \in m PROVE ~At(q, "idle")'
    <3>1. CASE m \in met
      BY <1>8, <3>1 DEF MetInv, TypeOK
    <3>2. CASE m \notin met
      <4>1. PICK x \in Request : m = {r, x} /\ InFlight(x)
        BY <1>7, <3>2
      <4> QED BY <1>6, <1>8, <4>1 DEF At, InFlight
    <3> QED BY <3>1, <3>2
  <2>2. ASSUME NEW p \in Request, NEW q \in Request, p # q, InFlight(p)', InFlight(q)'
        PROVE {p, q} \in met'
    <3>1. ASSUME NEW x \in Request, x # r, InFlight(x), InFlight(r)' PROVE {r, x} \in met'
      BY <1>4, <1>7, <3>1 DEF MetInv
    <3>2. ASSUME NEW x \in Request, x # r, InFlight(x)' PROVE InFlight(x)
      BY <1>5, <3>2 DEF InFlight
    <3>3. CASE p = r
      BY <2>2, <3>1, <3>2, <3>3
    <3>4. CASE q = r
      <4>1. {r, p} \in met' /\ {r, p} = {p, q}
        BY <2>2, <3>1, <3>2, <3>4
      <4> QED BY <4>1
    <3>5. CASE p # r /\ q # r
      BY <1>7, <2>2, <3>2, <3>5 DEF MetInv
    <3> QED BY <3>3, <3>4, <3>5
  <2> QED BY <2>1, <2>2 DEF MetInv
<1>10. \A q \in Request : Raced(q) => Raced(q)'
  BY <1>7, <1>8 DEF Raced, MetInv
<1> QED BY <1>4, <1>5, <1>8, <1>9, <1>10 DEF At, InFlight

-----------------------------------------------------------------------------
(* The caches: what they hold, and who may have missed it.                 *)

\* The adapter of p the process hands out.
Now(p) == process.adapters[process.container][p]

\* Everything an assessment needs has been built.
Full ==
    /\ process.container # None /\ process.policy # None
    /\ \A p \in Ports : Now(p) # None

InThis(r) == Assessed(r) /\ call[r].born = process.starts

\* A request that came after an answered assessment misses nothing, and one
\* that misses did so together with whoever filled the cache.
Filled(r) ==
    /\ InThis(r) => Full
    /\ InFlight(r) /\ call[r].warm => Full
    /\ call[r].pc \in {"construct", "load"} => ~call[r].warm

\* The adapters r holds are the ones the process hands out, unless r raced.
SameAdapters(r) ==
    \A p \in Ports : InFlight(r) /\ call[r].adapter[p] # None =>
        Now(p) # None /\ (Raced(r) \/ call[r].adapter[p] = Now(p))

\* So is the pack.
SamePack(r) ==
    /\ At(r, "load") /\ process.policy # None => Raced(r)
    /\ (At(r, "answer") /\ call[r].kind = "assess") \/ InThis(r) =>
          process.policy # None /\ (Raced(r) \/ call[r].policy = process.policy)

\* And what r wrote is where the process now looks.
Readable(r) ==
    /\ ~Durable /\ InThis(r) /\ ~Raced(r) => \A p \in Ports : <<p, Now(p), r>> \in data
    /\ Durable /\ Assessed(r) => \A p \in Ports : <<p, Disk, r>> \in data

\* Whoever has an adapter of a port while another is building one met it.
Crossed(r, q) ==
    (/\ r # q /\ At(q, "construct")
     /\ InThis(r) \/ (InFlight(r) /\ call[r].adapter[NextPort(q)] # None))
    => {r, q} \in met

CacheInv ==
    /\ \A r \in Request : Filled(r) /\ SameAdapters(r) /\ SamePack(r) /\ Readable(r)
    /\ \A r, q \in Request : Crossed(r, q)

IInv == TypeOK /\ LocalInv /\ ContainerInv /\ MetInv /\ CacheInv

\* What r holds as it works on a port.
LEMMA AtPort ==
    ASSUME TypeOK, LocalInv, ContainerInv, NEW r \in Request,
           At(r, "wire") \/ At(r, "construct")
    PROVE  /\ NextPort(r) \in Ports /\ InFlight(r)
           /\ process.container # None /\ call[r].container = process.container
           /\ Kept(r) = Now(NextPort(r))
<1>1. Placed(r) /\ Born(r) /\ Contained(r) /\ InFlight(r)
  BY DEF LocalInv, Local, ContainerInv, At, InFlight
<1>2. call[r].wired < Len(Wiring) /\ call[r].kind \in {"assess", "read"}
  BY <1>1 DEF Placed, At
<1>3. NextPort(r) \in Ports
  BY <1>2, CallType, WiringType DEF NextPort
<1>4. process.container # None /\ call[r].container = process.container
  BY <1>1, <1>2 DEF Born, Contained, At, Handler
<1> QED BY <1>1, <1>3, <1>4 DEF Kept, Now

LEMMA CachesGrow ==
    ASSUME TypeOK, LocalInv, ContainerInv, NEW r \in Request, RequestStep(r),
           process.container # None
    PROVE  /\ process'.container = process.container
           /\ \A p \in Ports : Now(p) # None => Now(p)' # None
           /\ \A p \in Ports : Now(p)' = Now(p) \/ (ConstructAdapter(r) /\ p = NextPort(r))
           /\ \A p \in Ports : ConstructAdapter(r) /\ p = NextPort(r) => Now(p)' = r
           /\ Full => Full'
<1>1. process'.container = process.container
  BY ProcessGrows
<1>4. process.policy # None => process'.policy # None
  BY ProcessGrows
<1>2. CASE ~ConstructAdapter(r)
  <2>1. process'.adapters = process.adapters
    BY <1>2, ProcessGrows
  <2>2. \A p \in Ports : Now(p)' = Now(p)
    BY <1>1, <2>1 DEF Now
  <2>3. Full => Full'
    BY <1>1, <1>4, <2>2 DEF Full
  <2> QED BY <1>1, <1>2, <2>2, <2>3
<1>3. CASE ConstructAdapter(r)
  <2>1. PICK n \in Ports, c \in Request :
           n = NextPort(r) /\ c = process.container /\ call[r].container = c
    BY <1>3, AtPort DEF ConstructAdapter, TypeOK
  <2>2. process' = [process EXCEPT !.adapters[c][n] = r]
    BY <1>3, <2>1 DEF ConstructAdapter
  <2>3. process.adapters \in [Request -> [Ports -> Request \cup {None}]]
    BY DEF TypeOK
  <2>4. process'.adapters = [process.adapters EXCEPT ![c][n] = r]
    BY <2>2 DEF TypeOK
  <2>5. /\ process'.adapters[c][n] = r
        /\ \A p \in Ports : p # n => process'.adapters[c][p] = process.adapters[c][p]
    BY <2>1, <2>3, <2>4
  <2>6. r # None
    BY NamesAssumption
  <2>7. Now(n)' = r /\ \A p \in Ports : p # n => Now(p)' = Now(p)
    BY <1>1, <2>1, <2>5 DEF Now
  <2>8. \A p \in Ports : Now(p) # None => Now(p)' # None
    BY <2>6, <2>7
  <2>9. Full => Full'
    BY <1>1, <1>4, <2>8 DEF Full
  <2> QED BY <1>1, <1>3, <2>1, <2>7, <2>8, <2>9
<1> QED BY <1>2, <1>3

\* What holds of a call that a step leaves alone.
LEMMA OthersCached ==
    ASSUME IInv, NEW r \in Request, RequestStep(r), NEW x \in Request, x # r
    PROVE  Filled(x)' /\ SameAdapters(x)' /\ SamePack(x)' /\ Readable(x)'
<1>1. /\ call'[x] = call[x] /\ process'.starts = process.starts
      /\ Local(x) /\ Contained(x) /\ Filled(x) /\ SameAdapters(x) /\ SamePack(x) /\ Readable(x)
      /\ Filled(r) /\ Crossed(x, r)
  BY RequestLocal DEF Alone, IInv, LocalInv, ContainerInv, CacheInv
<1>2. /\ process.policy # None => process'.policy = process.policy
      /\ ~LoadPack(r) => process'.policy = process.policy
      /\ data \subseteq data'
  BY ProcessGrows DEF IInv
<1>3. Raced(x) => Raced(x)'
  BY MetStep DEF IInv
<1>4. /\ InFlight(x)' <=> InFlight(x)
      /\ InThis(x)' <=> InThis(x)
      /\ Assessed(x)' <=> Assessed(x)
  BY <1>1 DEF InFlight, InThis, Assessed, Answered
<1>5. Full => Full'
  BY CachesGrow DEF IInv, Full
<1>6. Filled(x)'
  BY <1>1, <1>4, <1>5 DEF Filled
<1>7. ASSUME NEW p \in Ports, process.container # None,
             Now(p) # None, InThis(x) \/ (InFlight(x) /\ call[x].adapter[p] # None)
      PROVE  Now(p)' # None /\ (Raced(x) \/ Now(p)' = Now(p))
  <2>1. Now(p)' # None
    BY <1>7, CachesGrow DEF IInv
  <2>2. Now(p)' = Now(p) \/ (ConstructAdapter(r) /\ p = NextPort(r))
    BY <1>7, CachesGrow DEF IInv
  <2>3. ASSUME ConstructAdapter(r), p = NextPort(r) PROVE Raced(x)
    <3>1. At(r, "construct") /\ ~call[r].warm
      BY <1>1, <2>3 DEF ConstructAdapter, Filled, At
    <3>2. {x, r} \in met
      BY <1>1, <1>7, <2>3, <3>1 DEF Crossed
    <3> QED BY <3>1, <3>2 DEF Raced
  <2> QED BY <2>1, <2>2, <2>3
<1>8. SameAdapters(x)'
  <2> SUFFICES ASSUME NEW p \in Ports, InFlight(x), call[x].adapter[p] # None
               PROVE  Now(p)' # None /\ (Raced(x)' \/ call[x].adapter[p] = Now(p)')
    BY <1>1, <1>4 DEF SameAdapters
  <2>1. process.container # None
    BY <1>1 DEF Local, Wired, Born, Contained
  <2>2. Now(p) # None /\ (Raced(x) \/ call[x].adapter[p] = Now(p))
    BY <1>1 DEF SameAdapters
  <2> QED BY <1>3, <1>7, <2>1, <2>2
<1>9. SamePack(x)'
  <2>1. ASSUME At(x, "load"), process'.policy # None PROVE Raced(x)
    <3>1. CASE process.policy # None
      BY <1>1, <2>1, <3>1 DEF SamePack
    <3>2. CASE process.policy = None
      <4>1. At(r, "load") /\ ~call[r].warm
        BY <1>1, <1>2, <2>1, <3>2 DEF LoadPack, Filled, At
      <4>2. {x, r} \in met
        BY <2>1, <4>1 DEF IInv, MetInv, InFlight, At
      <4> QED BY <4>1, <4>2 DEF Raced
    <3> QED BY <3>1, <3>2
  <2>2. (At(x, "load")' <=> At(x, "load")) /\ (At(x, "answer")' <=> At(x, "answer"))
    BY <1>1 DEF At
  <2> QED BY <1>1, <1>2, <1>3, <1>4, <2>1, <2>2 DEF SamePack
<1>10. Readable(x)'
  <2>1. ASSUME ~Durable, InThis(x), ~Raced(x), NEW p \in Ports
        PROVE  <<p, Now(p)', x>> \in data'
    <3>1. process.container # None /\ Now(p) # None
      BY <1>1, <2>1 DEF Filled, Full
    <3>2. Now(p)' = Now(p)
      BY <1>7, <2>1, <3>1
    <3>3. <<p, Now(p), x>> \in data
      BY <1>1, <2>1 DEF Readable
    <3> QED BY <1>2, <3>2, <3>3
  <2>2. Durable /\ Assessed(x) => \A p \in Ports : <<p, Disk, x>> \in data'
    BY <1>1, <1>2 DEF Readable
  <2> QED BY <1>3, <1>4, <2>1, <2>2 DEF Readable
<1> QED BY <1>6, <1>8, <1>9, <1>10

\* A step that ends a call with nothing assessed.
Gone(r) == ~InFlight(r)' /\ ~InThis(r)' /\ ~Assessed(r)' /\ At(r, "done")'

\* A step before the first adapter.
Early(r) ==
    /\ call[r].pc \in {"seek", "build", "identify"}
    /\ call'[r].pc \notin {"construct", "load"}
    /\ call'[r].pc = "answer" => call'[r].kind = "public"
    /\ ~InThis(r)' /\ ~Assessed(r)'
    /\ UNCHANGED <<call[r].adapter, call[r].warm, call[r].kind>>

\* What a step does to the call of its own request.
LEMMA OwnStep ==
    ASSUME IInv, NEW r \in Request, RequestStep(r)
    PROVE  \/ \E kind \in {"assess", "read", "public"} : Arrive(r, kind) /\ Arrived(r, kind)
           \/ Gone(r)
           \/ Early(r)
           \/ WirePort(r) /\ ((\E a \in Request : a = Kept(r) /\ Took(r, a))
                               \/ (Kept(r) = None /\ Moved(r, "construct")))
           \/ ConstructAdapter(r) /\ Took(r, r)
           \/ SeekPack(r) /\ (\/ process.policy # None /\ Scored(r, process.policy)
                              \/ process.policy = None /\ Moved(r, "load"))
           \/ LoadPack(r) /\ \E y \in Policies :
                /\ Scored(r, y)
                /\ process' = [process EXCEPT !.policy = IF @ = None THEN y ELSE @]
           \/ \E body \in Bodies : AnswerAssess(r, body) /\ AnsweredWith(r, TenantOf(r, body))
<1>0. Local(r) /\ TypeOK
  BY DEF IInv, LocalInv
<1>1. ASSUME Failed(r) PROVE Gone(r)
  BY <1>1 DEF Gone, Failed, Finished, Ended, InFlight, InThis, Assessed, Answered, At
<1>2. ASSUME NEW t, AnsweredWith(r, t), call[r].kind # "assess" PROVE Gone(r)
  BY <1>2 DEF Gone, AnsweredWith, InFlight, InThis, Assessed, Answered, At
<1>3. CASE SeekContainer(r)
  <2>1. Early(r)
    BY <1>0, <1>3, SeekEffect DEF Early, SeekContainer, Held, Moved, AfterContainer, At, InThis,
       Assessed, Answered
  <2> QED BY <2>1
<1>4. CASE BuildContainer(r)
  <2>1. Gone(r) \/ Early(r)
    BY <1>0, <1>1, <1>4, BuildEffect DEF Early, BuildContainer, Held, AfterContainer, At, InThis,
       Assessed, Answered
  <2> QED BY <2>1
<1>5. ASSUME NEW h \in HeaderSets, Identify(r, h) PROVE Gone(r) \/ Early(r)
  BY <1>0, <1>1, <1>5, RefusalEffect DEF Early, Identify, Resolved, At, InThis, Assessed, Answered
<1>6. ASSUME NEW q \in Request, AnswerRead(r, q) PROVE Gone(r)
  <2>1. call[r].kind # "assess"
    BY <1>6 DEF AnswerRead
  <2> QED BY <1>0, <1>1, <1>2, <1>6, <2>1, ReadEffect
<1>7. CASE AnswerPublic(r)
  <2>1. Gone(r)
    BY <1>0, <1>7, PublicEffect
       DEF Gone, AnswerPublic, Finished, Ended, InFlight, InThis, Assessed, Answered, At
  <2> QED BY <2>1
<1>8. ASSUME NEW body \in Bodies, RunTool(r, body) PROVE Gone(r)
  BY <1>0, <1>8, ToolEffect DEF Gone, Tooled, InFlight, InThis, Assessed, Answered, At
<1>9. CASE WirePort(r)
  BY <1>0, <1>9, WireEffect
<1>10. CASE ConstructAdapter(r)
  BY <1>0, <1>10, ConstructEffect
<1>11. CASE SeekPack(r)
  BY <1>0, <1>11, PackEffect
<1>12. CASE LoadPack(r)
  <2>1. CASE Failed(r)
    BY <1>1, <2>1
  <2> QED BY <1>0, <1>12, <2>1, LoadEffect
<1>13. ASSUME NEW body \in Bodies, AnswerAssess(r, body)
       PROVE  AnsweredWith(r, TenantOf(r, body))
  BY <1>0, <1>13, AssessEffect
<1>14. ASSUME NEW kind \in {"assess", "read", "public"}, Arrive(r, kind)
       PROVE  Arrived(r, kind)
  BY <1>0, <1>14, ArriveEffect
<1>15. \/ \E kind \in {"assess", "read", "public"} : Arrive(r, kind) /\ Arrived(r, kind)
       \/ Gone(r) \/ Early(r) \/ SeekContainer(r) \/ BuildContainer(r) \/ AnswerPublic(r)
       \/ WirePort(r) \/ ConstructAdapter(r) \/ SeekPack(r) \/ LoadPack(r)
       \/ \E body \in Bodies : AnswerAssess(r, body) /\ AnsweredWith(r, TenantOf(r, body))
  BY <1>5, <1>6, <1>8, <1>13, <1>14 DEF RequestStep
<1> QED BY <1>3, <1>4, <1>7, <1>9, <1>10, <1>11, <1>12, <1>15

\* What holds of the call a step belongs to.
LEMMA OwnCached ==
    ASSUME IInv, NEW r \in Request, RequestStep(r)
    PROVE  Filled(r)' /\ SameAdapters(r)' /\ SamePack(r)' /\ Readable(r)'
<1>0. /\ Local(r) /\ Contained(r) /\ Filled(r) /\ SameAdapters(r) /\ SamePack(r)
      /\ TypeOK /\ LocalInv /\ ContainerInv /\ MetInv
      /\ process'.starts = process.starts
  BY RequestLocal DEF IInv, LocalInv, ContainerInv, CacheInv
<1>1. Full => Full'
  BY <1>0, CachesGrow DEF Full
<1>2. Raced(r) => Raced(r)'
  BY <1>0, MetStep
<1>3. ASSUME NEW kind \in {"assess", "read", "public"}, Arrive(r, kind), Arrived(r, kind)
      PROVE  Filled(r)' /\ SameAdapters(r)' /\ SamePack(r)' /\ Readable(r)'
  <2>1. call'[r].pc = "seek" /\ call'[r].warm = Settled /\ call'[r].adapter = call[r].adapter
    BY <1>3 DEF Arrived
  <2>2. Settled => Full
    BY DEF Settled, InThis, IInv, CacheInv, Filled
  <2>3. \A p \in Ports : call[r].adapter[p] = None
    BY <1>0, <1>3, FreshType DEF Arrive, Local, Placed
  <2> QED BY <1>1, <2>1, <2>2, <2>3
       DEF Filled, SameAdapters, SamePack, Readable, InThis, Assessed, Answered, At
<1>4. CASE Gone(r)
  BY <1>4 DEF Gone, Filled, SameAdapters, SamePack, Readable, InFlight, At
<1>5. CASE Early(r)
  <2>1. \A p \in Ports : call[r].adapter[p] = None
    BY <1>0, <1>5 DEF Early, Local, Wired, Handler
  <2>2. Filled(r)'
    <3>1. InFlight(r)' /\ call'[r].warm => InFlight(r) /\ call[r].warm
      BY <1>5 DEF Early, InFlight
    <3> QED BY <1>0, <1>1, <1>5, <3>1 DEF Early, Filled
  <2>3. SameAdapters(r)' /\ Readable(r)'
    BY <1>5, <2>1 DEF Early, SameAdapters, Readable
  <2>4. SamePack(r)'
    BY <1>5 DEF Early, SamePack, At
  <2> QED BY <2>2, <2>3, <2>4
<1>6. ASSUME At(r, "wire") \/ At(r, "construct"), NEW a \in Request, NEW n \in Ports,
             n = NextPort(r), Took(r, a), process.container # None, Now(n)' = a,
             \A p \in Ports : p # n => Now(p)' = Now(p)
      PROVE  Filled(r)' /\ SameAdapters(r)' /\ SamePack(r)' /\ Readable(r)'
  <2>1. /\ call'[r].pc \in {"wire", "pack", "answer"}
        /\ call'[r].pc = "answer" => call'[r].kind = "read"
        /\ call'[r].adapter = [call[r].adapter EXCEPT ![n] = a]
        /\ call'[r].warm = call[r].warm
    BY <1>0, <1>6 DEF Took, AfterWiring, Local, Placed, At, InFlight
  <2>2. Filled(r)'
    BY <1>0, <1>1, <1>6, <2>1 DEF Filled, InThis, Assessed, Answered, InFlight, At
  <2>3. SamePack(r)' /\ Readable(r)'
    BY <2>1 DEF SamePack, Readable, InThis, Assessed, Answered, At
  <2>4. SameAdapters(r)'
    <3> SUFFICES ASSUME NEW p \in Ports, call'[r].adapter[p] # None
                 PROVE  Now(p)' # None /\ (Raced(r)' \/ call'[r].adapter[p] = Now(p)')
      BY DEF SameAdapters
    <3>1. call[r].adapter \in [Ports -> Request \cup {None}] /\ a # None
      BY <1>0, CallType, NamesAssumption
    <3>2. CASE p = n
      BY <1>6, <2>1, <3>1, <3>2
    <3>3. CASE p # n
      <4>1. call'[r].adapter[p] = call[r].adapter[p] /\ Now(p)' = Now(p) /\ InFlight(r)
        BY <1>6, <2>1, <3>1, <3>3 DEF InFlight, At
      <4> QED BY <1>0, <1>2, <4>1 DEF SameAdapters
    <3> QED BY <3>2, <3>3
  <2> QED BY <2>2, <2>3, <2>4
<1>7. CASE WirePort(r)
  <2>1. PICK n \in Ports : /\ n = NextPort(r) /\ Kept(r) = Now(n) /\ InFlight(r)
                          /\ process.container # None /\ At(r, "wire")
    BY <1>0, <1>7, AtPort DEF WirePort
  <2>2. process' = process
    BY <1>7 DEF WirePort
  <2>3. \A p \in Ports : Now(p)' = Now(p)
    BY <2>2 DEF Now
  <2>4. ASSUME NEW a \in Request, a = Kept(r), Took(r, a)
        PROVE  Filled(r)' /\ SameAdapters(r)' /\ SamePack(r)' /\ Readable(r)'
    BY <1>6, <2>1, <2>3, <2>4
  <2>5. CASE Kept(r) = None /\ Moved(r, "construct")
    <3>1. ~Full
      BY <2>1, <2>5 DEF Full
    <3>2. /\ call'[r].pc = "construct" /\ call'[r].warm = call[r].warm
          /\ call'[r].adapter = call[r].adapter
      BY <2>5 DEF Moved
    <3>3. Filled(r)'
      BY <1>0, <2>1, <3>1, <3>2 DEF Filled, InThis, Assessed, Answered
    <3>4. SameAdapters(r)'
      BY <1>0, <1>2, <2>1, <2>3, <3>2 DEF SameAdapters
    <3> QED BY <3>2, <3>3, <3>4 DEF SamePack, Readable, InThis, Assessed, Answered, At
  <2>6. (\E a \in Request : a = Kept(r) /\ Took(r, a))
         \/ (Kept(r) = None /\ Moved(r, "construct"))
    BY <1>0, <1>7, WireEffect
  <2> QED BY <2>4, <2>5, <2>6
<1>8. CASE ConstructAdapter(r)
  <2>1. PICK n \in Ports : /\ n = NextPort(r) /\ process.container # None /\ At(r, "construct")
    BY <1>0, <1>8, AtPort DEF ConstructAdapter
  <2>2. Now(n)' = r /\ \A p \in Ports : p # n => Now(p)' = Now(p)
    BY <1>0, <1>8, <2>1, CachesGrow
  <2>3. Took(r, r)
    BY <1>0, <1>8, ConstructEffect
  <2> QED BY <1>6, <2>1, <2>2, <2>3
<1>9. ASSUME NEW y \in Policies \cup {None}, Scored(r, y), InFlight(r), call[r].kind = "assess",
             process'.policy # None, process'.policy = y \/ Raced(r),
             \A p \in Ports : Now(p)' = Now(p)
      PROVE  Filled(r)' /\ SameAdapters(r)' /\ SamePack(r)' /\ Readable(r)'
  <2>1. /\ call'[r].pc = "answer" /\ call'[r].policy = y
        /\ call'[r].warm = call[r].warm /\ call'[r].adapter = call[r].adapter
    BY <1>9 DEF Scored
  <2>2. Filled(r)'
    BY <1>0, <1>1, <1>9, <2>1 DEF Filled, InThis, Assessed, Answered
  <2>3. SameAdapters(r)'
    BY <1>0, <1>2, <1>9, <2>1 DEF SameAdapters
  <2>4. SamePack(r)' /\ Readable(r)'
    BY <1>2, <1>9, <2>1 DEF SamePack, Readable, InThis, Assessed, Answered, At
  <2> QED BY <2>2, <2>3, <2>4
<1>10. CASE SeekPack(r)
  <2>1. /\ process' = process /\ InFlight(r) /\ call[r].kind = "assess"
        /\ process.policy \in Policies \cup {None}
    BY <1>0, <1>10 DEF SeekPack, Local, Placed, At, InFlight, TypeOK
  <2>2. \A p \in Ports : Now(p)' = Now(p)
    BY <2>1 DEF Now
  <2>3. CASE process.policy # None /\ Scored(r, process.policy)
    BY <1>9, <2>1, <2>2, <2>3
  <2>4. CASE process.policy = None /\ Moved(r, "load")
    <3>1. /\ call'[r].pc = "load" /\ call'[r].warm = call[r].warm
          /\ call'[r].adapter = call[r].adapter
      BY <2>4 DEF Moved
    <3>2. Filled(r)'
      BY <1>0, <2>1, <2>4, <3>1 DEF Filled, Full, InThis, Assessed, Answered
    <3>3. SameAdapters(r)'
      BY <1>0, <1>2, <2>1, <2>2, <3>1 DEF SameAdapters
    <3> QED BY <2>1, <2>4, <3>1, <3>2, <3>3
         DEF SamePack, Readable, InThis, Assessed, Answered, At
  <2> QED BY <1>0, <1>10, <2>3, <2>4, PackEffect
<1>11. ASSUME LoadPack(r), NEW y \in Policies, Scored(r, y),
              process' = [process EXCEPT !.policy = IF @ = None THEN y ELSE @]
       PROVE  Filled(r)' /\ SameAdapters(r)' /\ SamePack(r)' /\ Readable(r)'
  <2>1. At(r, "load") /\ InFlight(r) /\ call[r].kind = "assess"
    BY <1>0, <1>11 DEF LoadPack, Local, Placed, At, InFlight
  <2>2. /\ process'.container = process.container /\ process'.adapters = process.adapters
        /\ process'.policy = IF process.policy = None THEN y ELSE process.policy
    BY <1>0, <1>11 DEF TypeOK
  <2>3. \A p \in Ports : Now(p)' = Now(p)
    BY <2>2 DEF Now
  <2>4. process'.policy # None /\ (process'.policy = y \/ Raced(r))
    BY <1>0, <2>1, <2>2, PoliciesAssumption DEF SamePack
  <2> QED BY <1>9, <1>11, <2>1, <2>3, <2>4
<1>12. ASSUME NEW body \in Bodies, AnswerAssess(r, body), NEW t, AnsweredWith(r, t)
       PROVE  Filled(r)' /\ SameAdapters(r)' /\ SamePack(r)' /\ Readable(r)'
  <2>1. /\ process' = process /\ At(r, "answer") /\ call[r].kind = "assess" /\ InFlight(r)
        /\ data' = data \cup {<<p, Home(r, p), r>> : p \in Ports}
    BY <1>12 DEF AnswerAssess, At, InFlight
  <2>2. /\ call'[r].pc = "done" /\ call'[r].policy = call[r].policy
    BY <1>12 DEF AnsweredWith
  <2>3. \A p \in Ports : Now(p)' = Now(p)
    BY <2>1 DEF Now
  <2>4. ASSUME NEW p \in Ports PROVE call[r].adapter[p] # None
    <3>1. PICK i \in 1 .. Len(Wiring) : p = Wiring[i]
      BY WiringType
    <3> QED BY <1>0, <2>1, <3>1 DEF Local, Placed, Wired, At
  <2>5. \A p \in Ports : Now(p) # None /\ (Raced(r) \/ call[r].adapter[p] = Now(p))
    BY <1>0, <2>1, <2>4 DEF SameAdapters
  <2>6. process.policy # None /\ (Raced(r) \/ call[r].policy = process.policy)
    BY <1>0, <2>1 DEF SamePack
  <2>7. process.container # None
    BY <1>0, <2>1 DEF Contained, Local, Born, At, Handler
  <2>8. Filled(r)'
    BY <1>1, <2>2, <2>5, <2>6, <2>7 DEF Filled, Full, InFlight
  <2>9. SameAdapters(r)'
    BY <2>2 DEF SameAdapters, InFlight
  <2>10. SamePack(r)'
    BY <1>2, <2>1, <2>2, <2>6 DEF SamePack, At
  <2>11. Readable(r)'
    <3>1. ASSUME ~Durable, ~Raced(r)', NEW p \in Ports PROVE <<p, Now(p)', r>> \in data'
      <4>1. Home(r, p) = Now(p)'
        BY <1>2, <2>3, <2>5, <3>1 DEF Home
      <4> QED BY <2>1, <4>1
    <3>2. ASSUME Durable, NEW p \in Ports PROVE <<p, Disk, r>> \in data'
      BY <2>1, <3>2 DEF Home
    <3> QED BY <3>1, <3>2 DEF Readable
  <2> QED BY <2>8, <2>9, <2>10, <2>11
<1> QED
  BY <1>3, <1>4, <1>5, <1>7, <1>8, <1>10, <1>11, <1>12, OwnStep

\* Who met whom after a step.
LEMMA CrossedStep ==
    ASSUME IInv, NEW r \in Request, RequestStep(r), NEW x \in Request, NEW q \in Request
    PROVE  Crossed(x, q)'
<1>0. /\ Alone(r) /\ process'.starts = process.starts /\ TypeOK /\ Local(r)
      /\ Filled(x) /\ SameAdapters(x) /\ Crossed(x, q) /\ MetInv
      /\ LocalInv /\ ContainerInv
  BY RequestLocal DEF IInv, CacheInv, LocalInv
<1>1. met \subseteq met' /\ (~At(r, "idle") => met' = met /\ InFlight(r))
  BY <1>0, MetStep, ProcessGrows
<1>2. CASE x # r /\ q # r
  <2>1. call'[x] = call[x] /\ call'[q] = call[q]
    BY <1>0, <1>2 DEF Alone
  <2> QED BY <1>0, <1>1, <2>1
       DEF Crossed, NextPort, InThis, Assessed, Answered, InFlight, At
<1>3. CASE x # r /\ q = r
  <2> SUFFICES ASSUME At(r, "construct")',
                      InThis(x)' \/ (InFlight(x)' /\ call'[x].adapter[NextPort(r)'] # None)
               PROVE  FALSE
    BY <1>3 DEF Crossed
  <2>1. call'[x] = call[x]
    BY <1>0, <1>3 DEF Alone
  <2>2. WirePort(r) /\ Kept(r) = None /\ Moved(r, "construct")
    BY OwnStep DEF Arrived, Gone, Early, Took, AfterWiring, Scored, Moved, AnsweredWith, At
  <2>3. PICK n \in Ports : n = NextPort(r) /\ Now(n) = None
    BY <1>0, <2>2, AtPort DEF WirePort
  <2>4. NextPort(r)' = n
    BY <2>2, <2>3 DEF Moved, NextPort
  <2>5. ~InThis(x)
    BY <1>0, <2>3 DEF Filled, Full
  <2>6. ~(InFlight(x) /\ call[x].adapter[n] # None)
    BY <1>0, <2>3 DEF SameAdapters
  <2> QED BY <1>0, <2>1, <2>4, <2>5, <2>6 DEF InThis, Assessed, Answered, InFlight
<1>4. CASE x = r /\ q # r
  <2> SUFFICES ASSUME At(q, "construct")',
                      InThis(r)' \/ (InFlight(r)' /\ call'[r].adapter[NextPort(q)'] # None)
               PROVE  {r, q} \in met'
    BY <1>4 DEF Crossed
  <2>1. call'[q] = call[q] /\ InFlight(q)
    BY <1>0, <1>4 DEF Alone, At, InFlight
  <2>2. CASE ~At(r, "idle")
    BY <1>0, <1>1, <1>4, <2>1, <2>2 DEF MetInv
  <2>3. CASE At(r, "idle")
    <3>1. ~InThis(r)'
      BY <2>3, OwnStep DEF Arrived, Gone, Early, WirePort, ConstructAdapter, SeekPack, LoadPack,
         AnswerAssess, At, InThis, Assessed, Answered
    <3>2. NextPort(q)' \in Ports
      <4>1. NextPort(q)' = NextPort(q)
        BY <2>1 DEF NextPort
      <4>2. At(q, "construct")
        BY <2>1 DEF At
      <4> QED BY <1>0, <4>1, <4>2, AtPort
    <3>3. call[r].adapter = [p \in Ports |-> None]
      BY <1>0, <2>3, FreshType DEF Local, Placed
    <3>4. InFlight(r)' => call'[r].adapter = call[r].adapter
      BY <2>3, OwnStep DEF Arrived, Gone, Early, WirePort, ConstructAdapter, SeekPack, LoadPack,
         AnswerAssess, At
    <3> QED BY <3>1, <3>2, <3>3, <3>4
  <2> QED BY <2>2, <2>3
<1>5. CASE x = r /\ q = r
  BY <1>5 DEF Crossed
<1> QED BY <1>2, <1>3, <1>4, <1>5

-----------------------------------------------------------------------------
(* The invariant.                                                          *)

LEMMA RestartInv ==
    ASSUME IInv, Restart PROVE ContainerInv' /\ MetInv' /\ CacheInv'
<1>1. ASSUME NEW r \in Request
      PROVE  /\ ~InFlight(r)' /\ (At(r, "idle")' <=> At(r, "idle"))
             /\ call'[r].born # process'.starts
             /\ call'[r].pc \notin Handler
             /\ Assessed(r)' => Assessed(r)
  <2>1. /\ call'[r] = IF InFlight(r) THEN Over(r, "dead", 0) ELSE call[r]
        /\ process'.starts = process.starts + 1 /\ process.starts \in Int
    BY <1>1, NamesAssumption DEF Restart, IInv, TypeOK
  <2>2. /\ Ended(Over(r, "dead", 0), r, "dead", 0)
        /\ call[r].born \in Int /\ call[r].born <= process.starts
    BY DeadType, CallType DEF IInv, LocalInv, Local, Born
  <2>3. CASE InFlight(r)
    BY <2>1, <2>2, <2>3 DEF Ended, InFlight, At, Handler, Assessed, Answered
  <2>4. CASE ~InFlight(r)
    BY <2>1, <2>2, <2>4 DEF InFlight, At, Handler, Assessed, Answered
  <2> QED BY <2>3, <2>4
<1>2. ContainerInv'
  BY <1>1 DEF ContainerInv, Contained
<1>3. MetInv'
  BY <1>1 DEF Restart, IInv, TypeOK, MetInv
<1>4. ASSUME NEW r \in Request
      PROVE  /\ Filled(r)' /\ SameAdapters(r)' /\ SamePack(r)' /\ Readable(r)'
             /\ \A q \in Request : Crossed(q, r)'
  <2>1. ~InThis(r)' /\ call'[r].pc \notin {"construct", "load", "answer"}
    BY <1>1 DEF InThis, Handler
  <2>2. Durable /\ Assessed(r)' => \A p \in Ports : <<p, Disk, r>> \in data'
    BY <1>1 DEF IInv, CacheInv, Readable, Restart
  <2> QED BY <1>1, <2>1, <2>2 DEF Filled, SameAdapters, SamePack, Readable, Crossed, At
<1> QED BY <1>2, <1>3, <1>4 DEF CacheInv

LEMMA InvariantStep == ASSUME IInv, [Next]_vars PROVE IInv'
<1>1. TypeOK' /\ LocalInv'
  BY TypeStep DEF IInv
<1>2. ASSUME NEW r \in Request, RequestStep(r) PROVE ContainerInv' /\ MetInv' /\ CacheInv'
  <2>1. ContainerInv' /\ MetInv'
    BY <1>2, ContainerStep, MetStep DEF IInv
  <2>2. \A x \in Request : Filled(x)' /\ SameAdapters(x)' /\ SamePack(x)' /\ Readable(x)'
    BY <1>2, OthersCached, OwnCached
  <2>3. \A x, q \in Request : Crossed(x, q)'
    BY <1>2, CrossedStep
  <2> QED BY <2>1, <2>2, <2>3 DEF CacheInv
<1>3. ASSUME (EditSettings \/ EditPack) \/ UNCHANGED vars
      PROVE  ContainerInv' /\ MetInv' /\ CacheInv'
  <2>1. UNCHANGED <<process, data, call, met>>
    BY <1>3 DEF EditSettings, EditPack, vars
  <2>2. ContainerInv' /\ MetInv'
    BY <2>1 DEF IInv, ContainerInv, Contained, MetInv, Answered, InFlight, At
  <2>3. ASSUME NEW r \in Request
        PROVE  Filled(r)' /\ SameAdapters(r)' /\ SamePack(r)' /\ Readable(r)'
    <3>1. Filled(r) /\ SameAdapters(r) /\ SamePack(r) /\ Readable(r)
      BY DEF IInv, CacheInv
    <3>2. /\ Raced(r)' <=> Raced(r)
          /\ InThis(r)' <=> InThis(r)
          /\ Assessed(r)' <=> Assessed(r)
          /\ InFlight(r)' <=> InFlight(r)
          /\ \A p \in Ports : Now(p)' = Now(p)
      BY <2>1 DEF Raced, InThis, Assessed, Answered, InFlight, Now
    <3>3. Filled(r)'
      BY <2>1, <3>1, <3>2 DEF Filled, Full
    <3>4. SameAdapters(r)' /\ Readable(r)'
      BY <2>1, <3>1, <3>2 DEF SameAdapters, Readable
    <3>5. SamePack(r)'
      BY <2>1, <3>1, <3>2 DEF SamePack, At
    <3> QED BY <3>3, <3>4, <3>5
  <2>4. ASSUME NEW r \in Request, NEW q \in Request PROVE Crossed(r, q)'
    <3>1. Crossed(r, q)
      BY DEF IInv, CacheInv
    <3>2. call' = call /\ met' = met /\ process' = process
      BY <2>1
    <3>3. /\ InThis(r)' <=> InThis(r)
          /\ InFlight(r)' <=> InFlight(r)
          /\ At(q, "construct")' <=> At(q, "construct")
          /\ NextPort(q)' = NextPort(q)
      BY <3>2 DEF InThis, Assessed, Answered, InFlight, At, NextPort
    <3> QED BY <3>1, <3>2, <3>3 DEF Crossed
  <2> QED BY <2>2, <2>3, <2>4 DEF CacheInv
<1> QED BY <1>1, <1>2, <1>3, RestartInv DEF IInv, Next, RequestStep

LEMMA InitInvariant == Init => IInv
<1> SUFFICES ASSUME Init PROVE IInv
  OBVIOUS
<1>1. TypeOK /\ LocalInv
  BY InitLocal
<1>2. \A r \in Request : call[r].pc = "idle" /\ call[r].kind = "none"
  BY FreshType DEF Init
<1>3. met = {}
  BY DEF Init
<1> QED BY <1>1, <1>2, <1>3 DEF IInv, ContainerInv, Contained, MetInv, CacheInv, Filled,
      SameAdapters, SamePack, Readable, Crossed, InThis, Assessed, Answered, InFlight, At

LEMMA Invariance == Spec => []IInv
<1>1. Init => IInv
  BY InitInvariant
<1>2. IInv /\ [Next]_vars => IInv'
  BY InvariantStep
<1> QED BY <1>1, <1>2, PTL DEF Spec

\* Every state has the module's types, and no policy is in use that the
\* loader would have refused (outcome_pack.py:74-104).
THEOREM TypeCorrect == Spec => []TypeOK
<1>1. IInv => TypeOK
  BY DEF IInv
<1> QED BY <1>1, Invariance, PTL

\* However many first requests build a container at once, every handler that
\* assesses or reads works on the one lru_cache kept (api/app.py:107, 302).
THEOREM HandlersShareOneContainer == Spec => []OneContainer
<1>1. IInv => OneContainer
  BY DEF IInv, ContainerInv, Contained, OneContainer, Handling, InProcess, Handler
<1> QED BY <1>1, Invariance, PTL

\* A caller whose sound assertions name hosted domains is answered about one
\* of those tenants and no other, whatever the body names, and so is every read
\* (adapters/gcp/identity.py:169, api/app.py:303); an assessment for a caller
\* without a hosted domain is outside what this says.
THEOREM HostedDomainIsAlwaysServed == Spec => []HostedDomainIsServed
<1>1. IInv => HostedDomainIsServed
  BY DEF IInv, LocalInv, Local, Served, HostedDomainIsServed
<1> QED BY <1>1, Invariance, PTL

\* Assessments of one process that did not race its first ones are scored
\* under one pack (outcome_pack.py:113).
THEOREM PackStaysSettled == Spec => []PackIsSettled
<1>1. ASSUME IInv PROVE PackIsSettled
  <2> SUFFICES ASSUME NEW r \in Request, Assessed(r), InProcess(r), ~Raced(r)
               PROVE  call[r].policy = process.policy
    BY DEF PackIsSettled
  <2> QED BY <1>1 DEF IInv, CacheInv, SamePack, InThis, InProcess
<1> QED BY <1>1, Invariance, PTL

\* What an answered assessment wrote is where later requests look
\* (config.py:686-700, api/app.py:302-309).
THEOREM AnsweredStaysReadable == Spec => []AnsweredIsReadable
<1>1. ASSUME IInv PROVE AnsweredIsReadable
  <2> SUFFICES ASSUME NEW r \in Request, NEW p \in Ports, Assessed(r),
                      Durable \/ (InProcess(r) /\ ~Raced(r))
               PROVE  <<p, Current(p), r>> \in data
    BY DEF AnsweredIsReadable
  <2>1. Filled(r) /\ Readable(r)
    BY <1>1 DEF IInv, CacheInv
  <2>2. CASE Durable
    BY <2>1, <2>2 DEF Readable, Current
  <2>3. CASE ~Durable
    BY <2>1, <2>3 DEF Readable, Filled, Full, Current, Now, InThis, InProcess
  <2> QED BY <2>2, <2>3
<1> QED BY <1>1, Invariance, PTL

=============================================================================
