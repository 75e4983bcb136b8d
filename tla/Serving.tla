------------------------------- MODULE Serving -------------------------------
(***************************************************************************)
(* The API process (api/app.py) and what its requests share: the container *)
(* behind lru_cache, each container's adapters behind cached_property, the *)
(* pack behind _cached_pack, and the identity every answer rests on.       *)
(*                                                                         *)
(* The handlers are plain functions, so the server runs them in a pool of  *)
(* threads: two requests that miss one cache each build.  None of the      *)
(* three caches holds a lock while it fills.  lru_cache keeps the first    *)
(* value that is ready and hands a later builder its own; cached_property  *)
(* writes whatever it built last.                                          *)
(*                                                                         *)
(* Data ports are bound to the SQLite adapters and the identity port to    *)
(* the verifying one, the rebinding the settings file's adapters: block    *)
(* offers.  What one assessment does, port by port, is AssessmentService;  *)
(* here it is one step.  The agent tools and the command line run in       *)
(* processes of their own and build a container per call.                  *)
(***************************************************************************)
EXTENDS Integers, Sequences, Identity, OutcomePack

CONSTANTS
    Request,      \* the requests and tool calls of a run
    Wiring,       \* the ports whose adapters hold data, in build_service's order
    Deployments,  \* what the deployment configures for identity
    HeaderSets,   \* the headers a request may come with
    Bodies,       \* the tenant a request body, or a tool call, may name
    PackFiles,    \* what the pack file may hold
    Durable,      \* the stores are files; otherwise each adapter has ":memory:"
    Threads,      \* requests the pool runs at once
    MaxRestarts, MaxEdits, \* bounds
    None,         \* no request, no container, no adapter, no policy
    Disk          \* where durable data is

Ports == {Wiring[i] : i \in 1 .. Len(Wiring)}

ASSUME WiringAssumption ==
    /\ Wiring \in Seq(STRING) /\ Len(Wiring) > 0
    /\ \A i, j \in 1 .. Len(Wiring) : Wiring[i] = Wiring[j] => i = j
ASSUME InputsAssumption ==
    /\ Deployments \subseteq DeploymentKinds
    /\ HeaderSets \subseteq Headers /\ Bodies \subseteq Tenants \cup {NoTenant}
    /\ \A file \in PackFiles : IsPackFile(file)
ASSUME NamesAssumption ==
    /\ Durable \in BOOLEAN
    /\ Threads \in Nat /\ MaxRestarts \in Nat /\ MaxEdits \in Nat
    /\ None \notin Request /\ Disk \notin Request
    /\ NoTenant \notin Tenants
    /\ Absent \notin Assertions

VARIABLES
    deployment,  \* audience and verifier, fixed when the service is deployed
    disk,        \* the settings file, the pack file, and how often they changed
    process,     \* the API process: its caches and how often it has started
    data,        \* <<port, where, request>>: who wrote what through which adapter
    call,        \* what each request is doing and what it holds
    met          \* pairs of requests that were in flight at once

vars == <<deployment, disk, process, data, call, met>>

-----------------------------------------------------------------------------
Policies == {Policy(file) : file \in {f \in PackFiles : Loads(f)}}
ASSUME PoliciesAssumption == None \notin Policies

\* A container, and an adapter of one port of it, is named by the request
\* that built it.
Empty == [r \in Request |-> [p \in Ports |-> None]]

Fresh ==
    [pc |-> "idle", kind |-> "none", container |-> None,
     adapter |-> [p \in Ports |-> None], wired |-> 0, policy |-> None,
     identified |-> FALSE, tenant |-> NoTenant, vouched |-> {},
     record |-> NoTenant, status |-> 0, born |-> 0, warm |-> FALSE]

Init ==
    /\ deployment \in Deployments
    /\ \E file \in PackFiles : disk = [settings |-> "sound", pack |-> file, edits |-> 0]
    /\ process = [starts |-> 0, container |-> None, adapters |-> Empty, policy |-> None]
    /\ data = {}
    /\ call = [r \in Request |-> Fresh]
    /\ met = {}

-----------------------------------------------------------------------------
InFlight(r) == call[r].pc \notin {"idle", "done", "dead"}
Answered(r) == call[r].pc = "done" /\ call[r].status = 200
Assessed(r) == Answered(r) /\ call[r].kind = "assess"

\* The process has answered an assessment since it started.
Settled == \E q \in Request : Assessed(q) /\ call[q].born = process.starts

At(r, pc) == call[r].pc = pc
Moves(r, pc) == call' = [call EXCEPT ![r].pc = pc]

\* What is left of a request when it is over: its handler's locals are gone.
Over(r, pc, status) ==
    [Fresh EXCEPT !.pc = pc, !.kind = call[r].kind, !.status = status,
                  !.born = call[r].born, !.warm = call[r].warm]
Ends(r, status) == call' = [call EXCEPT ![r] = Over(r, "done", status)]

\* An answer about a tenant's record, with what the properties ask about it.
AnswersWith(r, tenant) ==
    call' = [call EXCEPT ![r] = [Over(r, "done", 200) EXCEPT
                !.container = call[r].container, !.policy = call[r].policy,
                !.vouched = call[r].vouched, !.record = tenant]]

\* An assessment, a read, or a route that needs nothing but the container
\* (healthz, the agent card, the persona list).
Arrive(r, kind) ==
    /\ At(r, "idle")
    /\ Cardinality({q \in Request : InFlight(q)}) < Threads
    /\ call' = [call EXCEPT ![r].pc = "seek", ![r].kind = kind,
                            ![r].born = process.starts, ![r].warm = Settled]
    /\ met' = met \cup {{r, q} : q \in {x \in Request : InFlight(x)}}
    /\ UNCHANGED <<deployment, disk, process, data>>

\* What a request does with a container: _identity resolves the caller first,
\* and the handler asks for the container again.
AfterContainer(r) ==
    IF call[r].kind = "public" THEN "answer"
    ELSE IF call[r].identified THEN "wire"
    ELSE "identify"

Holds(r, c) == call' = [call EXCEPT ![r].pc = AfterContainer(r), ![r].container = c]

\* _container(): lru_cache finds it, or goes off to build one.
SeekContainer(r) ==
    /\ At(r, "seek")
    /\ \/ process.container # None /\ Holds(r, process.container)
       \/ process.container = None /\ Moves(r, "build")
    /\ UNCHANGED <<deployment, disk, process, data, met>>

\* Mutant: a later builder's container takes the place of the one kept.
LastBuilt(kept, r) == r

\* What lru_cache keeps once r's build returns: the first that was ready.
FirstBuilt(kept, r) == IF kept = None THEN r ELSE kept

\* build_container(Settings.load()).  A load that raises is not cached; the
\* request is answered 500.  A builder holds its own container whichever is kept.
BuildContainer(r) ==
    /\ At(r, "build")
    /\ \/ /\ disk.settings = "broken"
          /\ Ends(r, 500)
          /\ UNCHANGED process
       \/ /\ disk.settings = "sound"
          /\ Holds(r, r)
          /\ process' = [process EXCEPT !.container = FirstBuilt(@, r)]
    /\ UNCHANGED <<deployment, disk, data, met>>

\* get_principal: the verified principal, or a refusal with its status.
Identify(r, h) ==
    /\ At(r, "identify")
    /\ \/ /\ Resolution(deployment, h) # 200
          /\ Ends(r, Resolution(deployment, h))
       \/ /\ Resolution(deployment, h) = 200
          /\ call' = [call EXCEPT ![r].pc = "seek", ![r].identified = TRUE,
                                  ![r].tenant = PrincipalTenant(h),
                                  ![r].vouched = VouchedFor(h)]
    /\ UNCHANGED <<deployment, disk, process, data, met>>

\* build_service reads one cached_property after another.
NextPort(r) == Wiring[call[r].wired + 1]
Kept(r) == process.adapters[call[r].container][NextPort(r)]

AfterWiring(r) ==
    IF call[r].wired + 1 < Len(Wiring) THEN "wire"
    ELSE IF call[r].kind = "assess" THEN "pack" ELSE "answer"

Takes(r, a) == call' = [call EXCEPT ![r].pc = AfterWiring(r), ![r].wired = @ + 1,
                                    ![r].adapter[NextPort(r)] = a]

WirePort(r) ==
    /\ At(r, "wire")
    /\ \/ Kept(r) # None /\ Takes(r, Kept(r))
       \/ Kept(r) = None /\ Moves(r, "construct")
    /\ UNCHANGED <<deployment, disk, process, data, met>>

\* Mutant: the property hands out what it built and keeps nothing.
ConstructAdapterForgets(r) ==
    /\ At(r, "construct")
    /\ Takes(r, r)
    /\ UNCHANGED <<deployment, disk, process, data, met>>

\* cached_property's own write, over whatever another thread put there.
ConstructAdapter(r) ==
    /\ At(r, "construct")
    /\ Takes(r, r)
    /\ process' = [process EXCEPT !.adapters[call[r].container][NextPort(r)] = r]
    /\ UNCHANGED <<deployment, disk, data, met>>

Scores(r, y) == call' = [call EXCEPT ![r].pc = "answer", ![r].policy = y]

\* policy_for, evaluated before assess is called: _cached_pack finds it or
\* goes off to load it.
SeekPack(r) ==
    /\ At(r, "pack")
    /\ \/ process.policy # None /\ Scores(r, process.policy)
       \/ process.policy = None /\ Moves(r, "load")
    /\ UNCHANGED <<deployment, disk, process, data, met>>

\* Mutant: a file is scored under whether or not it passes the checks.
LoadPackUnchecked(r) ==
    /\ At(r, "load")
    /\ Scores(r, Policy(disk.pack))
    /\ process' = [process EXCEPT !.policy = IF @ = None THEN Policy(disk.pack) ELSE @]
    /\ UNCHANGED <<deployment, disk, data, met>>

\* Mutant: what was loaded is not kept.
LoadPackForgets(r) ==
    /\ At(r, "load")
    /\ \/ ~Loads(disk.pack) /\ Ends(r, 500)
       \/ Loads(disk.pack) /\ Scores(r, Policy(disk.pack))
    /\ UNCHANGED <<deployment, disk, process, data, met>>

\* load_pack on whatever the file holds by now.  OutcomePackError is cached
\* by nobody and answered 500, before anything is audited.
LoadPack(r) ==
    /\ At(r, "load")
    /\ \/ ~Loads(disk.pack) /\ Ends(r, 500) /\ UNCHANGED process
       \/ /\ Loads(disk.pack)
          /\ Scores(r, Policy(disk.pack))
          /\ process' = [process EXCEPT
                            !.policy = IF @ = None THEN Policy(disk.pack) ELSE @]
    /\ UNCHANGED <<deployment, disk, data, met>>

Home(r, p) == IF Durable THEN Disk ELSE call[r].adapter[p]

\* Mutant: the body's tenant is preferred to the principal's.
TenantOfTheBody(r, body) == IF body # NoTenant THEN body ELSE call[r].tenant

\* principal.tenant or request.tenant.
TenantOf(r, body) == IF call[r].tenant # NoTenant THEN call[r].tenant ELSE body

\* The assessment runs over that tenant, and its event and its record go
\* through the adapters this request holds.
AnswerAssess(r, body) ==
    /\ At(r, "answer") /\ call[r].kind = "assess"
    /\ data' = data \cup {<<p, Home(r, p), r>> : p \in Ports}
    /\ AnswersWith(r, TenantOf(r, body))
    /\ UNCHANGED <<deployment, disk, process, met>>

\* AssessmentService.read_assessment's comparison.
MayRead(r, owner) == call[r].tenant # NoTenant /\ owner = call[r].tenant

\* read_assessment: the record of q by its id, 404 when the store this
\* request holds has no such record and 403 when it is another tenant's.
AnswerRead(r, q) ==
    /\ At(r, "answer") /\ call[r].kind = "read"
    /\ LET found == <<"assessment_store", Home(r, "assessment_store"), q>> \in data
           owner == call[q].record
       IN  \/ ~found /\ Ends(r, 404)
           \/ found /\ ~MayRead(r, owner) /\ Ends(r, 403)
           \/ found /\ MayRead(r, owner) /\ AnswersWith(r, owner)
    /\ UNCHANGED <<deployment, disk, process, data, met>>

AnswerPublic(r) ==
    /\ At(r, "answer") /\ call[r].kind = "public"
    /\ Ends(r, 200)
    /\ UNCHANGED <<deployment, disk, process, data, met>>

\* run_assessment of the agent tools, and the assess command: a process, a
\* container and a pack of its own, and the tenant the caller names.
RunTool(r, tenant) ==
    /\ At(r, "idle")
    /\ disk.settings = "sound" /\ Loads(disk.pack)
    /\ call' = [call EXCEPT ![r] = [Fresh EXCEPT !.pc = "done", !.kind = "tool",
                                        !.status = 200, !.record = tenant]]
    /\ data' = data \cup {<<p, IF Durable THEN Disk ELSE r, r>> : p \in Ports}
    /\ UNCHANGED <<deployment, disk, process, met>>

-----------------------------------------------------------------------------
\* A new process starts with empty caches; requests in flight are lost, and
\* so is what adapters in memory held.
Restart ==
    /\ process.starts < MaxRestarts
    /\ process' = [starts |-> process.starts + 1, container |-> None,
                   adapters |-> Empty, policy |-> None]
    /\ data' = IF Durable THEN data ELSE {}
    /\ call' = [r \in Request |->
                    IF InFlight(r) THEN Over(r, "dead", 0) ELSE call[r]]
    /\ UNCHANGED <<deployment, disk, met>>

\* Somebody edits the settings file, or the pack, under the running process.
EditSettings ==
    /\ disk.edits < MaxEdits
    /\ \E s \in {"sound", "broken"} \ {disk.settings} :
        disk' = [disk EXCEPT !.settings = s, !.edits = @ + 1]
    /\ UNCHANGED <<deployment, process, data, call, met>>

EditPack ==
    /\ disk.edits < MaxEdits
    /\ \E file \in PackFiles \ {disk.pack} :
        disk' = [disk EXCEPT !.pack = file, !.edits = @ + 1]
    /\ UNCHANGED <<deployment, process, data, call, met>>

Next ==
    \/ \E r \in Request :
        \/ \E kind \in {"assess", "read", "public"} : Arrive(r, kind)
        \/ SeekContainer(r) \/ BuildContainer(r)
        \/ \E h \in HeaderSets : Identify(r, h)
        \/ WirePort(r) \/ ConstructAdapter(r)
        \/ SeekPack(r) \/ LoadPack(r)
        \/ \E body \in Bodies : AnswerAssess(r, body) \/ RunTool(r, body)
        \/ \E q \in Request : AnswerRead(r, q)
        \/ AnswerPublic(r)
    \/ Restart \/ EditSettings \/ EditPack

Spec == Init /\ [][Next]_vars

-----------------------------------------------------------------------------
Statuses == {0, 200, 401, 403, 404, 500, 503}
PCs == {"idle", "seek", "build", "identify", "wire", "construct", "pack", "load",
        "answer", "done", "dead"}
Calls ==
    [pc : PCs,
     kind : {"none", "assess", "read", "public", "tool"},
     container : Request \cup {None},
     adapter : [Ports -> Request \cup {None}],
     wired : 0 .. Len(Wiring),
     policy : Policies \cup {None},
     identified : BOOLEAN,
     tenant : Tenants \cup {NoTenant},
     vouched : SUBSET (Tenants \cup {NoTenant}),
     record : Tenants \cup {NoTenant},
     status : Statuses,
     born : 0 .. MaxRestarts,
     warm : BOOLEAN]

\* The shape of the state; a policy in use is one the loader accepted.
TypeOK ==
    /\ deployment \in Deployments
    /\ disk \in [settings : {"sound", "broken"}, pack : PackFiles, edits : 0 .. MaxEdits]
    /\ process \in [starts : 0 .. MaxRestarts,
                    container : Request \cup {None},
                    adapters : [Request -> [Ports -> Request \cup {None}]],
                    policy : Policies \cup {None}]
    /\ data \subseteq Ports \X (Request \cup {Disk}) \X Request
    /\ call \in [Request -> Calls]
    /\ met \subseteq SUBSET Request

InProcess(r) == call[r].born = process.starts /\ call[r].kind \in {"assess", "read"}

\* The handler of r has its container: the second one it asked for.
Handling(r) ==
    /\ InProcess(r)
    /\ call[r].pc \in {"wire", "construct", "pack", "load", "answer"} \/ Answered(r)

\* Whatever the first requests of a process built at the same time, every
\* handler that assesses or reads works on the one container lru_cache kept,
\* because it asks again after the identity dependency has been answered
\* (api/app.py:302 and 324).
OneContainer ==
    \A r \in Request : Handling(r) => call[r].container = process.container

\* Two requests in flight at once, one of which came before the process had
\* answered an assessment: either may fill a cache the other has filled.
Raced(r) ==
    \E q \in Request \ {r} : {r, q} \in met /\ ~(call[r].warm /\ call[q].warm)

\* The adapter of p that later requests of this process are given.
Current(p) ==
    IF Durable THEN Disk
    ELSE IF process.container = None THEN None
    ELSE process.adapters[process.container][p]

\* What an answered assessment wrote - its audit event and its record - is
\* where later requests look: always over files, and over ":memory:" until
\* the process restarts, unless the request was in flight with one of the
\* first ones (cached_property has no lock, config.py:686: a first request
\* that missed may still throw away an adapter others have written to).
AnsweredIsReadable ==
    \A r \in Request, p \in Ports :
        Assessed(r) /\ (Durable \/ (InProcess(r) /\ ~Raced(r)))
            => <<p, Current(p), r>> \in data

\* Between two starts the assessments of a process are scored under one pack,
\* however often the file is edited meanwhile, unless one of them was in
\* flight with one of the first (outcome_pack.py:113).
PackIsSettled ==
    \A r, q \in Request :
        /\ Assessed(r) /\ InProcess(r) /\ ~Raced(r)
        /\ Assessed(q) /\ InProcess(q) /\ ~Raced(q)
        => call[r].policy = call[q].policy

\* A caller whose sound assertions name hosted domains is answered about one
\* of those tenants, whatever the request body names, and a read is answered
\* about no other in any case (api/app.py:303, read_assessment).
HostedDomainIsServed ==
    \A r \in Request :
        /\ Answered(r) /\ call[r].kind \in {"assess", "read"}
        /\ call[r].kind = "read" \/ NoTenant \notin call[r].vouched
        => call[r].record \in call[r].vouched

-----------------------------------------------------------------------------
\* assess's docstring (api/app.py:296-297): the tenant comes from the verified
\* principal, "never the request body", so that "a caller cannot assess another
\* tenant": whatever is assessed was named by an assertion that was checked.
AssessedIsThePrincipals ==
    \A r \in Request : Assessed(r) => call[r].record \in call[r].vouched

\* outcome_pack.py:18 says that a threshold that is not a number raises
\* OutcomePackError, so no assessment is scored under one.
\* The code does not keep this one (README, section 6).
ScoredThresholdsAreNumbers ==
    \A r \in Request :
        Assessed(r) => \A t \in call[r].policy.thresholds : t.threshold # "nan"
=============================================================================
