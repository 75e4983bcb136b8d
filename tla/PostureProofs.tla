----------------------------- MODULE PostureProofs -----------------------------
(***************************************************************************)
(* What holds of Posture for any set of environments, settings files and   *)
(* entry points, and any number of edits of the file.                      *)
(*                                                                         *)
(* Each property speaks of the last answer; the inductive invariant says   *)
(* what the boot has established by each phase, where the cached container *)
(* came from, and that a container stands behind every answer that needed  *)
(* one.                                                                    *)
(***************************************************************************)
EXTENDS Posture, TLAPS

-----------------------------------------------------------------------------
(* Types.                                                                  *)

LEMMA ChoiceType ==
    ASSUME NEW e \in Environment, Resolves(e)
    PROVE  /\ Choice(e).profile \in KnownProfiles
           /\ Choice(e).explicit \in BOOLEAN
           /\ Choice(e).explicit <=> e.profile # "unset"
           /\ ~Choice(e).explicit => Choice(e).profile = "local"
BY DEF Resolves, Choice, KnownProfiles

LEMMA LoadedType ==
    ASSUME NEW e \in Environment, NEW f \in SettingsFile, Loads(e, f)
    PROVE  /\ Loaded(e, f) \in Settings
           /\ Loaded(e, f).profile = Choice(e).profile
           /\ Loaded(e, f).explicit = Choice(e).explicit
           /\ Loaded(e, f).file = f
BY ChoiceType DEF Loads, Loaded, Settings

LEMMA ResolutionsType ==
    ASSUME NEW s \in Settings, NEW credential, NEW o \in Resolutions(s, credential)
    PROVE  /\ o = [status |-> o.status, principal |-> o.principal]
           /\ o.status \in Statuses /\ o.principal \in Principals
           /\ o.principal = "asserted" =>
                 \/ s.file.identity = "silent"
                 \/ s.file.identity = "personas" /\ PersonasConstruct(s)
           /\ o.status = "required" =>
                 \/ s.file.identity = "silent"
                 \/ s.file.identity = "iap" /\ s.file.iap_audience
           /\ o.status = "crashed" => s.file.identity = "missing"
<1>1. s.file.identity \in IdentityBinding
  BY DEF Settings, SettingsFile
<1>2. CASE s.file.identity = "missing"
  BY <1>2 DEF Resolutions, Statuses, Principals
<1>3. CASE s.file.identity = "placeholder"
  BY <1>3 DEF Resolutions, Unavailable, Statuses, Principals
<1>4. CASE s.file.identity = "personas"
  BY <1>4 DEF Resolutions, Unavailable, Statuses, Principals
<1>5. CASE s.file.identity = "iap"
  BY <1>5 DEF Resolutions, Unavailable, Statuses, Principals
<1>6. CASE s.file.identity = "silent"
  BY <1>6 DEF Resolutions, Statuses, Principals
<1> QED BY <1>1, <1>2, <1>3, <1>4, <1>5, <1>6 DEF IdentityBinding

\* What a request gets, by the container it found or built.
Backed(o, route) ==
    /\ o.status \in Statuses /\ o.principal \in Principals
    /\ o.principal # "nobody" => ContainerUp
    /\ route = "ping" => o.status # "crashed"
    /\ route = "ping" /\ o.status = "ok" => Choice(env).explicit
    /\ o.principal = "asserted" =>
          \/ ActiveSettings.file.identity = "silent"
          \/ ActiveSettings.file.identity = "personas" /\ PersonasConstruct(ActiveSettings)
    /\ route = "assess" /\ o.status = "required" =>
          /\ ContainerUp
          /\ \/ ActiveSettings.file.identity = "silent"
             \/ ActiveSettings.file.identity = "iap" /\ ActiveSettings.file.iap_audience
    /\ ContainerUp /\ o.status = "crashed" =>
          /\ route # "healthz"
          /\ route = "assess" =>
                CannotAssess(ActiveSettings) \/ ActiveSettings.file.identity = "missing"

LEMMA OutcomesBacked ==
    ASSUME ContainerUp => ActiveSettings \in Settings,
           NEW route \in Routes, NEW credential, NEW o \in Outcomes(route, credential)
    PROVE  Backed(o, route)
<1> USE DEF Statuses, Principals
<1>1. CASE route = "ping"
  BY <1>1 DEF Outcomes, PingOutcomes, Backed
<1>2. CASE route # "ping" /\ ~ContainerUp
  <2>1. o = [status |-> "crashed", principal |-> "nobody"]
    BY <1>2 DEF Outcomes
  <2> QED BY <1>2, <2>1 DEF Backed
<1>3. CASE route = "assess" /\ ContainerUp
  <2>1. PICK r \in Resolutions(ActiveSettings, credential) :
           o = IF r.status = "ok" /\ CannotAssess(ActiveSettings)
               THEN [r EXCEPT !.status = "crashed"] ELSE r
    BY <1>3 DEF Outcomes, AssessOutcomes
  <2>2. ActiveSettings \in Settings
    BY <1>3
  <2> DEFINE s == ActiveSettings
  <2> HIDE DEF s
  <2>3. /\ r = [status |-> r.status, principal |-> r.principal]
        /\ r.status \in Statuses /\ r.principal \in Principals
        /\ r.principal = "asserted" =>
              \/ ActiveSettings.file.identity = "silent"
              \/ ActiveSettings.file.identity = "personas" /\ PersonasConstruct(ActiveSettings)
        /\ r.status = "required" =>
              \/ ActiveSettings.file.identity = "silent"
              \/ ActiveSettings.file.identity = "iap" /\ ActiveSettings.file.iap_audience
        /\ r.status = "crashed" => ActiveSettings.file.identity = "missing"
    BY <2>1, <2>2, ResolutionsType
  <2>4. o.principal = r.principal
    BY <2>1, <2>3
  <2>5. \/ o.status = r.status
        \/ o.status = "crashed" /\ CannotAssess(ActiveSettings)
    BY <2>1, <2>3
  <2> QED BY <1>3, <2>3, <2>4, <2>5 DEF Backed
<1>4. CASE route = "personas" /\ ContainerUp
  <2>1. o \in PersonasOutcomes(ActiveSettings)
    BY <1>4 DEF Outcomes
  <2>2. o.status \in {"crashed", "unavailable", "ok"} /\ o.principal = "nobody"
    BY <2>1 DEF PersonasOutcomes, Unavailable
  <2> QED BY <1>4, <2>2 DEF Backed
<1>5. CASE route = "healthz" /\ ContainerUp
  <2>1. o = [status |-> "ok", principal |-> "nobody"]
    BY <1>5 DEF Outcomes
  <2> QED BY <1>5, <2>1 DEF Backed
<1> QED BY <1>1, <1>2, <1>3, <1>4, <1>5 DEF Routes

-----------------------------------------------------------------------------
(* The inductive invariant.                                                *)

\* What the boot has established by each phase.
BootInv ==
    /\ phase = "preflight" => entry = "image"
    /\ phase = "main" => entry = "module"
    /\ phase \in {"main", "serving"} =>
          /\ Resolves(env)
          /\ authenticated => Choice(env).explicit /\ EndUserAuthKind(env, seen) = "verified"
    /\ phase # "serving" => container = NoSettings /\ answer = NoAnswer

\* The container was loaded from some file, and its warning is out.
ContainerInv ==
    container # NoSettings =>
        /\ \E f \in SettingsFiles : Loads(env, f) /\ container = Loaded(env, f)
        /\ ControlOff => logged

\* As long as nobody has edited the file, every reading of it is the same.
UneditedInv ==
    edits = 0 =>
        /\ seen = file
        /\ container # NoSettings => container.file = file
        /\ \/ entry = "image" /\ phase = "import"
           \/ entry # "bare" /\ phase = "serving"
           => Loads(env, file) /\ Ready(env, file)

\* What no boot check resolves is at fault.
Unresolved(s) ==
    \/ "missing" \in {s.file.identity, s.file.ports}
    \/ ~s.file.pack

\* What stands behind the last answer.
AnswerInv ==
    /\ answer.route = "ping" /\ answer.status = "ok" => Choice(env).explicit
    /\ answer.principal = "asserted" =>
          /\ container # NoSettings
          /\ answer.peer = "lan" => authenticated \/ env.insecure_demo
          /\ \/ container.file.identity = "silent"
             \/ container.file.identity = "personas" /\ PersonasConstruct(container)
    /\ answer.route = "assess" /\ answer.status = "required" =>
          /\ container # NoSettings
          /\ \/ container.file.identity = "silent"
             \/ container.file.identity = "iap" /\ container.file.iap_audience
    /\ entry # "bare" /\ edits = 0 /\ answer.status = "crashed" =>
          /\ answer.route # "healthz"
          /\ Choice(env).profile = "gcp" /\ answer.route = "assess" =>
                container # NoSettings /\ Unresolved(container)

IInv == TypeOK /\ BootInv /\ ContainerInv /\ UneditedInv /\ AnswerInv

LEMMA InitInv == Init => IInv
<1> SUFFICES ASSUME Init PROVE IInv
  OBVIOUS
<1> USE DEF Init
<1>1. TypeOK
  <2>1. 0 \in 0..MaxEdits
    BY MaxEditsAssumption
  <2>2. NoAnswer \in Answer
    BY DEF NoAnswer, Answer, Routes, Peers, Statuses, Principals
  <2> QED BY <2>1, <2>2 DEF TypeOK, Phases
<1>2. BootInv /\ ContainerInv /\ UneditedInv
  BY EntriesAssumption DEF BootInv, ContainerInv, UneditedInv
<1>3. AnswerInv
  BY DEF AnswerInv, NoAnswer
<1> QED BY <1>1, <1>2, <1>3 DEF IInv

-----------------------------------------------------------------------------
(* The boot.                                                               *)

LEMMA EditStep == ASSUME IInv, EditFile PROVE IInv'
<1> USE DEF IInv, EditFile, bootVars
<1>1. edits' # 0 /\ TypeOK'
  BY MaxEditsAssumption DEF TypeOK
<1>2. BootInv' /\ ContainerInv' /\ UneditedInv'
  BY <1>1 DEF BootInv, ContainerInv, ControlOff, UneditedInv
<1>3. AnswerInv'
  BY <1>1 DEF AnswerInv
<1> QED BY <1>1, <1>2, <1>3

LEMMA BootStep ==
    ASSUME IInv, Preflight \/ PreflightRefuses \/ Import \/ ImportRefuses \/ Main \/ MainRefuses
    PROVE  IInv'
<1> USE DEF IInv
<1>1. /\ UNCHANGED <<env, entry, file, container, logged, answer, edits>>
      /\ container = NoSettings /\ answer = NoAnswer
      /\ phase' \in Phases
  BY DEF Preflight, PreflightRefuses, Import, ImportRefuses, Main, MainRefuses, Stop,
     bootVars, BootInv, Phases
<1>2. seen' \in SettingsFiles /\ authenticated' \in BOOLEAN
  BY DEF Preflight, PreflightRefuses, Import, ImportRefuses, Main, MainRefuses, Stop,
     bootVars, TypeOK
<1>3. host' \in {"none", "loopback", "all"}
  <2>1. CASE Main
    <3>1. env.api_host \in HostSetting
      BY EnvironmentsAssumption DEF TypeOK, Environment
    <3> QED BY <2>1, <3>1 DEF Main, HostFor, HostSetting
  <2>2. CASE ~Main
    BY <2>2 DEF Preflight, PreflightRefuses, Import, ImportRefuses, MainRefuses, Stop,
       bootVars, TypeOK
  <2> QED BY <2>1, <2>2
<1>4. TypeOK'
  BY <1>1, <1>2, <1>3 DEF TypeOK
<1>5. ContainerInv' /\ AnswerInv'
  BY <1>1 DEF ContainerInv, AnswerInv, NoAnswer
<1>6. CASE Preflight
  BY <1>1, <1>4, <1>5, <1>6 DEF Preflight, BootInv, UneditedInv, bootVars
<1>7. CASE PreflightRefuses \/ ImportRefuses \/ MainRefuses
  BY <1>1, <1>4, <1>5, <1>7
     DEF PreflightRefuses, ImportRefuses, MainRefuses, Stop, BootInv, UneditedInv, bootVars
<1>8. CASE Import
  <2>1. UneditedInv'
    BY <1>1, <1>8, EntriesAssumption DEF Import, UneditedInv, TypeOK
  <2>2. BootInv'
    BY <1>1, <1>8 DEF Import, BootInv
  <2> QED BY <1>4, <1>5, <2>1, <2>2
<1>9. CASE Main
  BY <1>1, <1>4, <1>5, <1>9 DEF Main, MainRefused, BootInv, UneditedInv
<1> QED BY <1>6, <1>7, <1>8, <1>9

-----------------------------------------------------------------------------
(* Requests.                                                               *)

\* The container a request finds or would build.
LEMMA ActiveInv ==
    ASSUME IInv, ContainerUp
    PROVE  /\ \E f \in SettingsFiles : Loads(env, f) /\ ActiveSettings = Loaded(env, f)
           /\ edits = 0 => ActiveSettings.file = file
           /\ ActiveSettings \in Settings
           /\ ActiveSettings.profile = Choice(env).profile
           /\ ActiveSettings.explicit = Choice(env).explicit
           /\ ActiveSettings.file \in SettingsFiles
           /\ ActiveSettings # NoSettings
<1> USE DEF IInv
<1>1. PICK f \in SettingsFiles : Loads(env, f) /\ ActiveSettings = Loaded(env, f)
  BY DEF ContainerUp, ActiveSettings, ContainerInv, TypeOK
<1>2. env \in Environment /\ f \in SettingsFile
  BY EnvironmentsAssumption, SettingsFilesAssumption DEF TypeOK
<1>3. edits = 0 => ActiveSettings.file = file
  BY DEF ActiveSettings, UneditedInv, Loaded
<1>4. ActiveSettings \in Settings
  BY <1>1, <1>2, LoadedType
<1>5. ActiveSettings # NoSettings
  BY <1>4, NoSettingsAssumption
<1> QED BY <1>1, <1>2, <1>3, <1>4, <1>5, LoadedType

LEMMA RefuseStep ==
    ASSUME IInv, NEW route \in Routes, NEW peer \in Peers, Refuse(route, peer)
    PROVE  IInv'
<1> USE DEF IInv, Refuse, bootVars
<1>1. TypeOK'
  BY DEF TypeOK, Answer, Statuses, Principals
<1>2. BootInv' /\ ContainerInv' /\ UneditedInv'
  BY DEF BootInv, ContainerInv, ControlOff, UneditedInv
<1>3. AnswerInv'
  BY DEF AnswerInv
<1> QED BY <1>1, <1>2, <1>3

LEMMA ServeStep ==
    ASSUME IInv, NEW route \in Routes, NEW peer \in Peers, NEW credential,
           Serve(route, peer, credential)
    PROVE  IInv'
<1> USE DEF IInv
<1>1. PICK o \in Outcomes(route, credential) :
         answer' = [route |-> route, peer |-> peer, status |-> o.status,
                    principal |-> o.principal]
  BY DEF Serve
<1>2. Backed(o, route)
  BY ActiveInv, OutcomesBacked
<1>3. /\ UNCHANGED <<env, entry, seen, authenticated, host, file, phase, edits>>
      /\ phase = "serving"
      /\ peer = "lan" => authenticated \/ env.insecure_demo
  BY DEF Serve, bootVars, Bounded
<1>4. \/ UNCHANGED <<container, logged>> /\ (route = "ping" \/ ~ContainerUp)
      \/ /\ ContainerUp /\ container' = ActiveSettings
         /\ logged' = (logged \/ ControlOff)
  BY DEF Serve, BuildContainer
<1>5. container # NoSettings => container' = container
  BY <1>4 DEF ActiveSettings
<1>6. TypeOK'
  <2>1. container' \in Settings \cup {NoSettings} /\ logged' \in BOOLEAN
    BY <1>4, ActiveInv DEF TypeOK
  <2>2. answer' \in Answer
    BY <1>1, <1>2 DEF Answer, Backed
  <2> QED BY <1>3, <2>1, <2>2 DEF TypeOK
<1>7. BootInv'
  BY <1>3 DEF BootInv
<1>8. ContainerInv'
  BY <1>3, <1>4, ActiveInv DEF ContainerInv, ControlOff
<1>9. UneditedInv'
  BY <1>3, <1>4, ActiveInv DEF UneditedInv
<1>10. AnswerInv'
  <2>1. route # "ping" /\ ContainerUp =>
           container' = ActiveSettings /\ container' # NoSettings
    BY <1>4, ActiveInv
  <2>2. route = "ping" => o.principal = "nobody"
    BY DEF Outcomes, PingOutcomes
  <2>3. ASSUME entry # "bare", edits = 0, o.status = "crashed"
        PROVE  /\ route # "healthz" /\ route # "ping" /\ ContainerUp
               /\ Choice(env).profile = "gcp" /\ route = "assess" =>
                     Unresolved(ActiveSettings)
    <3>1. Loads(env, file) /\ Ready(env, file) /\ ContainerUp
      BY <1>3, <2>3 DEF UneditedInv, ContainerUp
    <3>2. Choice(env).profile = "gcp" /\ CannotAssess(ActiveSettings)
             => Unresolved(ActiveSettings)
      BY <2>3, <3>1, ActiveInv DEF Ready, CannotAssess, Unresolved
    <3> QED BY <1>2, <2>3, <3>1, <3>2 DEF Backed, Unresolved
  <2> QED BY <1>1, <1>2, <1>3, <2>1, <2>2, <2>3 DEF AnswerInv, Backed
<1> QED BY <1>6, <1>7, <1>8, <1>9, <1>10

LEMMA StepInv == IInv /\ [Next]_vars => IInv'
<1> SUFFICES ASSUME IInv, [Next]_vars PROVE IInv'
  OBVIOUS
<1>1. CASE UNCHANGED vars
  BY <1>1 DEF vars, IInv, TypeOK, BootInv, ContainerInv, ControlOff, UneditedInv, AnswerInv
<1> QED BY <1>1, EditStep, BootStep, RefuseStep, ServeStep DEF Next, Request

LEMMA Invariance == Spec => []IInv
BY InitInv, StepInv, PTL DEF Spec

-----------------------------------------------------------------------------
(* The properties.                                                         *)

\* Every variable keeps its type, however often the file is replaced.
THEOREM TypeCorrect == Spec => []TypeOK
<1>1. IInv => TypeOK
  BY DEF IInv
<1> QED BY <1>1, Invariance, PTL

\* A deployment whose profile nobody chose gets no relaxation, believes no
\* service and hands a seeded persona to no caller (ProfileChoice,
\* LocalIdentityAdapter, require_service_caller).
THEOREM UnchosenReachesNobody == Spec => []UnchosenIsNobody
<1>1. IInv => UnchosenIsNobody
  <2> SUFFICES ASSUME IInv, ~Choice(env).explicit, phase = "serving" PROVE UnchosenIsNobody
    BY DEF UnchosenIsNobody
  <2>1. ~Relaxed(Choice(env)) /\ ~authenticated
    BY DEF IInv, BootInv, Relaxed, ExposureProfile
  <2>2. ~(answer.route = "ping" /\ answer.status = "ok")
    BY DEF IInv, AnswerInv
  <2>3. ASSUME container # NoSettings PROVE ~PersonasConstruct(container)
    BY <2>3, ActiveInv DEF ContainerUp, ActiveSettings, PersonasConstruct
  <2> QED BY <2>1, <2>2, <2>3 DEF IInv, AnswerInv, UnchosenIsNobody
<1> QED BY <1>1, Invariance, PTL

\* A caller beyond loopback that named itself is believed only where the
\* insecure demo was opted into, whatever was edited in the settings between the
\* import and the request and whether or not they loaded at the import, as long
\* as the identity binding is still the one the import read (the exposure guard,
\* end_user_auth_kind).
THEOREM SelfNamedCallersStayLocal == Spec => []SelfNamedStaysLocal
<1>1. IInv => SelfNamedStaysLocal
  <2> SUFFICES ASSUME IInv, answer.peer = "lan", answer.principal = "asserted",
                      ~env.insecure_demo, container.file.identity = seen.identity
               PROVE  FALSE
    BY DEF SelfNamedStaysLocal
  <2> USE DEF IInv
  <2>1. authenticated /\ container # NoSettings
    BY DEF AnswerInv
  <2>2. EndUserAuthKind(env, seen) = "verified"
    BY <2>1 DEF BootInv
  <2>3. seen.identity = "iap"
    BY <2>2 DEF EndUserAuthKind, DeclaredEndUserAuth
  <2> QED BY <2>3 DEF AnswerInv
<1> QED BY <1>1, Invariance, PTL

\* What a shipped entry point lets start answers its health check and meets no
\* managed placeholder, as long as the settings file is the one the boot read
\* (managed_readiness.main, main).  An assessment may still fail on a binding that
\* names no class and on a pack that does not load, which no boot check opens.
THEOREM WhatStartsCanServe == Spec => []StartedCanServe
<1>1. IInv => StartedCanServe
  BY DEF IInv, AnswerInv, Unresolved, StartedCanServe
<1> QED BY <1>1, Invariance, PTL

\* A managed container holds only controls that can work, whenever the file
\* was replaced, and what is off in any container was logged
\* (_refuse_unconfigured_controls, build_container).
THEOREM ControlsAlwaysWork == Spec => []ControlsCanWork
<1>1. IInv => ControlsCanWork
  <2> SUFFICES ASSUME IInv, container # NoSettings PROVE ControlsCanWork
    BY DEF ControlsCanWork
  <2>1. PICK f \in SettingsFiles : Loads(env, f) /\ container = Loaded(env, f)
    BY DEF IInv, ContainerInv
  <2>2. container.profile = Choice(env).profile /\ container.file = f
    BY <2>1 DEF Loaded
  <2>3. ControlOff => logged
    BY DEF IInv, ContainerInv
  <2> QED BY <2>1, <2>2, <2>3 DEF ControlsCanWork, Loads, ControlsConfigured, On
<1> QED BY <1>1, Invariance, PTL

\* Where a bare "authentication required" is answered, some credential would
\* have been accepted; only where no verifier is installed would it rather have
\* been answered that nobody can be authenticated here
\* (EndUserAuthUnavailableError, get_principal, resolve).
THEOREM BareRefusalsAreExplained == Spec => []BareRefusalIsExplained
<1>1. IInv => BareRefusalIsExplained
  <2> SUFFICES ASSUME IInv, answer.route = "assess", answer.status = "required"
               PROVE  Met("ok") \/ (~env.verifier /\ Met("unavailable"))
    BY DEF BareRefusalIsExplained
  <2>1. CASE container.file.identity = "silent"
    <3>1. [status |-> "ok", principal |-> "asserted"] \in Resolutions(container, "none")
      BY <2>1 DEF Resolutions
    <3>2. Met("ok")
      BY <3>1 DEF Credentials, Met
    <3> QED BY <3>2
  <2>2. CASE container.file.identity = "iap" /\ container.file.iap_audience /\ env.verifier
    <3>1. [status |-> "ok", principal |-> "verified"] \in Resolutions(container, "assertion")
      BY <2>2 DEF Resolutions
    <3>2. Met("ok")
      BY <3>1 DEF Credentials, Met
    <3> QED BY <3>2
  <2>3. CASE container.file.identity = "iap" /\ container.file.iap_audience /\ ~env.verifier
    <3>1. Unavailable \in Resolutions(container, "assertion")
      BY <2>3 DEF Resolutions
    <3>2. Met("unavailable")
      BY <3>1 DEF Credentials, Met, Unavailable
    <3> QED BY <2>3, <3>2
  <2> QED BY <2>1, <2>2, <2>3 DEF IInv, AnswerInv
<1> QED BY <1>1, Invariance, PTL
=============================================================================
