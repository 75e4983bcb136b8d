-------------------------------- MODULE Posture --------------------------------
(***************************************************************************)
(* From a deployment's environment to an answered request: the profile     *)
(* read in three states (config.py), the preflight (managed_readiness.py), *)
(* the posture app.py fixes when it is imported, the container built by    *)
(* the first request that needs one, and the identity adapter it binds.    *)
(*                                                                         *)
(* The settings file is read at up to three different moments by up to two *)
(* processes, and an operator may replace it between any two of them.      *)
(*                                                                         *)
(* The network guard, the host resolution and the service authentication   *)
(* belong to an external kit and are modelled from how app.py uses them.   *)
(***************************************************************************)
EXTENDS Naturals

CONSTANTS
    Environments,  \* what the process environments may say
    SettingsFiles, \* what the settings file may hold
    Entries,       \* how the service is started
    NoSettings,    \* no settings were loaded
    MaxEdits       \* bound on the edits of the settings file

VARIABLES
    env,           \* the process environment
    entry,         \* how it was started
    file,          \* the settings file as it is on disk
    phase,         \* how far the start has come
    seen,          \* the file the import of app.py read
    authenticated, \* _END_USER_AUTHENTICATED, fixed at import
    host,          \* the interfaces the socket is bound to
    container,     \* the settings of the cached container
    logged,        \* the warning about switched-off controls is out
    answer,        \* the last request answered, and how
    edits          \* how often the file was replaced

vars == <<env, entry, file, phase, seen, authenticated, host, container,
          logged, answer, edits>>
bootVars == <<env, entry, seen, authenticated, host>>

-----------------------------------------------------------------------------
\* "unset", "empty" and "junk" (unknown, or mis-capitalised) are states of a
\* variable; "local", "gcp" and "onprem" are profiles, "on" and "off" switches.
\* "verifier" says that google-auth is installed.
KnownProfiles == {"local", "gcp", "onprem"}
ProfileSetting == KnownProfiles \cup {"unset", "empty", "junk"}
SwitchSetting == {"unset", "empty", "junk", "on", "off"}
HostSetting == {"unset", "loopback", "all"}
Environment == [profile: ProfileSetting, routing: SwitchSetting,
                guardrail: SwitchSetting, api_host: HostSetting,
                insecure_demo: BOOLEAN, verifier: BOOLEAN]

\* What the file binds for the active profile.  An identity adapter declares
\* one of three kinds; "silent" declares nothing and "missing" names no class.
IdentityBinding == {"personas", "iap", "placeholder", "silent", "missing"}
\* The other ports of the assess path are all bound, or one of them to a managed
\* placeholder that raises, or one to no class; "pack" says that the outcome pack
\* the file names loads.
SettingsFile == [readable: BOOLEAN, identity: IdentityBinding,
                 review_url: BOOLEAN, iap_audience: BOOLEAN,
                 template: {"named", "empty", "unused"},
                 ports: {"bound", "placeholder", "missing"}, pack: BOOLEAN]

ASSUME EnvironmentsAssumption == Environments \subseteq Environment
ASSUME SettingsFilesAssumption == SettingsFiles \subseteq SettingsFile
ASSUME EntriesAssumption == Entries \subseteq {"image", "module", "bare"}
ASSUME MaxEditsAssumption == MaxEdits \in Nat

-----------------------------------------------------------------------------
\* resolve_profile: unset is carried on as "nobody chose", never as a choice
\* of "local"; an emptied or an unknown value raises.
Resolves(e) == e.profile \in KnownProfiles \cup {"unset"}

Choice(e) ==
    IF e.profile = "unset" THEN [profile |-> "local", explicit |-> FALSE]
                           ELSE [profile |-> e.profile, explicit |-> TRUE]

\* What relaxations key off, and what restrictions key off: they fail closed
\* in opposite directions.
ExposureProfile(c) == IF c.explicit THEN c.profile ELSE "unconfigured"
BindProfile(c) == IF c.explicit THEN c.profile ELSE "local"

\* The CORS allowlist, the persona header, plain HTTP and the docs.
Relaxed(c) == ExposureProfile(c) = "local"

\* boolean_setting, with both controls on by default.
SwitchReads(s) == s \in {"unset", "on", "off"}
\* Mutant: a control is on only where it was said to be.
OnIfSaid(s) == s = "on"

On(s) == s # "off"

\* A control that is on under the managed profile must be able to work.
ControlsConfigured(e, f) ==
    Choice(e).profile = "gcp" =>
        /\ On(e.routing) => f.review_url
        /\ On(e.guardrail) => f.template # "empty"

\* Settings.load raises unless all of these hold.
Loads(e, f) ==
    /\ f.readable
    /\ Resolves(e)
    /\ SwitchReads(e.routing) /\ SwitchReads(e.guardrail)
    /\ ControlsConfigured(e, f)

Settings == [profile: KnownProfiles, explicit: BOOLEAN, file: SettingsFile]
ASSUME NoSettingsAssumption == NoSettings \notin Settings
Loaded(e, f) == [profile |-> Choice(e).profile, explicit |-> Choice(e).explicit,
                 file |-> f]

\* assert_managed_profile_ready looks for the placeholders by name: it resolves
\* no binding and loads no pack.
Ready(e, f) == Choice(e).profile = "gcp" => f.ports # "placeholder"

\* declared_end_user_auth: silence is not a claim to verify anything.
DeclaredEndUserAuth(binding) ==
    CASE binding = "iap" -> "verified"
      [] binding = "placeholder" -> "unimplemented"
      [] OTHER -> "client-asserted"

\* Mutant: a failure to establish the answer is taken for a yes.
EndUserAuthKindFailsOpen(e, f) ==
    IF Loads(e, f) THEN DeclaredEndUserAuth(f.identity) ELSE "verified"

\* end_user_auth_kind: a failure to establish the answer reads as the answer
\* that keeps the guard up.
EndUserAuthKind(e, f) ==
    IF Loads(e, f) THEN DeclaredEndUserAuth(f.identity) ELSE "client-asserted"

\* The kit: "local" is confined to loopback unless the insecure demo is opted
\* into, and refuses otherwise; fronted profiles take what they are given.
HostRefused(profile, e) ==
    profile = "local" /\ e.api_host = "all" /\ ~e.insecure_demo
\* Mutant: the host variable is taken as written.
HostForVerbatim(profile, e) == e.api_host

HostFor(profile, e) ==
    IF e.api_host = "unset"
    THEN IF profile = "local" THEN "loopback" ELSE "all"
    ELSE e.api_host

-----------------------------------------------------------------------------
Routes == {"assess", "healthz", "personas", "ping"}
Peers == {"loopback", "lan"}
Credentials == {"none", "persona", "assertion"}

\* "refused" is the guard's 503, "crashed" a 500, "required" the bare 401,
\* "unavailable" a refusal that says nobody can authenticate here.
Statuses == {"ok", "refused", "crashed", "required", "unavailable"}
\* Whom the answer was given to: a principal somebody verified, one the caller
\* named itself, or nobody in particular.
Principals == {"verified", "asserted", "nobody"}
Answer == [route: Routes, peer: Peers, status: Statuses, principal: Principals]
NoAnswer == [route |-> "healthz", peer |-> "loopback", status |-> "ok",
             principal |-> "nobody"]

Phases == {"preflight", "import", "main", "serving", "stopped"}

TypeOK ==
    /\ env \in Environments
    /\ entry \in Entries
    /\ file \in SettingsFiles
    /\ phase \in Phases
    /\ seen \in SettingsFiles
    /\ authenticated \in BOOLEAN
    /\ host \in {"none", "loopback", "all"}
    /\ container \in Settings \cup {NoSettings}
    /\ logged \in BOOLEAN
    /\ answer \in Answer
    /\ edits \in 0..MaxEdits

Init ==
    /\ env \in Environments
    /\ entry \in Entries
    /\ file \in SettingsFiles
    /\ phase = IF entry = "image" THEN "preflight" ELSE "import"
    /\ seen = file
    /\ authenticated = FALSE
    /\ host = "none"
    /\ container = NoSettings
    /\ logged = FALSE
    /\ answer = NoAnswer
    /\ edits = 0

-----------------------------------------------------------------------------
\* An operator replaces the settings file.
EditFile ==
    /\ phase # "stopped" /\ edits < MaxEdits
    /\ \E f \in SettingsFiles \ {file} : file' = f
    /\ edits' = edits + 1
    /\ UNCHANGED <<bootVars, phase, container, logged, answer>>

Stop ==
    /\ phase' = "stopped"
    /\ UNCHANGED <<bootVars, file, container, logged, answer, edits>>

\* Mutant: the preflight checks the bindings and never loads the settings.
PreflightUnloaded ==
    /\ phase = "preflight"
    /\ Resolves(env) /\ Ready(env, file)
    /\ phase' = "import"
    /\ UNCHANGED <<bootVars, file, container, logged, answer, edits>>

\* managed_readiness.main, a process of its own before the image's server.
Preflight ==
    /\ phase = "preflight"
    /\ Loads(env, file) /\ Ready(env, file)
    /\ phase' = "import"
    /\ UNCHANGED <<bootVars, file, container, logged, answer, edits>>

PreflightRefuses ==
    /\ phase = "preflight"
    /\ ~(Loads(env, file) /\ Ready(env, file))
    /\ Stop

\* Importing app.py resolves the profile and asks what the bound identity
\* adapter declares.  The image and a bare server then bind every interface.
Import ==
    /\ phase = "import" /\ Resolves(env)
    /\ seen' = file
    /\ authenticated' = (/\ Choice(env).explicit
                         /\ EndUserAuthKind(env, file) = "verified")
    /\ IF entry = "module" THEN phase' = "main" /\ host' = host
                           ELSE phase' = "serving" /\ host' = "all"
    /\ UNCHANGED <<env, entry, file, container, logged, answer, edits>>

ImportRefuses == phase = "import" /\ ~Resolves(env) /\ Stop

\* The start-up bound of main() uses the posture the import fixed.
StartProfile == IF authenticated THEN BindProfile(Choice(env)) ELSE "local"

MainRefused ==
    \/ ~Loads(env, file)
    \/ ~Ready(env, file)
    \/ HostRefused(StartProfile, env)

Main ==
    /\ phase = "main" /\ ~MainRefused
    /\ phase' = "serving"
    /\ host' = HostFor(StartProfile, env)
    /\ UNCHANGED <<env, entry, file, seen, authenticated, container, logged, answer, edits>>

MainRefuses == phase = "main" /\ MainRefused /\ Stop

-----------------------------------------------------------------------------
\* The container is built by the first request that loads settings: a load
\* that raised is not cached, and the next request loads the file again.
ActiveSettings == IF container # NoSettings THEN container ELSE Loaded(env, file)
ContainerUp == container # NoSettings \/ Loads(env, file)

\* build_container warns once per process of controls that are off.
ControlOff == ~On(env.routing) \/ ~On(env.guardrail)
BuildContainer ==
    IF ContainerUp
    THEN /\ container' = ActiveSettings
         /\ logged' = (logged \/ ControlOff)
    ELSE UNCHANGED <<container, logged>>

\* Mutant: an inherited local profile reads as a chosen one.
PersonasConstructInherited(s) == s.profile = "local"

\* The seeded personas construct under a chosen local profile and no other.
PersonasConstruct(s) == s.profile = "local" /\ s.explicit

\* Mutant: every identity error is a bare 401.
UnavailableIsBare == [status |-> "required", principal |-> "nobody"]

\* EndUserAuthUnavailableError: this deployment can authenticate nobody.
Unavailable == [status |-> "unavailable", principal |-> "nobody"]

\* get_principal: what the bound adapter makes of a credential.  An adapter of
\* the client's own that declares nothing may accept whatever it likes, and
\* whether an assertion verifies is Google's answer.  The missing header and the
\* algorithm pin are refused before the verifier is looked for.
Resolutions(s, credential) ==
    LET binding == s.file.identity
        outcome(status, principal) == [status |-> status, principal |-> principal]
    IN  CASE binding = "missing" -> {outcome("crashed", "nobody")}
          [] binding = "placeholder" -> {Unavailable}
          [] binding = "personas" ->
                IF PersonasConstruct(s) THEN {outcome("ok", "asserted")}
                                        ELSE {Unavailable}
          [] binding = "iap" ->
                IF ~s.file.iap_audience THEN {Unavailable}
                ELSE {outcome("required", "nobody")} \cup
                     IF credential # "assertion" THEN {}
                     ELSE IF env.verifier THEN {outcome("ok", "verified")}
                                          ELSE {Unavailable}
          [] binding = "silent" ->
                {outcome("ok", "asserted"), outcome("required", "nobody")}

\* assess: a principal; then every port is bound (build_service), the pack is
\* loaded (policy_for) and the ports are called.  The managed and the on-premises
\* placeholders raise.
CannotAssess(s) ==
    \/ s.file.ports = "missing"
    \/ ~s.file.pack
    \/ s.profile # "local" /\ s.file.ports = "placeholder"

AssessOutcomes(s, credential) ==
    LET reached(o) == IF o.status = "ok" /\ CannotAssess(s)
                      THEN [o EXCEPT !.status = "crashed"] ELSE o
    IN  {reached(o) : o \in Resolutions(s, credential)}

\* personas(): the picker's list, empty where the adapter lists none.
PersonasOutcomes(s) ==
    LET binding == s.file.identity
    IN  CASE binding = "missing" -> {[status |-> "crashed", principal |-> "nobody"]}
          [] binding = "personas" /\ ~PersonasConstruct(s) ->
                {Unavailable}
          [] OTHER -> {[status |-> "ok", principal |-> "nobody"]}

\* require_service_caller: no profile chosen, no scheme chosen.
PingOutcomes ==
    {[status |-> "required", principal |-> "nobody"]} \cup
    IF Choice(env).explicit THEN {[status |-> "ok", principal |-> "nobody"]} ELSE {}

Outcomes(route, credential) ==
    CASE route = "ping" -> PingOutcomes
      [] route # "ping" /\ ~ContainerUp -> {[status |-> "crashed", principal |-> "nobody"]}
      [] route = "assess" /\ ContainerUp -> AssessOutcomes(ActiveSettings, credential)
      [] route = "personas" /\ ContainerUp -> PersonasOutcomes(ActiveSettings)
      [] route = "healthz" /\ ContainerUp -> {[status |-> "ok", principal |-> "nobody"]}

Reachable(peer) == peer = "lan" => host = "all"
\* The kit's guard, the outermost middleware.
Bounded(peer) == peer = "lan" /\ ~authenticated /\ ~env.insecure_demo

Refuse(route, peer) ==
    /\ phase = "serving" /\ Reachable(peer) /\ Bounded(peer)
    /\ answer' = [route |-> route, peer |-> peer, status |-> "refused",
                  principal |-> "nobody"]
    /\ UNCHANGED <<bootVars, file, phase, container, logged, edits>>

Serve(route, peer, credential) ==
    /\ phase = "serving" /\ Reachable(peer) /\ ~Bounded(peer)
    /\ \E o \in Outcomes(route, credential) :
          answer' = [route |-> route, peer |-> peer, status |-> o.status,
                     principal |-> o.principal]
    /\ IF route = "ping" THEN UNCHANGED <<container, logged>> ELSE BuildContainer
    /\ UNCHANGED <<bootVars, file, phase, edits>>

Request ==
    \E route \in Routes, peer \in Peers :
        \/ Refuse(route, peer)
        \/ \E credential \in Credentials : Serve(route, peer, credential)

Next ==
    \/ EditFile
    \/ Preflight \/ PreflightRefuses
    \/ Import \/ ImportRefuses
    \/ Main \/ MainRefuses
    \/ Request

Spec == Init /\ [][Next]_vars

-----------------------------------------------------------------------------
\* A deployment whose profile nobody chose gets no relaxation, believes no
\* service, and hands a seeded persona to no caller, the insecure demo or not:
\* only an adapter the client bound itself can still name a principal
\* (ProfileChoice, LocalIdentityAdapter, require_service_caller).
UnchosenIsNobody ==
    ~Choice(env).explicit /\ phase = "serving" =>
        /\ ~Relaxed(Choice(env)) /\ ~authenticated
        /\ ~(answer.route = "ping" /\ answer.status = "ok")
        /\ answer.principal = "asserted" => container.file.identity = "silent"

\* A caller beyond loopback who named itself is answered as that principal
\* only where the operator opted in to the insecure demo, also where the settings
\* did not load when the posture was fixed.  It does not speak of an identity
\* binding replaced after the import (SelfNamedIsBounded does).
SelfNamedStaysLocal ==
    answer.peer = "lan" /\ answer.principal = "asserted" =>
        env.insecure_demo \/ container.file.identity # seen.identity

\* A service that its shipped entry points let start can serve: its health
\* check answers, and no assessment meets a managed placeholder, as long as the
\* settings file is the one the boot read (managed_readiness.main, main).  Left
\* to fail are what no boot check resolves: a binding that names no class, and
\* the outcome pack (StartedHasItsPack).
StartedCanServe ==
    entry # "bare" /\ edits = 0 /\ answer.status = "crashed" =>
        /\ answer.route # "healthz"
        /\ Choice(env).profile = "gcp" /\ answer.route = "assess"
              => \/ "missing" \in {container.file.identity, container.file.ports}
                 \/ ~container.file.pack

\* A container under the managed profile holds only controls that can work,
\* however often the file was replaced before it was built: routing that is not
\* switched off has a console, screening a template
\* (_refuse_unconfigured_controls at every load).  What is switched off in it,
\* under any profile, has been logged.
ControlsCanWork ==
    container # NoSettings =>
        /\ ControlOff => logged
        /\ container.profile = "gcp" =>
              /\ env.routing = "off" \/ container.file.review_url
              /\ env.guardrail = "off" \/ container.file.template # "empty"

Met(status) ==
    \E credential \in Credentials :
        \E o \in Resolutions(container, credential) : o.status = status

\* A bare "authentication required" is the caller's to act on: some credential
\* would have been accepted - or the verifier is not installed, the one lack of
\* the deployment's that is looked for after the caller's header, and then some
\* credential is answered that nobody can be authenticated here
\* (EndUserAuthUnavailableError, get_principal).
BareRefusalIsExplained ==
    answer.route = "assess" /\ answer.status = "required" =>
        Met("ok") \/ (~env.verifier /\ Met("unavailable"))

\* adapters/gcp/identity.py: an "uninstalled verifier is the DEPLOYMENT's problem:
\* nobody can authenticate here and no credential would have helped, so those
\* raise EndUserAuthUnavailableError".  A bare refusal is the caller's: some
\* credential would have been accepted.
\* The code does not keep this one (README, section 6).
BareRefusalIsTheCallers ==
    answer.route = "assess" /\ answer.status = "required" => Met("ok")

\* api/app.py: "neither authenticates anyone, so neither may switch this off".
\* A caller beyond loopback who named itself is answered as that principal only
\* under the insecure demo.
\* The code does not keep this one (README, section 6).
SelfNamedIsBounded ==
    answer.peer = "lan" /\ answer.principal = "asserted" => env.insecure_demo

\* outcome_pack.py: a monitor on a pack that does not load "must not start at
\* all".  No assessment of a service that a shipped entry point started fails
\* with a pack that does not load.
\* The code does not keep this one (README, section 6).
StartedHasItsPack ==
    /\ entry # "bare" /\ container # NoSettings
    /\ answer.route = "assess" /\ answer.status = "crashed"
    => container.file.pack
=============================================================================
