------------------------------- MODULE MCPosture -------------------------------
(***************************************************************************)
(* Small instances of Posture for TLC: every state of the profile          *)
(* variable, a control unset, off or unreadable, the verifier missing or   *)
(* not, and settings files that differ from a complete one in one thing    *)
(* each, but one that has two: unreadable, and naming a silent adapter.    *)
(***************************************************************************)
EXTENDS Posture

MCEnvironments ==
    {e \in [profile: ProfileSetting, routing: {"unset", "off", "junk"},
            guardrail: {"unset", "off"}, api_host: {"unset", "all"},
            insecure_demo: BOOLEAN, verifier: BOOLEAN] :
        e.verifier \/ ~e.insecure_demo}

Complete == [readable |-> TRUE, identity |-> "iap", review_url |-> TRUE,
             iap_audience |-> TRUE, template |-> "named", ports |-> "bound",
             pack |-> TRUE]

MCSettingsFiles ==
    {[Complete EXCEPT !.identity = i] : i \in IdentityBinding}
    \cup {[Complete EXCEPT !.readable = FALSE],
          [Complete EXCEPT !.review_url = FALSE],
          [Complete EXCEPT !.iap_audience = FALSE],
          [Complete EXCEPT !.template = "empty"],
          [Complete EXCEPT !.ports = "placeholder"],
          [Complete EXCEPT !.ports = "missing"],
          [Complete EXCEPT !.pack = FALSE],
          [Complete EXCEPT !.identity = "silent", !.readable = FALSE]}
=============================================================================
