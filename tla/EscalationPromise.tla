-------------------------- MODULE EscalationPromise --------------------------
(***************************************************************************)
(* Rule R8 as a promise: what a caller of the service, and a reviewer at   *)
(* the human-review-console, may rely on whatever the ports, the network   *)
(* and the process do.  A verdict is recorded before anybody acts on it;   *)
(* only a recorded serious verdict reaches a reviewer; a caller is told    *)
(* "routed" only of a review somebody holds, and "not_required" only of an *)
(* assessment that needs none.  AssessmentService implements it.           *)
(***************************************************************************)
CONSTANTS
    Call,        \* invocations of the service
    Subject,     \* the assessments they may compute
    Serious      \* those that need a human review

VARIABLES
    subject,   \* call -> its assessment
    recorded,  \* calls whose verdict is in the audit trail
    desk,      \* reviews the console holds
    buffer,    \* reviews a local queue holds until the process ends
    answer     \* call -> what its caller has been told

promiseVars == <<subject, recorded, desk, buffer, answer>>

Answers == {"none", "routed", "failed", "off", "not_required", "gone"}

PromiseInit ==
    /\ subject \in [Call -> Subject]
    /\ recorded = {} /\ desk = {} /\ buffer = {}
    /\ answer = [c \in Call |-> "none"]

RecordVerdict(c) ==
    /\ answer[c] = "none"
    /\ recorded' = recorded \cup {c}
    /\ UNCHANGED <<subject, desk, buffer, answer>>

\* The review may arrive late: after its caller was told "failed", or left.
HandOver(c) ==
    /\ c \in recorded
    /\ subject[c] \in Serious
    /\ \/ desk' = desk \cup {subject[c]} /\ UNCHANGED buffer
       \/ buffer' = buffer \cup {subject[c]} /\ UNCHANGED desk
    /\ UNCHANGED <<subject, recorded, answer>>

Tell(c, outcome) ==
    /\ answer[c] = "none"
    /\ c \in recorded
    /\ outcome = "not_required" <=> subject[c] \notin Serious
    /\ outcome = "routed" => subject[c] \in desk \cup buffer
    /\ answer' = [answer EXCEPT ![c] = outcome]
    /\ UNCHANGED <<subject, recorded, desk, buffer>>

\* The call ends in an error.
Abandon(c) ==
    /\ answer[c] = "none"
    /\ answer' = [answer EXCEPT ![c] = "gone"]
    /\ UNCHANGED <<subject, recorded, desk, buffer>>

\* The process restarts: callers that wait are gone, and so is the buffer.
\* The desk and the record stay.
LoseProcess ==
    /\ buffer' = {}
    /\ \E cut \in SUBSET {c \in Call : answer[c] = "none"} :
          answer' = [c \in Call |-> IF c \in cut THEN "gone" ELSE answer[c]]
    /\ UNCHANGED <<subject, recorded, desk>>

PromiseNext ==
    \/ \E c \in Call :
          \/ RecordVerdict(c) \/ HandOver(c) \/ Abandon(c)
          \/ \E outcome \in Answers \ {"none", "gone"} : Tell(c, outcome)
    \/ LoseProcess

PromiseSpec == PromiseInit /\ [][PromiseNext]_promiseVars
=============================================================================
