----------------------- MODULE AssessmentServiceProofs -----------------------
(***************************************************************************)
(* What holds of AssessmentService for any number of calls, tenants,       *)
(* instants, results and restarts.                                         *)
(*                                                                         *)
(* TypeCorrect needs nothing.  The safety theorems assume Durable: with    *)
(* the trail in memory (the ":memory:" default) a restart forgets it, and  *)
(* a review on the console outlives its audit event.  They all come from   *)
(* one inductive invariant, IInv, which adds to them what each point of a  *)
(* call's path has already established.                                    *)
(*                                                                         *)
(* Last, the service implements EscalationPromise: with a durable trail,   *)
(* every step of it, a restart and a late delivery included, is a step of  *)
(* rule R8's promise or changes nothing the promise speaks of.             *)
(***************************************************************************)
EXTENDS AssessmentService, TLAPS

-----------------------------------------------------------------------------
(* Types.                                                                  *)

LEMMA TypeInit == Init => TypeOK
<1> SUFFICES ASSUME Init PROVE TypeOK
  OBVIOUS
<1>1. pc \in [Call -> Step]
  BY DEF Init, Step
<1>2. /\ narration \in [Call -> Narrations]
      /\ routing \in [Call -> Routings]
      /\ review_ref \in [Call -> Refs]
  BY DEF Init, Narrations, Routings, Refs
<1>3. 0 \in 0..MaxRestarts
  BY MaxRestartsAssumption
<1> QED BY <1>1, <1>2, <1>3 DEF Init, TypeOK

LEMMA TypeStep == TypeOK /\ [Next]_vars => TypeOK'
<1> SUFFICES ASSUME TypeOK, [Next]_vars PROVE TypeOK'
  OBVIOUS
<1> USE DEF TypeOK, Step, Working, Screens, Ended, Goto,
            givenVars, answerVars, reviewVars, recordVars
<1>1. ASSUME NEW c \in Call, Evaluate(c) PROVE TypeOK'
  BY <1>1 DEF Evaluate
<1>2. ASSUME NEW c \in Call, EvaluateRaises(c) \/ AuditRaises(c) \/ KeepRaises(c)
      PROVE  TypeOK'
  BY <1>2 DEF EvaluateRaises, AuditRaises, KeepRaises, Raise
<1>3. ASSUME NEW c \in Call, ScreenAllows(c) PROVE TypeOK'
  BY <1>3 DEF ScreenAllows, AfterScreen, Narrations
<1>4. ASSUME NEW c \in Call, ScreenRefuses(c) \/ Narrate(c) PROVE TypeOK'
  BY <1>4 DEF ScreenRefuses, Narrate
<1>5. ASSUME NEW c \in Call, AuditRefusal(c) \/ AuditVerdict(c) PROVE TypeOK'
  BY <1>5 DEF AuditRefusal, AuditVerdict, RecordEvent, Event, Decisions, Overall
<1>6. ASSUME NEW c \in Call, RouteOff(c) PROVE TypeOK'
  BY <1>6 DEF RouteOff, Answer, Routings, Refs
<1>14. ASSUME NEW c \in Call, RouteLocally(c) PROVE TypeOK'
  BY <1>14 DEF RouteLocally, Answer, Routings, Refs
<1>7. ASSUME NEW c \in Call, Submit(c) PROVE TypeOK'
  BY <1>7 DEF Submit
<1>8. ASSUME NEW c \in Call, RouteRaises(c) \/ SubmitReturns(c) PROVE TypeOK'
  BY <1>8 DEF RouteRaises, SubmitReturns, Answer, Routings, Refs
<1>9. ASSUME NEW c \in Call, Put(c) PROVE TypeOK'
  BY <1>9 DEF Put, RecordOf, Record
<1>10. ASSUME NEW c \in Call, Export(c) PROVE TypeOK'
  BY <1>10 DEF Export, Row
<1>11. ASSUME NEW c \in Call, ConsoleTakes(c) \/ SubmissionLost(c) PROVE TypeOK'
  BY <1>11 DEF ConsoleTakes, SubmissionLost
<1>12. CASE Restart
  BY <1>12, MaxRestartsAssumption DEF Restart
<1>13. CASE UNCHANGED vars
  BY <1>13 DEF vars
<1> QED
  BY <1>1, <1>2, <1>3, <1>4, <1>5, <1>6, <1>7, <1>8, <1>9, <1>10, <1>11,
     <1>12, <1>13, <1>14 DEF Next, CallStep

\* Every variable keeps its type, whatever the ports, the network and the
\* process do.
THEOREM TypeCorrect == Spec => []TypeOK
BY TypeInit, TypeStep, PTL DEF Spec

-----------------------------------------------------------------------------
(* The inductive invariant: what each point of a call's path has           *)
(* established, and the properties themselves.                             *)

\* Before the verdict is audited, and before the review is routed.
Drafting == {"idle", "narrate", "refused"} \cup Screens
Unrouted == Drafting \cup {"audit", "route", "await"}
Routed == {"store", "export", "done"}

\* No draft stands and nothing is refused while texts are still screened.
DraftIsOpen ==
    \A c \in Call : pc[c] \in Drafting => narration[c] = "fallback" /\ ~RefusedTo(c)

UnroutedIsSilent ==
    \A c \in Call : pc[c] \in Unrouted =>
        routing[c] = "not_required" /\ review_ref[c] = ""

\* Whoever routes, or has a submission on the wire, has its escalation on
\* record, even if the call has ended since.
OnlyDecidedIsSent ==
    \A c \in Call : pc[c] \in {"route", "await"} \/ c \in wire =>
        NeedsReview(assessment[c]) /\ Decided(assessment[c])

RepliesAreTrue == \A c \in replies : assessment[c] \in console

\* What AnswerIsTrue says, from the moment the routing is settled.
RoutedIsTrue ==
    \A c \in Call : pc[c] \in Routed =>
        /\ Decided(assessment[c])
        /\ routing[c] = "routed" <=> review_ref[c] # ""
        /\ Held(assessment[c], review_ref[c])
        /\ routing[c] = "off" => router = "off"
        /\ routing[c] = "not_required" <=> ~NeedsReview(assessment[c])

ExportingIsStored ==
    \A c \in Call : pc[c] = "export" => \E r \in stored : r.id = assessment[c]

IInv ==
    /\ TypeOK
    /\ DraftIsOpen /\ UnroutedIsSilent /\ OnlyDecidedIsSent /\ RepliesAreTrue
    /\ RoutedIsTrue /\ ExportingIsStored
    /\ HandedOverWasAudited /\ KeptWasAudited /\ ExportedIsStored
    /\ ReferencesNameReviews /\ VisibleAfterRouting /\ RefusedDraftNeverStands

-----------------------------------------------------------------------------
(* The records only grow.                                                  *)

\* Durable: no step takes anything out of the trail, off the console or out of
\* the store's ids; a restart empties the outbox, which is then remembered.
LEMMA Growth ==
    ASSUME Durable, TypeOK, [Next]_vars
    PROVE  /\ router' = router /\ assessment' = assessment
           /\ audit \subseteq audit'
           /\ console \subseteq console'
           /\ outbox \cup forgotten \subseteq (outbox \cup forgotten)'
           /\ \A r \in stored : \E s \in stored' : s.id = r.id
<1> USE DEF TypeOK, Goto, givenVars, answerVars, reviewVars, recordVars
<1>1. ASSUME NEW c \in Call, CallStep(c), ~Put(c) PROVE UNCHANGED stored
  BY <1>1 DEF CallStep, Evaluate, EvaluateRaises, AuditRaises, KeepRaises, Raise,
     ScreenAllows, ScreenRefuses, Narrate, AuditRefusal, AuditVerdict, RouteOff,
     RouteLocally, Submit, RouteRaises, SubmitReturns, Export
<1>2. ASSUME NEW c \in Call, CallStep(c)
      PROVE  /\ router' = router /\ assessment' = assessment
             /\ audit \subseteq audit'
             /\ console = console' /\ outbox \subseteq outbox'
             /\ forgotten' = forgotten
  BY <1>2 DEF CallStep, Evaluate, EvaluateRaises, AuditRaises, KeepRaises, Raise,
     ScreenAllows, ScreenRefuses, Narrate, AuditRefusal, AuditVerdict, RouteOff,
     RouteLocally, Submit, RouteRaises, SubmitReturns, Put, Export,
     RecordEvent, Answer
<1>3. ASSUME NEW c \in Call, Put(c)
      PROVE  \A r \in stored : \E s \in stored' : s.id = r.id
  <2> SUFFICES ASSUME NEW r \in stored PROVE \E s \in stored' : s.id = r.id
    OBVIOUS
  <2>1. /\ RecordOf(c) \in stored'
        /\ r.id # assessment[c] => r \in stored'
    BY <1>3 DEF Put
  <2>2. RecordOf(c).id = assessment[c]
    BY DEF RecordOf
  <2> QED BY <2>1, <2>2
<1>4. ASSUME NEW c \in Call, ConsoleTakes(c) \/ SubmissionLost(c)
      PROVE  /\ router' = router /\ assessment' = assessment
             /\ audit = audit' /\ stored' = stored
             /\ console \subseteq console' /\ outbox' = outbox
             /\ forgotten' = forgotten
  BY <1>4 DEF ConsoleTakes, SubmissionLost
<1>5. CASE Restart
  BY <1>5 DEF Restart
<1>6. CASE UNCHANGED vars
  BY <1>6 DEF vars
<1> QED
  BY <1>1, <1>2, <1>3, <1>4, <1>5, <1>6 DEF Next

\* So a verdict on record stays on record, and a reference that named
\* a review goes on naming it.
LEMMA RecordStays ==
    ASSUME Durable, TypeOK, [Next]_vars
    PROVE  /\ \A a : Decided(a) => Decided(a)'
           /\ \A a, reference : Held(a, reference) => Held(a, reference)'
<1>1. \A a : Decided(a) => Decided(a)'
  BY Growth DEF Decided
<1>2. \A a, reference : Held(a, reference) => Held(a, reference)'
  BY Growth DEF Held
<1> QED BY <1>1, <1>2

-----------------------------------------------------------------------------
(* Every change has its action.                                            *)

\* The four ways a routing ends.
Settles(c) == RouteOff(c) \/ RouteLocally(c) \/ RouteRaises(c) \/ SubmitReturns(c)

LEMMA CallCauses ==
    ASSUME TypeOK, [Next]_vars, NEW d \in Call
    PROVE  /\ pc'[d] # pc[d] => CallStep(d) \/ pc'[d] = "lost"
           /\ ~(routing'[d] = routing[d] /\ review_ref'[d] = review_ref[d]) => Settles(d)
           /\ narration'[d] # narration[d] => ScreenAllows(d) /\ pc[d] = "body"
           /\ d \in wire' /\ d \notin wire => Submit(d)
           /\ d \in replies' /\ d \notin replies => ConsoleTakes(d)
<1> USE DEF TypeOK, Goto, givenVars, answerVars, reviewVars, recordVars
<1>1. ASSUME NEW c \in Call, CallStep(c), c # d
      PROVE  /\ pc'[d] = pc[d]
             /\ routing'[d] = routing[d] /\ review_ref'[d] = review_ref[d]
             /\ narration'[d] = narration[d]
             /\ d \in wire' => d \in wire
             /\ d \in replies' => d \in replies
  BY <1>1 DEF CallStep, Evaluate, EvaluateRaises, AuditRaises, KeepRaises, Raise,
     ScreenAllows, ScreenRefuses, Narrate, AuditRefusal, AuditVerdict, RouteOff,
     RouteLocally, Submit, RouteRaises, SubmitReturns, Put, Export, Answer
<1>2. ASSUME CallStep(d)
      PROVE  /\ ~(routing'[d] = routing[d] /\ review_ref'[d] = review_ref[d]) => Settles(d)
             /\ narration'[d] # narration[d] => ScreenAllows(d) /\ pc[d] = "body"
             /\ d \in wire' /\ d \notin wire => Submit(d)
             /\ d \in replies' => d \in replies
  BY <1>2 DEF CallStep, Evaluate, EvaluateRaises, AuditRaises, KeepRaises, Raise,
     ScreenAllows, ScreenRefuses, Narrate, AuditRefusal, AuditVerdict, RouteOff,
     RouteLocally, Submit, RouteRaises, SubmitReturns, Put, Export, Answer, Settles
<1>3. ASSUME NEW c \in Call, ConsoleTakes(c) \/ SubmissionLost(c)
      PROVE  /\ pc' = pc /\ routing' = routing /\ review_ref' = review_ref
             /\ narration' = narration
             /\ d \in wire' => d \in wire
             /\ d \in replies' /\ d \notin replies => ConsoleTakes(d)
  BY <1>3 DEF ConsoleTakes, SubmissionLost
<1>4. CASE Restart
  BY <1>4 DEF Restart
<1>5. CASE UNCHANGED vars
  BY <1>5 DEF vars
<1> QED
  BY <1>1, <1>2, <1>3, <1>4, <1>5 DEF Next

LEMMA RecordCauses ==
    ASSUME TypeOK, [Next]_vars
    PROVE  /\ \A a \in console' : a \in console \/ \E c \in wire : a = assessment[c]
           /\ \A a \in outbox' : a \in outbox \/
                 \E c \in Call : pc[c] = "route" /\ a = assessment[c]
           /\ \A r \in stored' : r \in stored \/ \E c \in Call : Put(c) /\ r = RecordOf(c)
           /\ \A row \in warehouse' : row \in warehouse \/
                 \E c \in Call : /\ pc[c] = "export"
                                 /\ row = [id |-> assessment[c], review_ref |-> review_ref[c]]
           /\ \A e \in audit' : e \in audit \/ e.decision # "blocked" \/
                 \E c \in Call : AuditRefusal(c) /\ e.call = c
<1> USE DEF Goto, givenVars, answerVars, reviewVars, recordVars
<1>1. ASSUME NEW c \in Call, CallStep(c)
      PROVE  /\ console' = console
             /\ outbox' = outbox \/ RouteLocally(c)
             /\ stored' = stored \/ Put(c)
             /\ warehouse' = warehouse \/ Export(c)
             /\ audit' = audit \/ AuditRefusal(c) \/ AuditVerdict(c)
  BY <1>1 DEF CallStep, Evaluate, EvaluateRaises, AuditRaises, KeepRaises, Raise,
     ScreenAllows, ScreenRefuses, Narrate, AuditRefusal, AuditVerdict, RouteOff,
     RouteLocally, Submit, RouteRaises, SubmitReturns, Put, Export, Answer
<1>2. ASSUME NEW c \in Call, ConsoleTakes(c) \/ SubmissionLost(c)
      PROVE  /\ c \in wire /\ console' \subseteq console \cup {assessment[c]}
             /\ UNCHANGED <<outbox, stored, warehouse, audit>>
  BY <1>2 DEF ConsoleTakes, SubmissionLost
<1>3. ASSUME Restart \/ UNCHANGED vars
      PROVE  /\ console' = console /\ outbox' \subseteq outbox /\ stored' \subseteq stored
             /\ warehouse' \subseteq warehouse /\ audit' \subseteq audit
  BY <1>3 DEF Restart, vars
<1>4. ASSUME NEW a \in console'
      PROVE  a \in console \/ \E c \in wire : a = assessment[c]
  BY <1>1, <1>2, <1>3, <1>4 DEF Next
<1>5. ASSUME NEW a \in outbox'
      PROVE  a \in outbox \/ \E c \in Call : pc[c] = "route" /\ a = assessment[c]
  BY <1>1, <1>2, <1>3, <1>5 DEF Next, RouteLocally
<1>6. ASSUME NEW r \in stored'
      PROVE  r \in stored \/ \E c \in Call : Put(c) /\ r = RecordOf(c)
  <2>1. ASSUME NEW c \in Call, Put(c) PROVE stored' \subseteq stored \cup {RecordOf(c)}
    BY <2>1 DEF Put
  <2> QED BY <1>1, <1>2, <1>3, <1>6, <2>1 DEF Next
<1>7. ASSUME NEW row \in warehouse'
      PROVE  row \in warehouse \/
             \E c \in Call : /\ pc[c] = "export"
                             /\ row = [id |-> assessment[c], review_ref |-> review_ref[c]]
  BY <1>1, <1>2, <1>3, <1>7 DEF Next, Export
<1>8. ASSUME NEW e \in audit'
      PROVE  e \in audit \/ e.decision # "blocked" \/
             \E c \in Call : AuditRefusal(c) /\ e.call = c
  <2>1. ASSUME NEW c \in Call, AuditVerdict(c) PROVE e \in audit \/ e.decision # "blocked"
    BY <1>8, <2>1 DEF AuditVerdict, RecordEvent, Overall
  <2>2. ASSUME NEW c \in Call, AuditRefusal(c) PROVE e \in audit \/ e.call = c
    BY <1>8, <2>2 DEF AuditRefusal, RecordEvent
  <2> QED BY <1>1, <1>2, <1>3, <1>8, <2>1, <2>2 DEF Next
<1> QED
  BY <1>4, <1>5, <1>6, <1>7, <1>8

\* Where a call that has just moved comes from.
LEMMA Entries ==
    ASSUME TypeOK, [Next]_vars, NEW d \in Call, pc'[d] # pc[d]
    PROVE  /\ pc'[d] \in Drafting \cup {"audit"} => pc[d] \in Drafting
           /\ pc'[d] = "route" => AuditVerdict(d) /\ NeedsReview(assessment[d])
           /\ pc'[d] = "await" => pc[d] = "route"
           /\ pc'[d] = "store" =>
                 Settles(d) \/ (AuditVerdict(d) /\ ~NeedsReview(assessment[d]))
           /\ pc'[d] = "export" => Put(d)
           /\ pc'[d] = "done" => pc[d] = "export"
<1>1. CallStep(d) \/ pc'[d] = "lost"
  BY CallCauses
<1>2. CASE pc'[d] = "lost"
  BY <1>2 DEF Drafting, Screens
<1>3. CASE Settles(d)
  <2>1. pc' = [pc EXCEPT ![d] = "store"]
    BY <1>3 DEF Settles, RouteOff, RouteLocally, RouteRaises, SubmitReturns, Answer, Goto
  <2> QED BY <1>3, <2>1 DEF TypeOK, Drafting, Screens
<1>4. CASE AuditVerdict(d)
  BY <1>4 DEF AuditVerdict, TypeOK, Goto, Drafting, Screens
<1>5. CASE ScreenAllows(d)
  BY <1>5 DEF ScreenAllows, AfterScreen, TypeOK, Goto, Drafting, Screens
<1>6. CASE Put(d) \/ Export(d) \/ Submit(d)
  BY <1>6 DEF Put, Export, Submit, TypeOK, Goto, Drafting, Screens
<1>7. CASE Evaluate(d) \/ ScreenRefuses(d) \/ Narrate(d) \/ AuditRefusal(d)
  BY <1>7 DEF Evaluate, ScreenRefuses, Narrate, AuditRefusal, TypeOK, Goto,
     Drafting, Screens
<1>8. CASE EvaluateRaises(d) \/ AuditRaises(d) \/ KeepRaises(d)
  BY <1>8 DEF EvaluateRaises, AuditRaises, KeepRaises, Raise, TypeOK, Goto,
     Drafting, Screens
<1> QED BY <1>1, <1>2, <1>3, <1>4, <1>5, <1>6, <1>7, <1>8 DEF CallStep, Settles

-----------------------------------------------------------------------------
(* IInv is inductive: what is recorded.                                    *)

LEMMA VerdictIsRecorded ==
    ASSUME NEW c \in Call, AuditVerdict(c) PROVE Decided(assessment[c])'
<1> DEFINE e == [call |-> c, id |-> assessment[c], decision |-> Overall(assessment[c])]
<1>1. e \in audit' /\ assessment' = assessment
  BY DEF AuditVerdict, RecordEvent, givenVars
<1>2. e.id = assessment[c] /\ e.decision = Overall(assessment[c])
  OBVIOUS
<1> HIDE DEF e
<1> QED BY <1>1, <1>2 DEF Decided, Overall, NeedsReview

LEMMA SentStep ==
    ASSUME Durable, IInv, [Next]_vars PROVE OnlyDecidedIsSent'
<1> SUFFICES ASSUME NEW d \in Call, pc'[d] \in {"route", "await"} \/ d \in wire'
             PROVE  NeedsReview(assessment[d])' /\ Decided(assessment[d])'
  BY DEF OnlyDecidedIsSent
<1> USE DEF IInv
<1>1. CASE pc[d] \in {"route", "await"} \/ d \in wire
  <2>1. NeedsReview(assessment[d]) /\ Decided(assessment[d])
    BY <1>1 DEF OnlyDecidedIsSent
  <2> QED BY <2>1, Growth, RecordStays DEF NeedsReview, Decided
<1>2. CASE AuditVerdict(d) /\ NeedsReview(assessment[d])
  BY <1>2, VerdictIsRecorded DEF AuditVerdict, NeedsReview, givenVars
<1>3. d \in wire' /\ d \notin wire => pc[d] = "route"
  BY CallCauses DEF Submit
<1>4. ASSUME pc'[d] \in {"route", "await"}, pc'[d] # pc[d]
      PROVE  pc[d] = "route" \/ (AuditVerdict(d) /\ NeedsReview(assessment[d]))
  BY <1>4, Entries
<1> QED BY <1>1, <1>2, <1>3, <1>4

LEMMA HandedOverStep ==
    ASSUME Durable, IInv, [Next]_vars PROVE HandedOverWasAudited'
<1> USE DEF IInv
<1> SUFFICES ASSUME NEW a \in console' \cup outbox'
             PROVE  NeedsReview(a)' /\ Decided(a)'
  BY DEF HandedOverWasAudited
<1>1. NeedsReview(a) /\ Decided(a)
  <2>1. CASE a \in console \cup outbox
    BY <2>1 DEF HandedOverWasAudited
  <2>2. CASE \E c \in Call : (pc[c] = "route" \/ c \in wire) /\ a = assessment[c]
    BY <2>2 DEF OnlyDecidedIsSent
  <2> QED BY <2>1, <2>2, RecordCauses DEF TypeOK
<1> QED BY <1>1, RecordStays DEF NeedsReview

LEMMA KeptStep ==
    ASSUME Durable, IInv, [Next]_vars PROVE KeptWasAudited'
<1> USE DEF IInv
<1> SUFFICES ASSUME NEW kept \in stored' \cup warehouse' PROVE Decided(kept.id)'
  BY DEF KeptWasAudited
<1>1. Decided(kept.id)
  <2>1. CASE kept \in stored \cup warehouse
    BY <2>1 DEF KeptWasAudited
  <2>2. CASE \E c \in Call : pc[c] \in {"store", "export"} /\ kept.id = assessment[c]
    BY <2>2 DEF RoutedIsTrue, Routed
  <2>3. ASSUME NEW c \in Call, Put(c), kept = RecordOf(c)
        PROVE  pc[c] \in {"store", "export"} /\ kept.id = assessment[c]
    BY <2>3 DEF Put, RecordOf
  <2> QED BY <2>1, <2>2, <2>3, RecordCauses
<1> QED BY <1>1, RecordStays

-----------------------------------------------------------------------------
(* IInv is inductive: what a caller is told of its hand-off.               *)

LEMMA SilentStep ==
    ASSUME Durable, IInv, [Next]_vars PROVE UnroutedIsSilent'
<1> USE DEF IInv
<1> SUFFICES ASSUME NEW d \in Call, pc'[d] \in Unrouted
             PROVE  routing'[d] = "not_required" /\ review_ref'[d] = ""
  BY DEF UnroutedIsSilent
<1>1. Settles(d) => pc'[d] = "store"
  BY DEF Settles, RouteOff, RouteLocally, RouteRaises, SubmitReturns, Answer, Goto, TypeOK
<1>2. ~Settles(d)
  BY <1>1 DEF Unrouted, Drafting, Screens
<1>3. pc[d] \in Unrouted
  BY Entries DEF Unrouted, AuditVerdict, Drafting, Screens
<1> QED BY <1>2, <1>3, CallCauses DEF UnroutedIsSilent

LEMMA RepliesStep ==
    ASSUME Durable, IInv, [Next]_vars PROVE RepliesAreTrue'
<1> USE DEF IInv
<1> SUFFICES ASSUME NEW d \in Call, d \in replies' PROVE assessment'[d] \in console'
  BY TypeStep DEF RepliesAreTrue, TypeOK
<1>1. CASE d \in replies
  BY <1>1, Growth DEF RepliesAreTrue
<1>2. CASE ConsoleTakes(d)
  BY <1>2, Growth DEF ConsoleTakes
<1> QED BY <1>1, <1>2, CallCauses

\* The routing of one call, once settled.
TrueOf(c) ==
    /\ Decided(assessment[c])
    /\ routing[c] = "routed" <=> review_ref[c] # ""
    /\ Held(assessment[c], review_ref[c])
    /\ routing[c] = "off" => router = "off"
    /\ routing[c] = "not_required" <=> ~NeedsReview(assessment[c])

\* Each way of settling tells the truth.
LEMMA SettlingIsTrue ==
    ASSUME Durable, IInv, [Next]_vars, NEW d \in Call, Settles(d) PROVE TrueOf(d)'
<1> USE DEF IInv, TypeOK, givenVars
<1>1. NeedsReview(assessment[d]) /\ Decided(assessment[d])
  BY DEF Settles, RouteOff, RouteLocally, RouteRaises, SubmitReturns, OnlyDecidedIsSent
<1>2. /\ assessment' = assessment /\ router' = router
      /\ NeedsReview(assessment[d])' /\ Decided(assessment[d])'
  BY <1>1, Growth, RecordStays DEF NeedsReview, Decided
<1>3. CASE RouteOff(d) \/ RouteRaises(d)
  BY <1>2, <1>3 DEF RouteOff, RouteRaises, Answer, TrueOf, Held
<1>4. CASE RouteLocally(d)
  <2>1. routing'[d] = "routed" /\ review_ref'[d] = "outbox" /\ assessment[d] \in outbox'
    BY <1>4 DEF RouteLocally, Answer
  <2> QED BY <1>2, <2>1 DEF TrueOf, Held
<1>5. CASE SubmitReturns(d)
  <2>1. routing'[d] = "routed" /\ review_ref'[d] = "console" /\ assessment[d] \in console'
    BY <1>5 DEF SubmitReturns, Answer, RepliesAreTrue, reviewVars
  <2> QED BY <1>2, <2>1 DEF TrueOf, Held
<1> QED BY <1>3, <1>4, <1>5 DEF Settles

LEMMA RoutedStep ==
    ASSUME Durable, IInv, [Next]_vars PROVE RoutedIsTrue'
<1> USE DEF IInv
<1> SUFFICES ASSUME NEW d \in Call, pc'[d] \in Routed PROVE TrueOf(d)'
  BY DEF RoutedIsTrue, TrueOf
<1>1. CASE Settles(d)
  BY <1>1, SettlingIsTrue
<1>2. ASSUME ~Settles(d), TrueOf(d) PROVE TrueOf(d)'
  <2>1. /\ routing'[d] = routing[d] /\ review_ref'[d] = review_ref[d]
        /\ assessment' = assessment /\ router' = router
    BY <1>2, CallCauses, Growth
  <2>2. Decided(assessment[d])' /\ Held(assessment[d], review_ref[d])'
    BY <1>2, <2>1, RecordStays DEF TrueOf, Decided, Held
  <2> QED BY <1>2, <2>1, <2>2 DEF TrueOf, NeedsReview
<1>3. CASE pc[d] \in Routed
  BY <1>1, <1>2, <1>3 DEF RoutedIsTrue, TrueOf
<1>4. CASE AuditVerdict(d) /\ ~NeedsReview(assessment[d])
  <2>1. /\ routing'[d] = "not_required" /\ review_ref'[d] = ""
        /\ assessment' = assessment
    BY <1>4 DEF AuditVerdict, UnroutedIsSilent, Unrouted, answerVars, givenVars
  <2>2. Decided(assessment[d])'
    BY <1>4, VerdictIsRecorded
  <2> QED BY <1>4, <2>1, <2>2 DEF TrueOf, Held, NeedsReview
<1>5. pc[d] \in Routed \/ Settles(d) \/ (AuditVerdict(d) /\ ~NeedsReview(assessment[d]))
  BY Entries DEF Routed, Put
<1> QED BY <1>1, <1>3, <1>4, <1>5

LEMMA ReferencesStep ==
    ASSUME Durable, IInv, [Next]_vars PROVE ReferencesNameReviews'
<1> USE DEF IInv
<1> SUFFICES ASSUME NEW kept \in stored' \cup warehouse'
             PROVE  Held(kept.id, kept.review_ref)'
  BY DEF ReferencesNameReviews
<1>1. Held(kept.id, kept.review_ref)
  <2>1. CASE kept \in stored \cup warehouse
    BY <2>1 DEF ReferencesNameReviews
  <2>2. CASE \E c \in Call : /\ pc[c] \in {"store", "export"}
                             /\ kept.id = assessment[c]
                             /\ kept.review_ref = review_ref[c]
    BY <2>2 DEF RoutedIsTrue, Routed
  <2>3. ASSUME NEW c \in Call, Put(c), kept = RecordOf(c)
        PROVE  /\ pc[c] \in {"store", "export"}
               /\ kept.id = assessment[c] /\ kept.review_ref = review_ref[c]
    BY <2>3 DEF Put, RecordOf
  <2> QED BY <2>1, <2>2, <2>3, RecordCauses
<1> QED BY <1>1, RecordStays

\* A stored escalation has a routing attempt behind it: only settling changes
\* a routing, and never back to "not_required".
LEMMA VisibleStep ==
    ASSUME Durable, IInv, [Next]_vars PROVE VisibleAfterRouting'
<1> USE DEF IInv
<1> SUFFICES ASSUME NEW r \in stored', NeedsReview(r.id)
             PROVE  \E c \in Call : assessment'[c] = r.id /\ routing'[c] # "not_required"
  BY DEF VisibleAfterRouting, NeedsReview
<1>1. PICK c \in Call : assessment[c] = r.id /\ routing[c] # "not_required"
  <2>1. CASE r \in stored
    BY <2>1 DEF VisibleAfterRouting
  <2>2. ASSUME NEW c \in Call, Put(c), r = RecordOf(c)
        PROVE  assessment[c] = r.id /\ routing[c] # "not_required"
    BY <2>2 DEF Put, RecordOf, RoutedIsTrue, Routed
  <2> QED BY <2>1, <2>2, RecordCauses
<1>2. Settles(c) => routing'[c] # "not_required"
  BY DEF Settles, RouteOff, RouteLocally, RouteRaises, SubmitReturns, Answer, TypeOK
<1> QED BY <1>1, <1>2, CallCauses, Growth

-----------------------------------------------------------------------------
(* IInv is inductive: the narration and the store.                         *)

\* A refusal is new only to a call that is still screening its texts.
LEMMA NewRefusal ==
    ASSUME TypeOK, [Next]_vars, NEW c \in Call, RefusedTo(c)', ~RefusedTo(c)
    PROVE  AuditRefusal(c)
BY RecordCauses DEF RefusedTo

LEMMA DraftStep ==
    ASSUME Durable, IInv, [Next]_vars PROVE DraftIsOpen'
<1> USE DEF IInv
<1> SUFFICES ASSUME NEW d \in Call, pc'[d] \in Drafting
             PROVE  narration'[d] = "fallback" /\ ~RefusedTo(d)'
  BY DEF DraftIsOpen, RefusedTo
<1>1. pc[d] \in Drafting /\ narration[d] = "fallback" /\ ~RefusedTo(d)
  BY Entries DEF DraftIsOpen
<1>2. ~AuditRefusal(d)
  BY DEF AuditRefusal, Goto, TypeOK, Drafting, Screens
<1>3. ~(ScreenAllows(d) /\ pc[d] = "body")
  BY DEF ScreenAllows, AfterScreen, Goto, TypeOK, Drafting, Screens
<1> QED BY <1>1, <1>2, <1>3, NewRefusal, CallCauses

\* A call whose draft stands has screened all its texts and refused none.
LEMMA RefusedDraftStep ==
    ASSUME Durable, IInv, [Next]_vars PROVE RefusedDraftNeverStands'
<1> USE DEF IInv
<1>1. ASSUME NEW c \in Call, RefusedTo(c)' PROVE narration'[c] = "fallback"
  <2>1. narration[c] = "fallback"
    BY <1>1, NewRefusal DEF RefusedDraftNeverStands, DraftIsOpen, AuditRefusal, Drafting
  <2>2. ~(ScreenAllows(c) /\ pc[c] = "body")
    <3>1. CASE RefusedTo(c)
      BY <3>1 DEF DraftIsOpen, Drafting, Screens
    <3>2. CASE AuditRefusal(c)
      BY <3>2 DEF AuditRefusal
    <3> QED BY <1>1, <3>1, <3>2, NewRefusal
  <2> QED BY <2>1, <2>2, CallCauses
<1>2. ASSUME NEW r \in stored', r.narration = "draft"
      PROVE  \E c \in Call : /\ assessment'[c] = r.id
                             /\ narration'[c] = "draft"
                             /\ ~RefusedTo(c)'
  <2>1. PICK c \in Call : assessment[c] = r.id /\ narration[c] = "draft" /\ ~RefusedTo(c)
    <3>1. CASE r \in stored
      BY <1>2, <3>1 DEF RefusedDraftNeverStands
    <3>2. ASSUME NEW c \in Call, r = RecordOf(c)
          PROVE  assessment[c] = r.id /\ narration[c] = "draft" /\ ~RefusedTo(c)
      BY <1>2, <3>2 DEF RecordOf, RefusedDraftNeverStands
    <3> QED BY <3>1, <3>2, RecordCauses
  <2>2. pc[c] \notin Drafting
    BY <2>1 DEF DraftIsOpen
  <2>3. narration'[c] = narration[c]
    BY <2>2, CallCauses DEF Drafting, Screens
  <2>4. ~RefusedTo(c)'
    BY <2>1, <2>2, NewRefusal DEF AuditRefusal, Drafting
  <2> QED BY <2>1, <2>3, <2>4, Growth
<1> QED BY <1>1, <1>2 DEF RefusedDraftNeverStands, RefusedTo

LEMMA StoreStep ==
    ASSUME Durable, IInv, [Next]_vars PROVE ExportingIsStored' /\ ExportedIsStored'
<1> USE DEF IInv
<1>1. ASSUME NEW d \in Call, pc'[d] = "export"
      PROVE  \E r \in stored' : r.id = assessment'[d]
  <2>1. CASE Put(d)
    <3>1. RecordOf(d) \in stored' /\ RecordOf(d).id = assessment[d]
      BY <2>1 DEF Put, RecordOf
    <3> QED BY <3>1, Growth
  <2>2. CASE pc[d] = "export"
    BY <2>2, Growth DEF ExportingIsStored
  <2> QED BY <1>1, <2>1, <2>2, Entries
<1>2. ASSUME NEW row \in warehouse'
      PROVE  \E r \in stored' : r.id = row.id
  <2>1. PICK r \in stored : r.id = row.id
    BY RecordCauses DEF ExportedIsStored, ExportingIsStored
  <2> QED BY <2>1, Growth
<1> QED BY <1>1, <1>2 DEF ExportingIsStored, ExportedIsStored

-----------------------------------------------------------------------------
LEMMA InvInit == Init => IInv
<1> SUFFICES ASSUME Init PROVE IInv
  OBVIOUS
<1>1. TypeOK
  BY TypeInit
<1>2. \A c \in Call : pc[c] = "idle"
  BY DEF Init
<1>3. DraftIsOpen /\ UnroutedIsSilent
  BY DEF Init, DraftIsOpen, UnroutedIsSilent, RefusedTo
<1>4. OnlyDecidedIsSent /\ RepliesAreTrue /\ RoutedIsTrue /\ ExportingIsStored
  BY <1>2 DEF Init, OnlyDecidedIsSent, RepliesAreTrue, RoutedIsTrue, Routed,
     ExportingIsStored
<1>5. /\ HandedOverWasAudited /\ KeptWasAudited /\ ExportedIsStored
      /\ ReferencesNameReviews /\ VisibleAfterRouting /\ RefusedDraftNeverStands
  BY DEF Init, HandedOverWasAudited, KeptWasAudited, ExportedIsStored,
     ReferencesNameReviews, VisibleAfterRouting, RefusedDraftNeverStands, RefusedTo
<1> QED BY <1>1, <1>3, <1>4, <1>5 DEF IInv

LEMMA InvStep == ASSUME Durable PROVE IInv /\ [Next]_vars => IInv'
<1> SUFFICES ASSUME IInv, [Next]_vars PROVE IInv'
  OBVIOUS
<1>1. TypeOK'
  BY TypeStep DEF IInv
<1> QED
  BY <1>1, SentStep, HandedOverStep, KeptStep, SilentStep, RepliesStep, RoutedStep,
     ReferencesStep, VisibleStep, DraftStep, RefusedDraftStep, StoreStep DEF IInv

LEMMA Invariance == ASSUME Durable PROVE Spec => []IInv
<1>1. IInv /\ [Next]_vars => IInv'
  BY InvStep
<1> QED BY InvInit, <1>1, PTL DEF Spec

\* Nothing reaches a reviewer that the trail does not show as escalated, in
\* whatever order submissions arrive, calls fail and the process restarts.
THEOREM HandedOverIsAudited == ASSUME Durable PROVE Spec => []HandedOverWasAudited
<1>1. IInv => HandedOverWasAudited
  BY DEF IInv
<1> QED BY Invariance, <1>1, PTL

\* Nothing is stored or exported whose verdict is not in the trail.
THEOREM KeptIsAudited == ASSUME Durable PROVE Spec => []KeptWasAudited
<1>1. IInv => KeptWasAudited
  BY DEF IInv
<1> QED BY Invariance, <1>1, PTL

\* Every review reference that was stored or exported is that of a review the
\* console holds or a local outbox has held, before a restart or since.  It does
\* not say that an outbox still holds it: none does after a restart.
THEOREM ReferencesAlwaysNameReviews == ASSUME Durable PROVE Spec => []ReferencesNameReviews
<1>1. IInv => ReferencesNameReviews
  BY DEF IInv
<1> QED BY Invariance, <1>1, PTL

\* What a caller is told of its hand-off was so when it was told: "routed" comes
\* of a review that was made.  (A review in the local outbox ends with the
\* process, and the answer cannot take that back.)
THEOREM AnswersAreTrue == ASSUME Durable PROVE Spec => []AnswerIsTrue
<1>1. IInv => AnswerIsTrue
  BY DEF IInv, RoutedIsTrue, Routed, AnswerIsTrue
<1> QED BY Invariance, <1>1, PTL

\* The warehouse is never ahead of the store, and no escalation is stored
\* before its routing was tried.
THEOREM StoreIsInOrder ==
    ASSUME Durable PROVE Spec => [](ExportedIsStored /\ VisibleAfterRouting)
<1>1. IInv => ExportedIsStored /\ VisibleAfterRouting
  BY DEF IInv
<1> QED BY Invariance, <1>1, PTL

\* No part of a draft stands after a screen refused it.
THEOREM RefusedDraftsNeverStand == ASSUME Durable PROVE Spec => []RefusedDraftNeverStands
<1>1. IInv => RefusedDraftNeverStands
  BY DEF IInv
<1> QED BY Invariance, <1>1, PTL

-----------------------------------------------------------------------------
(* The promise of rule R8.  Beyond IInv the mapping needs two facts that   *)
(* no property states: that a call's OWN verdict is on record once it may *)
(* be acted on, and that what it was routed to still holds its review      *)
(* until the caller is told.                                               *)

Recorded == {c \in Call : \E e \in audit : e.call = c /\ e.decision # "blocked"}
Told == [c \in Call |-> Answered(c)]

OwnVerdictIsRecorded ==
    \A c \in Call :
        pc[c] \in {"route", "await", "store", "export"} \/ c \in wire => c \in Recorded

RoutedIsHeld ==
    \A c \in Call : pc[c] \in {"store", "export"} /\ routing[c] = "routed" =>
        assessment[c] \in console \cup outbox

PInv == IInv /\ OwnVerdictIsRecorded /\ RoutedIsHeld

-----------------------------------------------------------------------------
(* PInv is inductive.                                                      *)

LEMMA RecordedStays ==
    ASSUME Durable, TypeOK, [Next]_vars PROVE Recorded \subseteq Recorded'
BY Growth DEF Recorded

LEMMA OwnVerdict ==
    ASSUME NEW c \in Call, AuditVerdict(c) PROVE c \in Recorded'
<1> DEFINE e == [call |-> c, id |-> assessment[c], decision |-> Overall(assessment[c])]
<1>1. e \in audit'
  BY DEF AuditVerdict, RecordEvent
<1>2. e.call = c /\ e.decision # "blocked"
  BY DEF Overall
<1> HIDE DEF e
<1> QED BY <1>1, <1>2 DEF Recorded

LEMMA OwnVerdictStep ==
    ASSUME Durable, PInv, [Next]_vars PROVE OwnVerdictIsRecorded'
<1> USE DEF PInv, IInv
<1> SUFFICES ASSUME NEW d \in Call,
                    pc'[d] \in {"route", "await", "store", "export"} \/ d \in wire'
             PROVE  d \in Recorded'
  BY DEF OwnVerdictIsRecorded
<1>1. CASE pc[d] \in {"route", "await", "store", "export"} \/ d \in wire
  BY <1>1, RecordedStays DEF OwnVerdictIsRecorded
<1>2. CASE AuditVerdict(d)
  BY <1>2, OwnVerdict
<1>3. d \in wire' /\ d \notin wire => pc[d] = "route"
  BY CallCauses DEF Submit
<1>4. Settles(d) => pc[d] \in {"route", "await"}
  BY DEF Settles, RouteOff, RouteLocally, RouteRaises, SubmitReturns
<1>5. Put(d) => pc[d] = "store"
  BY DEF Put
<1>6. ASSUME pc'[d] \in {"route", "await", "store", "export"}, pc'[d] # pc[d]
      PROVE  pc[d] \in {"route", "await", "store"} \/ AuditVerdict(d)
  BY <1>4, <1>5, <1>6, Entries
<1> QED BY <1>1, <1>2, <1>3, <1>6

\* The local outbox is emptied by a restart alone, which loses the calls too.
LEMMA OutboxStays ==
    ASSUME Durable, TypeOK, [Next]_vars,
           NEW d \in Call, pc'[d] \in {"store", "export"}
    PROVE  outbox \subseteq outbox'
<1>1. ASSUME Restart PROVE FALSE
  BY <1>1 DEF Restart, TypeOK, Working, Screens
<1>2. ASSUME NEW c \in Call, CallStep(c) PROVE outbox \subseteq outbox'
  BY <1>2 DEF CallStep, Evaluate, EvaluateRaises, AuditRaises, KeepRaises, Raise,
     ScreenAllows, ScreenRefuses, Narrate, AuditRefusal, AuditVerdict, RouteOff,
     RouteLocally, Submit, RouteRaises, SubmitReturns, Put, Export, reviewVars
<1>3. ASSUME NEW c \in Call, ConsoleTakes(c) \/ SubmissionLost(c) PROVE outbox' = outbox
  BY <1>3 DEF ConsoleTakes, SubmissionLost
<1>4. CASE UNCHANGED vars
  BY <1>4 DEF vars
<1> QED BY <1>1, <1>2, <1>3, <1>4 DEF Next

LEMMA RoutedIsHeldStep ==
    ASSUME Durable, PInv, [Next]_vars PROVE RoutedIsHeld'
<1> USE DEF PInv, IInv
<1> SUFFICES ASSUME NEW d \in Call, pc'[d] \in {"store", "export"}, routing'[d] = "routed"
             PROVE  assessment'[d] \in console' \cup outbox'
  BY DEF RoutedIsHeld
<1>1. /\ assessment' = assessment /\ console \subseteq console' /\ outbox \subseteq outbox'
  BY Growth, OutboxStays
<1>2. CASE RouteOff(d) \/ RouteRaises(d)
  BY <1>2 DEF RouteOff, RouteRaises, Answer, TypeOK
<1>3. CASE RouteLocally(d)
  BY <1>1, <1>3 DEF RouteLocally
<1>4. CASE SubmitReturns(d)
  BY <1>1, <1>4 DEF SubmitReturns, RepliesAreTrue
<1>5. CASE ~Settles(d)
  <2>1. routing[d] = "routed"
    BY <1>5, CallCauses
  <2>2. pc[d] \in {"store", "export"}
    <3>1. AuditVerdict(d) => pc[d] \in Unrouted
      BY DEF AuditVerdict, Unrouted
    <3>2. Put(d) => pc[d] = "store"
      BY DEF Put
    <3> QED BY <1>5, <2>1, <3>1, <3>2, Entries DEF UnroutedIsSilent
  <2> QED BY <1>1, <2>1, <2>2 DEF RoutedIsHeld
<1> QED BY <1>2, <1>3, <1>4, <1>5 DEF Settles

LEMMA PromiseInvariance == ASSUME Durable PROVE Spec => []PInv
<1>1. Init => PInv
  BY InvInit DEF Init, PInv, OwnVerdictIsRecorded, RoutedIsHeld
<1>2. PInv /\ [Next]_vars => PInv'
  BY InvStep, OwnVerdictStep, RoutedIsHeldStep DEF PInv
<1> QED BY <1>1, <1>2, PTL DEF Spec

-----------------------------------------------------------------------------
(* Every step maps to a step of the promise, or to none.                   *)

\* A step that records no verdict, hands nothing over and answers nobody.
LEMMA Stutters ==
    ASSUME assessment' = assessment, Recorded' = Recorded,
           console' = console, outbox' = outbox, Told' = Told
    PROVE  UNCHANGED Promise!promiseVars
BY DEF Promise!promiseVars, Recorded, Told

\* Only the call that steps may be answered, and only if it has ended.
LEMMA AnswerOfOne ==
    ASSUME TypeOK, NEW c \in Call, NEW step, pc' = [pc EXCEPT ![c] = step],
           \A d \in Call : d # c => routing'[d] = routing[d]
    PROVE  Told' = [Told EXCEPT ![c] = Answered(c)']
<1>1. ASSUME NEW d \in Call, d # c PROVE Answered(d)' = Answered(d)
  BY <1>1 DEF Answered, TypeOK
<1> QED BY <1>1 DEF Told

LEMMA QuietAnswer ==
    ASSUME TypeOK, NEW c \in Call, NEW step, pc' = [pc EXCEPT ![c] = step],
           pc[c] \notin Ended, step \notin Ended,
           \A d \in Call : d # c => routing'[d] = routing[d]
    PROVE  Told' = Told
<1>1. Answered(c) = "none" /\ Answered(c)' = "none"
  BY DEF Answered, Ended, TypeOK
<1> QED BY <1>1, AnswerOfOne DEF Told

LEMMA CallMaps ==
    ASSUME Durable, PInv, PInv', NEW c \in Call, CallStep(c)
    PROVE  Promise!PromiseNext \/ UNCHANGED Promise!promiseVars
<1> USE DEF PInv, IInv
<1> DEFINE Quiet == UNCHANGED Promise!promiseVars
<1>1. ASSUME pc[c] \notin Ended PROVE Told[c] = "none"
  BY <1>1 DEF Told, Answered, Ended
<1>2. CASE Evaluate(c) \/ ScreenRefuses(c) \/ Narrate(c)
  <2>1. PICK step \in {"tenant", "refused", "headline", "audit"} :
           /\ pc' = [pc EXCEPT ![c] = step] /\ pc[c] \notin Ended
           /\ UNCHANGED <<givenVars, answerVars, reviewVars, audit>>
    BY <1>2 DEF Evaluate, ScreenRefuses, Narrate, Goto, Screens, Ended
  <2>2. Told' = Told
    BY <2>1, QuietAnswer DEF Ended, answerVars
  <2> QED BY <2>1, <2>2, Stutters DEF givenVars, reviewVars, Recorded
<1>3. CASE ScreenAllows(c)
  <2>1. PICK step \in {"prompt", "narrate", "body", "audit"} :
           /\ pc' = [pc EXCEPT ![c] = step] /\ pc[c] \notin Ended
           /\ UNCHANGED <<givenVars, answerVars, reviewVars, audit>>
    BY <1>3 DEF ScreenAllows, AfterScreen, Goto, Screens, Ended
  <2>2. Told' = Told
    BY <2>1, QuietAnswer DEF Ended, answerVars
  <2> QED BY <2>1, <2>2, Stutters DEF givenVars, reviewVars, Recorded
<1>4. CASE AuditRefusal(c)
  <2> DEFINE e == [call |-> c, id |-> assessment[c], decision |-> "blocked"]
  <2>1. audit' = audit \cup {e} /\ e.decision = "blocked"
    BY <1>4 DEF AuditRefusal, RecordEvent
  <2> HIDE DEF e
  <2>2. Recorded' = Recorded
    BY <2>1 DEF Recorded
  <2>3. Told' = Told
    BY <1>4, QuietAnswer DEF AuditRefusal, Goto, Ended, answerVars
  <2> QED BY <1>4, <2>2, <2>3, Stutters DEF AuditRefusal, givenVars, reviewVars
<1>5. CASE AuditVerdict(c)
  <2> DEFINE e == [call |-> c, id |-> assessment[c], decision |-> Overall(assessment[c])]
  <2>1. audit' = audit \cup {e} /\ e.decision # "blocked" /\ e.call = c
    BY <1>5 DEF AuditVerdict, RecordEvent, Overall
  <2> HIDE DEF e
  <2>2. Recorded' = Recorded \cup {c}
    BY <2>1 DEF Recorded
  <2>3. pc[c] = "audit" /\ Told' = Told
    BY <1>5, QuietAnswer DEF AuditVerdict, Goto, Ended, answerVars
  <2>4. Promise!RecordVerdict(c)
    BY <1>1, <1>5, <2>2, <2>3
       DEF Promise!RecordVerdict, AuditVerdict, givenVars, reviewVars, Recorded, Told, Ended
  <2> QED BY <2>4 DEF Promise!PromiseNext
<1>6. CASE EvaluateRaises(c) \/ AuditRaises(c) \/ KeepRaises(c)
  <2>1. /\ pc' = [pc EXCEPT ![c] = "error"] /\ pc[c] \notin Ended
        /\ UNCHANGED <<givenVars, answerVars, reviewVars, audit>>
    BY <1>6 DEF EvaluateRaises, AuditRaises, KeepRaises, Raise, Goto, Ended
  <2>2. Answered(c)' = "gone"
    BY <2>1 DEF Answered, TypeOK
  <2>3. Told' = [Told EXCEPT ![c] = "gone"]
    BY <2>1, <2>2, AnswerOfOne DEF answerVars
  <2>4. Promise!Abandon(c)
    BY <1>1, <2>1, <2>3 DEF Promise!Abandon, givenVars, reviewVars, Recorded, Told
  <2> QED BY <2>4 DEF Promise!PromiseNext
<1>7. CASE RouteOff(c) \/ RouteRaises(c) \/ SubmitReturns(c)
  <2>1. /\ pc' = [pc EXCEPT ![c] = "store"] /\ pc[c] \notin Ended
        /\ \A d \in Call : d # c => routing'[d] = routing[d]
        /\ UNCHANGED <<givenVars, reviewVars, audit>>
    BY <1>7 DEF RouteOff, RouteRaises, SubmitReturns, Answer, Goto, Ended, TypeOK
  <2>2. Told' = Told
    BY <2>1, QuietAnswer DEF Ended
  <2> QED BY <2>1, <2>2, Stutters DEF givenVars, reviewVars, Recorded
<1>8. CASE RouteLocally(c)
  <2>1. /\ pc' = [pc EXCEPT ![c] = "store"] /\ pc[c] = "route"
        /\ \A d \in Call : d # c => routing'[d] = routing[d]
        /\ UNCHANGED <<givenVars, audit, console>> /\ outbox' = outbox \cup {assessment[c]}
    BY <1>8 DEF RouteLocally, Answer, Goto, TypeOK
  <2>2. Told' = Told
    BY <2>1, QuietAnswer DEF Ended
  <2>3. c \in Recorded /\ assessment[c] \in {a \in Assessment : NeedsReview(a)}
    BY <2>1 DEF OwnVerdictIsRecorded, OnlyDecidedIsSent, TypeOK
  <2>4. Promise!HandOver(c)
    BY <2>1, <2>2, <2>3 DEF Promise!HandOver, givenVars, Recorded, Told
  <2> QED BY <2>4 DEF Promise!PromiseNext
<1>9. CASE Submit(c) \/ Put(c)
  <2>1. PICK step \in {"await", "export"} :
           /\ pc' = [pc EXCEPT ![c] = step] /\ pc[c] \notin Ended
           /\ UNCHANGED <<givenVars, answerVars, console, outbox, audit>>
    BY <1>9 DEF Submit, Put, Goto, Ended, reviewVars
  <2>2. Told' = Told
    BY <2>1, QuietAnswer DEF Ended, answerVars
  <2> QED BY <2>1, <2>2, Stutters DEF givenVars, Recorded
<1>10. CASE Export(c)
  <2>1. /\ pc' = [pc EXCEPT ![c] = "done"] /\ pc[c] = "export"
        /\ UNCHANGED <<givenVars, answerVars, reviewVars, audit>>
    BY <1>10 DEF Export, Goto
  <2>2. Answered(c)' = routing[c]
    BY <2>1 DEF Answered, TypeOK, answerVars
  <2>3. Told' = [Told EXCEPT ![c] = routing[c]]
    BY <2>1, <2>2, AnswerOfOne DEF answerVars
  <2>4. /\ routing[c] \in Promise!Answers \ {"none", "gone"}
        /\ c \in Recorded
        /\ routing[c] = "not_required" <=> assessment[c] \notin {a \in Assessment : NeedsReview(a)}
        /\ routing[c] = "routed" => assessment[c] \in console \cup outbox
    BY <2>1 DEF TypeOK, Routings, Promise!Answers, OwnVerdictIsRecorded, RoutedIsTrue,
       Routed, RoutedIsHeld
  <2>5. Promise!Tell(c, routing[c])
    BY <1>1, <2>1, <2>3, <2>4
       DEF Promise!Tell, givenVars, reviewVars, Recorded, Told, Ended
  <2> QED BY <2>4, <2>5 DEF Promise!PromiseNext
<1> QED
  BY <1>2, <1>3, <1>4, <1>5, <1>6, <1>7, <1>8, <1>9, <1>10 DEF CallStep

\* The console takes a submission, whatever has become of its caller.
LEMMA DeliveryMaps ==
    ASSUME Durable, PInv, NEW c \in Call, ConsoleTakes(c) \/ SubmissionLost(c)
    PROVE  Promise!PromiseNext \/ UNCHANGED Promise!promiseVars
<1> USE DEF PInv, IInv
<1>1. /\ UNCHANGED <<givenVars, answerVars, pc, audit, outbox>> /\ c \in wire
  BY DEF ConsoleTakes, SubmissionLost
<1>2. Told' = Told /\ Recorded' = Recorded
  BY <1>1 DEF Told, Answered, Recorded, answerVars
<1>3. CASE SubmissionLost(c)
  BY <1>1, <1>2, <1>3, Stutters DEF SubmissionLost, givenVars
<1>4. CASE ConsoleTakes(c)
  <2>1. c \in Recorded /\ assessment[c] \in {a \in Assessment : NeedsReview(a)}
    BY <1>1 DEF OwnVerdictIsRecorded, OnlyDecidedIsSent, TypeOK
  <2>2. Promise!HandOver(c)
    BY <1>1, <1>2, <1>4, <2>1
       DEF ConsoleTakes, Promise!HandOver, givenVars, Recorded, Told
  <2> QED BY <2>2 DEF Promise!PromiseNext
<1> QED BY <1>3, <1>4

\* A restart loses the calls in flight and the outbox, and nothing on record.
LEMMA RestartMaps ==
    ASSUME Durable, PInv, Restart PROVE Promise!PromiseNext
<1> USE DEF PInv, IInv
<1> DEFINE cut == {c \in Call : pc[c] \in Working}
<1>1. \A c \in Call : c \in cut => Told[c] = "none"
  BY DEF Told, Answered, Working, Screens
<1>2. ASSUME NEW c \in Call
      PROVE  Answered(c)' = IF c \in cut THEN "gone" ELSE Told[c]
  BY <1>2 DEF Restart, Told, Answered, TypeOK, answerVars, Working, Screens
<1>3. Told' = [c \in Call |-> IF c \in cut THEN "gone" ELSE Told[c]]
  BY <1>2 DEF Told
<1>4. cut \in SUBSET {c \in Call : Told[c] = "none"}
  BY <1>1
<1>5. /\ assessment' = assessment /\ Recorded' = Recorded
      /\ console' = console /\ outbox' = {}
  BY DEF Restart, Recorded
<1> HIDE DEF cut
<1>6. Promise!LoseProcess
  BY <1>3, <1>4, <1>5 DEF Promise!LoseProcess, Recorded, Told
<1> QED BY <1>6 DEF Promise!PromiseNext

LEMMA StepMaps ==
    ASSUME Durable, PInv, PInv', [Next]_vars
    PROVE  [Promise!PromiseNext]_(Promise!promiseVars)
<1>1. CASE UNCHANGED vars
  <2>1. Told' = Told /\ Recorded' = Recorded
    BY <1>1 DEF vars, Told, Answered, Recorded
  <2> QED BY <1>1, <2>1, Stutters DEF vars
<1> QED BY <1>1, CallMaps, DeliveryMaps, RestartMaps DEF Next

LEMMA InitMaps == Init => Promise!PromiseInit
<1> SUFFICES ASSUME Init PROVE Promise!PromiseInit
  OBVIOUS
<1>1. Recorded = {} /\ Told = [c \in Call |-> "none"]
  BY DEF Init, Recorded, Told, Answered
<1> QED BY <1>1 DEF Init, Promise!PromiseInit, Recorded, Told

\* The service keeps the promise of rule R8: whatever the ports, the network
\* and the process do, a caller and a reviewer see a behaviour of
\* EscalationPromise (AssessmentService.assess, RecordingReviewRouter).
THEOREM PromiseIsKept == ASSUME Durable PROVE Spec => KeepsPromise
<1>1. PInv /\ PInv' /\ [Next]_vars => [Promise!PromiseNext]_(Promise!promiseVars)
  BY StepMaps
<1> QED
  BY InitMaps, PromiseInvariance, <1>1, PTL DEF Spec, KeepsPromise, Promise!PromiseSpec
=============================================================================
