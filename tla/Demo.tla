--------------------------------- MODULE Demo ---------------------------------
(***************************************************************************)
(* The demo and its self-test: one run of eight steps over the real        *)
(* services (scripts/demo.py), the server that holds it behind a lock      *)
(* (scripts/demo_server.py), the page anyone may click, and the            *)
(* walkthrough that drives the server over HTTP, asserts every step and    *)
(* gives a verdict (scripts/walkthrough.py).                               *)
(*                                                                         *)
(* The lock covers a whole step, so a step is one action; a POST and the   *)
(* GET that follows it are two, and the page's clicks come in between.  A  *)
(* step that raises keeps what it did before it raised and does not count  *)
(* as performed.                                                           *)
(*                                                                         *)
(* The audit trail is kept with the decision of each record and the hash   *)
(* that seals it: the decisions of the trail up to it, which two trails    *)
(* share only when they agree that far.                                    *)
(***************************************************************************)
EXTENDS Seed, SequencesExt

CONSTANTS
    Numbers,     \* step numbers a presenter may type
    MaxStarts,   \* bound on runs started
    MaxClicks,   \* bound on clicks on the page
    MaxFaults    \* bound on steps that raise

VARIABLES
    verdicts,    \* tenant -> the results the engine finds breaching in its book
    run,         \* the DemoRun the server holds
    starts,      \* runs started
    walker,      \* the walkthrough
    asserted,    \* <<run, step, whether its check found nothing>>
    clicks,      \* clicks on the page so far
    faults       \* steps that raised so far

vars == <<verdicts, run, starts, walker, asserted, clicks, faults>>

-----------------------------------------------------------------------------
STEP_KEYS == <<"opened", "routine", "escalation", "redaction",
               "review_queue", "audit", "tamper", "portability">>
Step == Range(STEP_KEYS)

\* The cases, and the book each assesses.
CaseOf == [routine    |-> "clean-bank",
           escalation |-> "demo-bank",
           redaction  |-> "pii-bank"]

\* requires_human_review of the assessment of a book.
Escalates(tenant) == verdicts[tenant] # {}

ASSUME NumbersAssumption == Numbers \subseteq Nat
ASSUME BoundsAssumption ==
    MaxStarts \in Nat \ {0} /\ MaxClicks \in Nat /\ MaxFaults \in Nat

-----------------------------------------------------------------------------
(* The hash-chained, anchored trail of the local audit sink. *)

Decisions(rows) == [i \in DOMAIN rows |-> rows[i].decision]

\* record: redacted on the way in, sealed over everything before it.
Recorded(rows, tenant) ==
    LET decision == IF Escalates(tenant) THEN "escalated" ELSE "allowed" IN
    Append(rows, [decision |-> decision,
                  marks    |-> Planted(tenant) \ {"nric"},
                  hash     |-> Append(Decisions(rows), decision)])

\* The rows whose hash does not seal them.
Broken(rows) ==
    {i \in DOMAIN rows :
        rows[i].hash # Append(IF i = 1 THEN <<>> ELSE rows[i - 1].hash, rows[i].decision)}

\* _rewrite_a_record: a middle record becomes an allowed one.
MiddleOf(rows) == Len(rows) \div 2 + 1
Rewritten(rows) == [rows EXCEPT ![MiddleOf(rows)].decision = "allowed"]

-----------------------------------------------------------------------------
(* DemoRun. *)

EXIT_CALLS == {"audit", "identity", "review_router", "tracer", "evaluation",
               "narration", "guardrail", "signal_source", "product_governance",
               "consent", "assessment_store", "warehouse"}
EXIT_ABSENT == {"tracer"}

\* The on-premises placeholders: every one raises but the tracer.
Refuses(port) == port # "tracer"

Opened == [key |-> "opened", profiles |-> {"gcp", "local", "onprem"}]

NewRun == [results |-> <<Opened>>, cases |-> 0, escalated |-> 0, routed |-> 0,
           chain_ok |-> TRUE, outbox |-> <<>>, rows |-> <<>>]

Index(r) == Len(r.results) - 1
Done(r) == Len(r.results) >= Len(STEP_KEYS)
Upcoming(r) == STEP_KEYS[Len(r.results) + 1]

\* AssessmentService.assess on a case: the record, then the review.
HandedOver(r, tenant) ==
    [r EXCEPT !.rows = Recorded(r.rows, tenant),
              !.outbox = IF Escalates(tenant) THEN Append(@, Planted(tenant) \ {"nric"}) ELSE @]

\* Mutant: the case is counted before it is assessed.
CountedFirst(r, tenant) == {r, [r EXCEPT !.cases = @ + 1]}

\* A case that raised half-way: nothing written, or assessed and not counted.
CutShort(r, tenant) == {r, HandedOver(r, tenant)}

\* _assess_panels: the assessment, then the counters.
Assessed(r, tenant) ==
    LET done == HandedOver(r, tenant) IN
    [done EXCEPT !.cases = @ + 1,
                 !.escalated = IF Escalates(tenant) THEN @ + 1 ELSE @,
                 !.routed = IF Escalates(tenant) THEN @ + 1 ELSE @]

\* What each step leaves of the run.
After(r, key) ==
    CASE key \in DOMAIN CaseOf -> Assessed(r, CaseOf[key])
      [] key = "audit"  -> [r EXCEPT !.chain_ok = Broken(r.rows) = {}]
      [] key = "tamper" ->
            LET rows == Rewritten(r.rows) IN
            [r EXCEPT !.rows = rows, !.chain_ok = Broken(rows) = {}]
      [] OTHER -> r

\* What a step may have done when it raises.
HalfDone(r, key) ==
    CASE key \in {"routine", "escalation"} -> CutShort(r, CaseOf[key])
      [] key = "redaction" -> CutShort(r, CaseOf[key]) \cup {After(r, key)}
      [] key = "audit"     -> {r, After(r, key)}
      [] key = "tamper"    -> {r, [r EXCEPT !.rows = Rewritten(@)]}
      [] OTHER -> {r}

\* The facts a step publishes, of the run it left.
Facts(r, key) ==
    CASE key \in DOMAIN CaseOf ->
            [key |-> key, review |-> Escalates(CaseOf[key]),
             ref |-> Escalates(CaseOf[key]), leaked |-> Last(r.rows).marks # {}]
      [] key = "review_queue" ->
            [key |-> key, pending |-> Len(r.outbox),
             leaked |-> \E i \in DOMAIN r.outbox : r.outbox[i] # {}]
      [] key = "audit" ->
            [key |-> key, chain_ok |-> r.chain_ok, entries |-> Len(r.rows)]
      [] key = "tamper" ->
            [key |-> key, chain_ok |-> r.chain_ok,
             detected |-> Broken(r.rows) # {} /\ Min(Broken(r.rows)) = MiddleOf(r.rows)]
      [] key = "portability" ->
            [key |-> key, refused |-> {p \in EXIT_CALLS \ EXIT_ABSENT : Refuses(p)},
             absent |-> {p \in EXIT_ABSENT : ~Refuses(p)}]

Performed(r) ==
    LET key == Upcoming(r)
        left == After(r, key)
    IN  [left EXCEPT !.results = Append(@, Facts(left, key))]

\* The run as the page renders it and the walkthrough asserts it.
State(r) == [start |-> starts, step |-> Last(r.results), index |-> Index(r), done |-> Done(r),
             escalated |-> r.escalated, routed |-> r.routed]

-----------------------------------------------------------------------------
(* The walkthrough. *)

\* CHECKS: the problems it finds in a step it asserts.
Problems(s) ==
    LET f == s.step IN
    CASE f.key = "opened" ->
            IF Cardinality(f.profiles) < 3 THEN {"profiles"} ELSE {}
      [] f.key = "routine" ->
            {p \in {"escalated", "manufactured", "count moved"} :
                CASE p = "escalated"    -> f.review
                  [] p = "manufactured" -> f.ref
                  [] p = "count moved"  -> s.escalated # 0}
      [] f.key = "escalation" ->
            {p \in {"not escalated", "not routed", "counts disagree"} :
                CASE p = "not escalated"   -> ~f.review
                  [] p = "not routed"      -> ~f.ref
                  [] p = "counts disagree" -> s.routed # s.escalated}
      [] f.key = "redaction" ->
            {p \in {"leaked", "not routed"} : IF p = "leaked" THEN f.leaked ELSE ~f.ref}
      [] f.key = "review_queue" ->
            {p \in {"leaked", "queue"} :
                IF p = "leaked" THEN f.leaked ELSE f.pending # s.routed}
      [] f.key = "audit" ->
            {p \in {"chain", "entries"} :
                IF p = "chain" THEN ~f.chain_ok ELSE f.entries < 3}
      [] f.key = "tamper" ->
            {p \in {"not evident", "not named"} :
                IF p = "not evident" THEN f.chain_ok ELSE ~f.detected}
      [] f.key = "portability" ->
            IF f.refused \cup f.absent = EXIT_CALLS THEN {} ELSE {"seams"}

Waiting(auto) == [at |-> "start", target |-> 0, seen |-> {}, failures |-> {}, auto |-> auto,
                  jumped |-> FALSE, verdict |-> "", state |-> State(NewRun)]

Init ==
    /\ verdicts = Breaching
    /\ run = NewRun /\ starts = 1
    /\ \E auto \in BOOLEAN : walker = Waiting(auto)
    /\ asserted = {} /\ clicks = 0 /\ faults = 0

\* The server answers /next: a finished run is left alone.
Advance(raised) ==
    IF Done(run) THEN ~raised /\ UNCHANGED <<run, faults>>
    ELSE IF raised
    THEN /\ faults < MaxFaults
         /\ faults' = faults + 1
         /\ run' \in HalfDone(run, Upcoming(run))
    ELSE run' = Performed(run) /\ UNCHANGED faults

\* The server answers /restart with a new run.
Restart == starts < MaxStarts /\ starts' = starts + 1 /\ run' = NewRun

\* GET /state, at first and after every POST; a jump goes on while it is short
\* of its target.
Short(w) == w.state.index + 1 < w.target /\ ~w.state.done
Get ==
    /\ walker.at \in {"start", "posted"}
    /\ LET heard == [walker EXCEPT !.state = State(run)] IN
       walker' = [heard EXCEPT !.at = IF Short(heard) THEN "jumping" ELSE "check"]
    /\ UNCHANGED <<verdicts, run, starts, asserted, clicks, faults>>

\* Mutant: a finished run is prompted for one more step.
AssertStepOn ==
    /\ walker.at = "check"
    /\ LET key == walker.state.step.key
           problems == Problems(walker.state)
       IN  /\ walker' = [walker EXCEPT !.seen = @ \cup {key},
                                       !.failures = @ \cup {<<key, p>> : p \in problems},
                                       !.at = "prompt"]
           /\ asserted' = asserted \cup {<<walker.state.start, key, problems = {}>>}
    /\ UNCHANGED <<verdicts, run, starts, clicks, faults>>

\* One turn of the loop: the step the snapshot shows is asserted.
AssertStep ==
    /\ walker.at = "check"
    /\ LET key == walker.state.step.key
           problems == Problems(walker.state)
       IN  /\ walker' = [walker EXCEPT !.seen = @ \cup {key},
                                       !.failures = @ \cup {<<key, p>> : p \in problems},
                                       !.at = IF walker.state.done THEN "conclude" ELSE "prompt"]
           /\ asserted' = asserted \cup {<<walker.state.start, key, problems = {}>>}
    /\ UNCHANGED <<verdicts, run, starts, clicks, faults>>

\* POST /next: a step that raises closes the connection, and the walkthrough
\* ends on it.
PostNext ==
    /\ walker.at = "prompt" \/ walker.at = "jumping"
    /\ \E raised \in BOOLEAN :
          /\ Advance(raised)
          /\ walker' = IF raised THEN [walker EXCEPT !.at = "over", !.verdict = "crashed"]
                       ELSE [walker EXCEPT !.at = "posted",
                                           !.target = IF walker.at = "jumping" THEN @ ELSE 0]
    /\ UNCHANGED <<verdicts, starts, asserted, clicks>>

\* Mutant: a number beyond the last step is taken as it is.
TargetUnclamped(n) == n

\* max(1, min(number, step_count)).
Target(n) == Max({1, Min({n, Len(STEP_KEYS)})})

\* A presenter types a number: the steps up to it are performed, not asserted.
Jump(n) ==
    /\ walker.at = "prompt" /\ ~walker.auto
    /\ LET aimed == [walker EXCEPT !.target = Target(n), !.jumped = TRUE] IN
       walker' = [aimed EXCEPT !.at = IF Short(aimed) THEN "jumping" ELSE "check"]
    /\ UNCHANGED <<verdicts, run, starts, asserted, clicks, faults>>

\* A presenter restarts: what was seen is forgotten, what failed is not.
StartOver ==
    /\ walker.at = "prompt" /\ ~walker.auto
    /\ Restart
    /\ walker' = [walker EXCEPT !.at = "posted", !.target = 0, !.seen = {}]
    /\ UNCHANGED <<verdicts, asserted, clicks, faults>>

\* A presenter quits: nothing is said of the steps that remain.
Quit ==
    /\ walker.at = "prompt" /\ ~walker.auto
    /\ walker' = [walker EXCEPT !.at = "over", !.verdict = "quit"]
    /\ UNCHANGED <<verdicts, run, starts, asserted, clicks, faults>>

\* Mutant: a step that was never reached is not a failure.
VerdictOfFailures(w) == IF w.failures = {} THEN "PASS" ELSE "FAILED"

\* Every step has to have been seen, and none to have failed.
Verdict(w) == IF w.failures = {} /\ Step \subseteq w.seen THEN "PASS" ELSE "FAILED"

Conclude ==
    /\ walker.at = "conclude"
    /\ walker' = [walker EXCEPT !.at = "over", !.verdict = Verdict(walker)]
    /\ UNCHANGED <<verdicts, run, starts, asserted, clicks, faults>>

\* Somebody clicks on the page.
ClickNext ==
    /\ clicks < MaxClicks /\ clicks' = clicks + 1
    /\ \E raised \in BOOLEAN : Advance(raised)
    /\ UNCHANGED <<verdicts, starts, walker, asserted>>

ClickRestart ==
    /\ clicks < MaxClicks /\ clicks' = clicks + 1
    /\ Restart
    /\ UNCHANGED <<verdicts, walker, asserted, faults>>

Walk == Get \/ AssertStep \/ PostNext \/ Conclude

Next ==
    \/ Walk
    \/ \E n \in Numbers : Jump(n)
    \/ StartOver \/ Quit
    \/ ClickNext \/ ClickRestart

Spec == Init /\ [][Next]_vars

\* The walkthrough runs, and the server answers what it asks.
FairSpec == Spec /\ WF_vars(Walk)

-----------------------------------------------------------------------------
ResultKeys(r) == [i \in DOMAIN r.results |-> r.results[i].key]

TypeOK ==
    /\ DOMAIN verdicts = Tenant
    /\ \A t \in Tenant : verdicts[t] \subseteq (DOMAIN ReferencePack) \X (DOMAIN seed_frame(t))
    /\ Len(run.results) \in 1..Len(STEP_KEYS)
    /\ {run.cases, run.escalated, run.routed} \subseteq Nat /\ run.chain_ok \in BOOLEAN
    /\ \A i \in DOMAIN run.rows :
          /\ run.rows[i].decision \in {"allowed", "escalated"}
          /\ Len(run.rows[i].hash) = i
    /\ starts \in 1..MaxStarts /\ clicks \in 0..MaxClicks /\ faults \in 0..MaxFaults
    /\ walker.at \in {"start", "check", "prompt", "posted", "jumping", "conclude", "over"}
    /\ walker.target \in 0..Len(STEP_KEYS) /\ walker.seen \subseteq Step
    /\ {walker.auto, walker.jumped} \subseteq BOOLEAN
    /\ walker.verdict \in {"", "PASS", "FAILED", "quit", "crashed"}
    /\ asserted \subseteq (1..MaxStarts) \X Step \X BOOLEAN

\* The self-test's verdict is worth its exit status, whoever clicks on the page
\* between its calls: PASS means every step of the arc was found true when it
\* was the step shown and none was ever found false, and with nobody else at
\* the page all of them of the run it ended on; it never ends otherwise but for
\* a step that raised, somebody else's click or a presenter's jump.
VerdictIsJust ==
    /\ walker.verdict = "PASS" =>
          /\ \A key \in Step :
                /\ \E n \in 1..starts : <<n, key, TRUE>> \in asserted
                /\ \A n \in 1..starts : <<n, key, FALSE>> \notin asserted
          /\ clicks = 0 => \A key \in Step : <<starts, key, TRUE>> \in asserted
    /\ walker.verdict = "FAILED" => clicks > 0 \/ walker.jumped
    /\ walker.verdict = "crashed" => faults > 0

\* The figures on the page agree with what the services hold, through steps
\* that raise and are performed again: the steps shown are the arc's, in order;
\* every escalation is routed and in the outbox, every case in the trail, and
\* exactly those when no step raised; a book comes out as its label says; a
\* trail reported broken is broken, and the rewrite is detected whenever it
\* changed a verdict.
SnapshotAddsUp ==
    /\ IsPrefix(ResultKeys(run), STEP_KEYS)
    /\ run.routed = run.escalated /\ run.routed <= Len(run.outbox)
    /\ run.escalated <= run.cases /\ run.cases <= Len(run.rows)
    /\ faults = 0 => run.routed = Len(run.outbox) /\ run.cases = Len(run.rows)
    /\ verdicts = ExpectedBreaches
    /\ ~run.chain_ok => Broken(run.rows) # {}
    /\ \A i \in DOMAIN run.results : run.results[i].key = "tamper" =>
          LET middle == run.rows[MiddleOf(run.rows)] IN
          run.results[i].detected <=> Last(middle.hash) = "escalated"

\* An unattended self-test ends with a verdict, however the page is clicked.
SelfTestEnds == walker.auto ~> walker.verdict # ""
=============================================================================
