------------------------------- MODULE DemoProofs -------------------------------
(***************************************************************************)
(* Proofs about Demo, for any step numbers a presenter may type and any    *)
(* number of runs, clicks and steps that raise.                            *)
(*                                                                         *)
(* The run is followed by two predicates: RunInv holds of every run, also  *)
(* one whose steps raised and were performed again; CleanRun of one none   *)
(* of whose steps raised, and says why no check of the walkthrough fails   *)
(* on it.  The walkthrough's own invariant has a part for any behaviour    *)
(* (WalkInv) and one for a page nobody else clicks on (UndisturbedInv).    *)
(***************************************************************************)
EXTENDS Demo, FiniteSetTheorems, TLAPS

\* The books come out of the engine as the golden set labels them: a fact of
\* three books, which a run evaluates (SnapshotAddsUp) and the proofs assume.
BooksAreAsLabelled == Breaching = ExpectedBreaches

Decision == {"allowed", "escalated"}
Row == [decision: Decision, marks: {{}}, hash: Seq(Decision)]
Fact ==
    [key: {"opened"}, profiles: {Opened.profiles}]
    \cup [key: DOMAIN CaseOf, review: BOOLEAN, ref: BOOLEAN, leaked: BOOLEAN]
    \cup [key: {"review_queue"}, pending: Nat, leaked: BOOLEAN]
    \cup [key: {"audit"}, chain_ok: BOOLEAN, entries: Nat]
    \cup [key: {"tamper"}, chain_ok: BOOLEAN, detected: BOOLEAN]
    \cup [key: {"portability"}, refused: SUBSET EXIT_CALLS, absent: SUBSET EXIT_CALLS]
RunType == [results: Seq(Fact), cases: Nat, escalated: Nat, routed: Nat,
            chain_ok: BOOLEAN, outbox: Seq({{}}), rows: Seq(Row)]

\* The decision a row was sealed with.
Original(row) == row.hash[Len(row.hash)]

\* Every hash seals the decisions up to its row; only the rewrite, of a middle
\* record and once the tamper step was begun, makes a row differ from its hash.
Sealed(rows) ==
    \A i \in DOMAIN rows :
        /\ Len(rows[i].hash) = i
        /\ \A j \in 1..i : rows[i].hash[j] = Original(rows[j])
Unaltered(rows) == \A i \in DOMAIN rows : rows[i].decision = Original(rows[i])
AlteredInMiddle(rows) ==
    \A i \in DOMAIN rows :
        \/ rows[i].decision = Original(rows[i])
        \/ i = MiddleOf(rows) /\ rows[i].decision = "allowed"

\* The cases assessed by the time so many results are shown.
Cases(shown) == IF shown <= 4 THEN shown - 1 ELSE 3

\* What a run holds once it shows so many results.
Books(r, shown) ==
    /\ r.cases >= Cases(shown)
    /\ r.routed = r.escalated /\ r.routed <= Len(r.outbox)
    /\ r.escalated <= r.cases /\ r.cases <= Len(r.rows)
    /\ Sealed(r.rows) /\ AlteredInMiddle(r.rows)
    /\ shown < 6 => Unaltered(r.rows)
    /\ shown < 7 => r.chain_ok
    /\ ~r.chain_ok => Broken(r.rows) # {}

RunInv(r) ==
    /\ r \in RunType
    /\ Len(r.results) \in 1..8
    /\ \A i \in 1..Len(r.results) : r.results[i].key = STEP_KEYS[i]
    /\ Books(r, Len(r.results))
    /\ Len(r.results) >= 7 =>
          (r.results[7].detected <=> Original(r.rows[MiddleOf(r.rows)]) = "escalated")

\* What the checks of the walkthrough read of a run.
Snap(r) == [step |-> Last(r.results), escalated |-> r.escalated, routed |-> r.routed]

CleanBooks(r, shown) ==
    /\ r.cases = Cases(shown) /\ Len(r.rows) = r.cases /\ Len(r.outbox) = r.routed
    /\ r.routed = IF shown <= 2 THEN 0 ELSE IF shown = 3 THEN 1 ELSE 2
    /\ shown >= 3 => Original(r.rows[2]) = "escalated"

CleanRun(r) == CleanBooks(r, Len(r.results)) /\ Problems(Snap(r)) = {}

\* A snapshot the walkthrough may hold.
SnapshotInv(s) ==
    /\ s.start \in 1..starts /\ s.index \in 0..7 /\ s.done = (s.index = 7)
    /\ s.step.key = STEP_KEYS[s.index + 1]

\* The walkthrough, whatever is clicked.
WalkInv ==
    /\ SnapshotInv(walker.state)
    /\ walker.seen \subseteq Step
    /\ asserted \subseteq (1..starts) \X Step \X BOOLEAN
    /\ \A key \in walker.seen : \E n \in 1..starts, b \in BOOLEAN : <<n, key, b>> \in asserted
    /\ \A n \in 1..starts, key \in Step : <<n, key, FALSE>> \in asserted => walker.failures # {}
    /\ walker.at = "over" <=> walker.verdict # ""
    /\ walker.verdict = "PASS" => walker.failures = {} /\ Step \subseteq walker.seen
    /\ walker.verdict = "FAILED" => clicks > 0 \/ walker.jumped
    /\ walker.verdict = "crashed" => faults > 0
    /\ walker.jumped \/ walker.target = 0
    /\ walker.at = "jumping" => walker.jumped

\* Nobody else clicks: what the walkthrough holds is what the run is.
UndisturbedInv ==
    clicks = 0 =>
        /\ \A key \in walker.seen : \E b \in BOOLEAN : <<starts, key, b>> \in asserted
        /\ walker.at # "over" => faults = 0
        /\ walker.at \notin {"start", "posted", "over"} => walker.state = State(run)
        /\ walker.at # "over" /\ ~walker.jumped =>
              /\ walker.failures = {}
              /\ walker.seen =
                    {STEP_KEYS[i] : i \in
                        1..(IF walker.at \in {"prompt", "conclude"} THEN Len(run.results)
                            ELSE Len(run.results) - 1)}
              /\ walker.at \in {"prompt", "jumping"} => ~Done(run)
              /\ walker.at = "conclude" => Done(run)

Stage == {"start", "check", "prompt", "posted", "jumping", "conclude", "over"}
Outcome == {"", "PASS", "FAILED", "quit", "crashed"}
Problem == {"profiles", "escalated", "manufactured", "count moved", "not escalated", "not routed",
            "counts disagree", "leaked", "queue", "chain", "entries", "not evident", "not named",
            "seams"}
Snapshot == [start: Nat, step: Fact, index: 0..7, done: BOOLEAN, escalated: Nat, routed: Nat]
WalkerType == [at: Stage, target: 0..8, seen: SUBSET Step, failures: SUBSET (Step \X Problem),
               auto: BOOLEAN, jumped: BOOLEAN, verdict: Outcome, state: Snapshot]

IInv ==
    /\ verdicts = ExpectedBreaches
    /\ starts \in 1..MaxStarts /\ clicks \in 0..MaxClicks /\ faults \in 0..MaxFaults
    /\ walker \in WalkerType
    /\ RunInv(run)
    /\ faults = 0 => CleanRun(run)
    /\ WalkInv
    /\ UndisturbedInv

-----------------------------------------------------------------------------
(* The trail. *)

\* One more row, sealed over all that came before it with the decision.
OneMore(rows, new, decision) ==
    /\ new \in Seq(Row) /\ Len(new) = Len(rows) + 1
    /\ Sealed(new) /\ Unaltered(new)
    /\ Original(new[Len(new)]) = decision
    /\ \A i \in DOMAIN rows : Original(new[i]) = Original(rows[i])

\* Recording seals a new row over all that came before it.
LEMMA RecordSeals ==
    ASSUME NEW rows \in Seq(Row), Sealed(rows), Unaltered(rows), NEW d \in Decision,
           NEW new, new = Append(rows, [decision |-> d, marks |-> {},
                                        hash |-> Append(Decisions(rows), d)])
    PROVE  OneMore(rows, new, d)
<1> DEFINE n == Len(rows)
           h == Append(Decisions(rows), d)
           row == [decision |-> d, marks |-> {}, hash |-> h]
<1>1. n \in Nat /\ DOMAIN rows = 1..n /\ \A i \in 1..n : rows[i] \in Row
    OBVIOUS
<1>2. Decisions(rows) \in Seq(Decision) /\ Len(Decisions(rows)) = n
      /\ \A i \in 1..n : Decisions(rows)[i] = rows[i].decision
    BY <1>1 DEF Decisions, Row
<1>3. h \in Seq(Decision) /\ Len(h) = n + 1 /\ h[n + 1] = d
      /\ \A i \in 1..n : h[i] = rows[i].decision
    BY <1>1, <1>2
<1> HIDE DEF h
<1>4. row \in Row
    BY <1>3 DEF Row
<1>5. new \in Seq(Row) /\ Len(new) = n + 1 /\ DOMAIN new = 1..(n + 1)
      /\ new[n + 1] = row /\ \A i \in 1..n : new[i] = rows[i]
    BY <1>1, <1>4 DEF h
<1>6. Original(new[n + 1]) = d /\ \A i \in 1..n : Original(new[i]) = Original(rows[i])
    BY <1>3, <1>5 DEF Original
<1>7. \A i \in 1..n : h[i] = Original(rows[i])
    BY <1>1, <1>3 DEF Unaltered
<1>8. Sealed(new)
  <2>1. \A i \in 1..n : Len(rows[i].hash) = i /\ \A j \in 1..i : rows[i].hash[j] = Original(rows[j])
      BY <1>1 DEF Sealed
  <2>2. ASSUME NEW i \in 1..(n + 1), i # n + 1
        PROVE  Len(new[i].hash) = i /\ \A j \in 1..i : new[i].hash[j] = Original(new[j])
    <3>1. i \in 1..n /\ \A j \in 1..i : j \in 1..n
        BY <1>1, <2>2
    <3>2. QED
        BY <1>5, <1>6, <2>1, <3>1
  <2>3. Len(new[n + 1].hash) = n + 1 /\ \A j \in 1..(n + 1) : new[n + 1].hash[j] = Original(new[j])
    <3>1. new[n + 1].hash = h
        BY <1>5
    <3>2. \A j \in 1..(n + 1) : j \in 1..n \/ j = n + 1
        BY <1>1
    <3>3. QED
        BY <1>3, <1>6, <1>7, <3>1, <3>2
  <2>4. QED
      BY <1>5, <2>2, <2>3 DEF Sealed
<1>9. Unaltered(new)
  <2>1. \A i \in 1..(n + 1) : i \in 1..n \/ i = n + 1
      BY <1>1
  <2>2. QED
      BY <1>1, <1>5, <1>6, <2>1 DEF Unaltered
<1>10. QED
    BY <1>1, <1>5, <1>6, <1>8, <1>9 DEF OneMore

\* A row is broken when its decision is no longer the sealed one.
LEMMA BrokenAre ==
    ASSUME NEW rows \in Seq(Row), Sealed(rows)
    PROVE  Broken(rows) = {i \in DOMAIN rows : rows[i].decision # Original(rows[i])}
<1> DEFINE n == Len(rows)
<1>1. n \in Nat /\ DOMAIN rows = 1..n /\ \A i \in 1..n : rows[i] \in Row
    OBVIOUS
<1>2. \A i \in 1..n : /\ rows[i].hash \in Seq(Decision) /\ rows[i].decision \in Decision
                      /\ Len(rows[i].hash) = i
                      /\ \A j \in 1..i : rows[i].hash[j] = Original(rows[j])
    BY <1>1 DEF Sealed, Row
<1>3. ASSUME NEW i \in 1..n
      PROVE  rows[i].hash = Append(IF i = 1 THEN <<>> ELSE rows[i - 1].hash, rows[i].decision)
                <=> rows[i].decision = Original(rows[i])
  <2>1. PICK prev : prev = IF i = 1 THEN <<>> ELSE rows[i - 1].hash
      OBVIOUS
  <2>2. prev \in Seq(Decision) /\ Len(prev) = i - 1
        /\ \A j \in 1..(i - 1) : prev[j] = Original(rows[j])
    <3>1. CASE i = 1
      <4>1. prev = <<>>
          BY <2>1, <3>1
      <4>2. prev \in Seq(Decision) /\ Len(prev) = 0
          BY <4>1
      <4>3. 1..0 = {}
          OBVIOUS
      <4>4. QED
          BY <3>1, <4>2, <4>3
    <3>2. CASE i # 1
      <4>1. i - 1 \in 1..n
          BY <1>1, <3>2
      <4>2. QED
          BY <1>2, <2>1, <3>2, <4>1
    <3>3. QED
        BY <3>1, <3>2
  <2>3. PICK a : a = Append(prev, rows[i].decision)
      OBVIOUS
  <2>4. a \in Seq(Decision) /\ Len(a) = i /\ a[i] = rows[i].decision
        /\ \A j \in 1..(i - 1) : a[j] = Original(rows[j])
      BY <1>1, <1>2, <2>2, <2>3
  <2>5. rows[i].hash[i] = Original(rows[i])
      BY <1>1, <1>2
  <2>6. a = rows[i].hash => rows[i].decision = Original(rows[i])
      BY <2>4, <2>5
  <2>7. ASSUME rows[i].decision = Original(rows[i]) PROVE a = rows[i].hash
    <3>1. \A j \in 1..i : a[j] = rows[i].hash[j]
      <4>1. \A j \in 1..i : j \in 1..(i - 1) \/ j = i
          BY <1>1
      <4>2. QED
          BY <1>2, <2>4, <2>5, <2>7, <4>1
    <3>2. QED
        BY <1>2, <2>4, <3>1
  <2>8. QED
      BY <2>1, <2>3, <2>6, <2>7
<1>4. QED
    BY <1>1, <1>3 DEF Broken

\* The rewrite breaks the middle row, and only if it was sealed with another verdict.
LEMMA RewriteBreaks ==
    ASSUME NEW rows \in Seq(Row), Len(rows) >= 1, Sealed(rows), AlteredInMiddle(rows),
           NEW new, new = Rewritten(rows)
    PROVE  /\ new \in Seq(Row) /\ Len(new) = Len(rows) /\ MiddleOf(new) = MiddleOf(rows)
           /\ MiddleOf(rows) \in DOMAIN rows
           /\ Sealed(new) /\ AlteredInMiddle(new)
           /\ \A i \in DOMAIN rows : Original(new[i]) = Original(rows[i])
           /\ Broken(new) = IF Original(rows[MiddleOf(rows)]) = "escalated"
                            THEN {MiddleOf(rows)} ELSE {}
<1> DEFINE n == Len(rows)
<1>1. n \in Nat /\ n >= 1 /\ DOMAIN rows = 1..n /\ \A i \in 1..n : rows[i] \in Row
    OBVIOUS
<1>2. PICK m \in 1..n : m = MiddleOf(rows)
    BY <1>1 DEF MiddleOf
<1>3. new = [rows EXCEPT ![m].decision = "allowed"]
    BY <1>2 DEF Rewritten
<1>4. new \in Seq(Row) /\ Len(new) = n /\ DOMAIN new = 1..n
  <2>1. PICK row : row = [rows[m] EXCEPT !.decision = "allowed"]
      OBVIOUS
  <2>2. row \in Row
      BY <1>1, <1>2, <2>1 DEF Row, Decision
  <2>3. new = [rows EXCEPT ![m] = row]
      BY <1>3, <2>1
  <2>4. QED
      BY <1>1, <1>2, <2>2, <2>3
<1>5. \A i \in 1..n : /\ new[i].hash = rows[i].hash
                      /\ new[i].decision = IF i = m THEN "allowed" ELSE rows[i].decision
    BY <1>1, <1>2, <1>3 DEF Row
<1>6. \A i \in 1..n : Original(new[i]) = Original(rows[i])
    BY <1>5 DEF Original
<1>7. MiddleOf(new) = m
    BY <1>2, <1>4 DEF MiddleOf
<1>8. Sealed(new)
    BY <1>1, <1>4, <1>5, <1>6 DEF Sealed
<1>9. AlteredInMiddle(new)
    BY <1>1, <1>2, <1>4, <1>5, <1>6, <1>7 DEF AlteredInMiddle
<1>10. Broken(new) = {i \in 1..n : new[i].decision # Original(rows[i])}
    BY <1>4, <1>6, <1>8, BrokenAre
<1>11. \A i \in 1..n : i # m => new[i].decision = Original(rows[i])
    BY <1>1, <1>2, <1>5 DEF AlteredInMiddle
<1>12. Original(rows[m]) \in Decision
  <2>1. rows[m].hash \in Seq(Decision) /\ Len(rows[m].hash) = m /\ m >= 1
      BY <1>1, <1>2 DEF Row, Sealed
  <2>2. QED
      BY <2>1 DEF Original
<1>13. Broken(new) = IF Original(rows[m]) = "escalated" THEN {m} ELSE {}
    BY <1>5, <1>10, <1>11, <1>12 DEF Decision
<1>14. QED
    BY <1>1, <1>2, <1>4, <1>6, <1>7, <1>8, <1>9, <1>13

-----------------------------------------------------------------------------
(* The arc and the books. *)

LEMMA TheArc ==
    /\ Len(STEP_KEYS) = 8 /\ DOMAIN STEP_KEYS = 1..8
    /\ STEP_KEYS[1] = "opened" /\ STEP_KEYS[2] = "routine" /\ STEP_KEYS[3] = "escalation"
    /\ STEP_KEYS[4] = "redaction" /\ STEP_KEYS[5] = "review_queue" /\ STEP_KEYS[6] = "audit"
    /\ STEP_KEYS[7] = "tamper" /\ STEP_KEYS[8] = "portability"
    /\ \A i \in 1..8 : STEP_KEYS[i] \in Step
<1>1. Len(STEP_KEYS) = 8
    BY DEF STEP_KEYS
<1>2. DOMAIN STEP_KEYS = 1..8
    BY DEF STEP_KEYS
<1>3. QED
    BY <1>1, <1>2 DEF STEP_KEYS, Step, Range

LEMMA TheCases ==
    /\ DOMAIN CaseOf = {"routine", "escalation", "redaction"}
    /\ CaseOf["routine"] = "clean-bank" /\ CaseOf["escalation"] = "demo-bank"
    /\ CaseOf["redaction"] = "pii-bank"
    /\ \A key \in DOMAIN CaseOf : CaseOf[key] \in Tenant
BY DEF CaseOf, Tenant

\* The clean book is the one that does not escalate.
LEMMA BooksEscalate ==
    ASSUME verdicts = ExpectedBreaches, NEW tenant \in Tenant
    PROVE  Escalates(tenant) <=> tenant # "clean-bank"
BY DEF Escalates, ExpectedBreaches

\* What is planted in a book does not survive the redaction.
LEMMA NothingLeaks ==
    ASSUME NEW tenant
    PROVE  Planted(tenant) \ {"nric"} = {}
BY DEF Planted

-----------------------------------------------------------------------------
(* Steps of the run. *)

Reviews(tenant) == IF tenant = "clean-bank" THEN 0 ELSE 1
Label(tenant) == IF tenant = "clean-bank" THEN "allowed" ELSE "escalated"

\* A case handed over adds a sealed row and, when it escalates, one review.
LEMMA HandedOverIs ==
    ASSUME verdicts = ExpectedBreaches, NEW tenant \in Tenant,
           NEW r \in RunType, Sealed(r.rows), Unaltered(r.rows),
           NEW done, done = HandedOver(r, tenant)
    PROVE  /\ done \in RunType /\ done.results = r.results /\ done.cases = r.cases
           /\ done.escalated = r.escalated /\ done.routed = r.routed
           /\ done.chain_ok = r.chain_ok
           /\ Len(done.outbox) = Len(r.outbox) + Reviews(tenant)
           /\ OneMore(r.rows, done.rows, Label(tenant))
<1>1. PICK d : d = IF Escalates(tenant) THEN "escalated" ELSE "allowed"
    OBVIOUS
<1>2. d \in Decision /\ d = Label(tenant)
    BY <1>1, BooksEscalate DEF Decision, Label
<1>3. PICK rows : rows = Recorded(r.rows, tenant)
    OBVIOUS
<1>4. PICK olds : olds = r.rows
    OBVIOUS
<1>5. olds \in Seq(Row) /\ r.outbox \in Seq({{}}) /\ Sealed(olds) /\ Unaltered(olds)
    BY <1>4 DEF RunType
<1>6. OneMore(olds, rows, d)
  <2>1. rows = Append(olds, [decision |-> d, marks |-> {}, hash |-> Append(Decisions(olds), d)])
      BY <1>1, <1>3, <1>4, NothingLeaks DEF Recorded
  <2>2. QED
      BY <1>2, <1>5, <2>1, RecordSeals
<1>7. PICK outbox : outbox = IF Escalates(tenant) THEN Append(r.outbox, {}) ELSE r.outbox
    OBVIOUS
<1>8. outbox \in Seq({{}}) /\ Len(outbox) = Len(r.outbox) + Reviews(tenant)
  <2>1. CASE tenant = "clean-bank"
    <3>1. outbox = r.outbox /\ Reviews(tenant) = 0
        BY <1>7, <2>1, BooksEscalate DEF Reviews
    <3>2. QED
        BY <1>5, <3>1
  <2>2. CASE tenant # "clean-bank"
    <3>1. outbox = Append(r.outbox, {}) /\ Reviews(tenant) = 1
        BY <1>7, <2>2, BooksEscalate DEF Reviews
    <3>2. QED
        BY <1>5, <3>1
  <2>3. QED
      BY <2>1, <2>2
<1>9. done = [r EXCEPT !.rows = rows, !.outbox = outbox]
    BY <1>3, <1>7, NothingLeaks DEF HandedOver
<1>10. rows \in Seq(Row)
    BY <1>6 DEF OneMore
<1>11. /\ done \in RunType /\ done.results = r.results /\ done.cases = r.cases
       /\ done.escalated = r.escalated /\ done.routed = r.routed
       /\ done.chain_ok = r.chain_ok /\ done.rows = rows /\ done.outbox = outbox
    BY <1>8, <1>9, <1>10 DEF RunType
<1>12. QED
    BY <1>2, <1>4, <1>6, <1>8, <1>11

\* A case assessed is handed over and counted.
LEMMA AssessedIs ==
    ASSUME verdicts = ExpectedBreaches, NEW tenant \in Tenant,
           NEW r \in RunType, Sealed(r.rows), Unaltered(r.rows), r.routed = r.escalated,
           NEW done, done = Assessed(r, tenant)
    PROVE  /\ done \in RunType /\ done.results = r.results /\ done.cases = r.cases + 1
           /\ done.escalated = r.escalated + Reviews(tenant)
           /\ done.routed = done.escalated
           /\ done.chain_ok = r.chain_ok
           /\ Len(done.outbox) = Len(r.outbox) + Reviews(tenant)
           /\ OneMore(r.rows, done.rows, Label(tenant))
<1>1. PICK over : over = HandedOver(r, tenant)
    OBVIOUS
<1>2. /\ over \in RunType /\ over.results = r.results /\ over.cases = r.cases
      /\ over.escalated = r.escalated /\ over.routed = r.routed
      /\ over.chain_ok = r.chain_ok
      /\ Len(over.outbox) = Len(r.outbox) + Reviews(tenant)
      /\ OneMore(r.rows, over.rows, Label(tenant))
    BY <1>1, HandedOverIs
<1>3. PICK escalated : escalated = r.escalated + Reviews(tenant)
    OBVIOUS
<1>4. r.cases \in Nat /\ r.escalated \in Nat /\ escalated \in Nat
    BY <1>3 DEF RunType, Reviews
<1>5. done = [over EXCEPT !.cases = r.cases + 1, !.escalated = escalated, !.routed = escalated]
  <2>1. escalated = IF Escalates(tenant) THEN r.escalated + 1 ELSE r.escalated
      BY <1>3, <1>4, BooksEscalate DEF Reviews
  <2>2. QED
      BY <1>1, <1>2, <2>1 DEF Assessed
<1>6. /\ done \in RunType /\ done.results = over.results /\ done.cases = r.cases + 1
      /\ done.escalated = escalated /\ done.routed = escalated
      /\ done.chain_ok = over.chain_ok /\ done.rows = over.rows /\ done.outbox = over.outbox
  <2>1. over \in RunType
      BY <1>2
  <2>2. PICK cases \in Nat : cases = r.cases + 1
      BY <1>4
  <2>3. done = [over EXCEPT !.cases = cases, !.escalated = escalated, !.routed = escalated]
      BY <1>5, <2>2
  <2>4. QED
      BY <1>4, <2>1, <2>2, <2>3 DEF RunType
<1>7. QED
    BY <1>2, <1>3, <1>6

\* What a step shows when its check finds nothing.
Fine(s) ==
    LET f == s.step IN
    /\ f.key \in Step
    /\ f.key = "opened" => Cardinality(f.profiles) = 3
    /\ f.key = "routine" => ~f.review /\ ~f.ref /\ s.escalated = 0
    /\ f.key = "escalation" => f.review /\ f.ref /\ s.routed = s.escalated
    /\ f.key = "redaction" => ~f.leaked /\ f.ref
    /\ f.key = "review_queue" => ~f.leaked /\ f.pending = s.routed
    /\ f.key = "audit" => f.chain_ok /\ f.entries \in Nat /\ f.entries >= 3
    /\ f.key = "tamper" => ~f.chain_ok /\ f.detected
    /\ f.key = "portability" => f.refused \cup f.absent = EXIT_CALLS

LEMMA NothingIsFound ==
    ASSUME NEW s, Fine(s)
    PROVE  Problems(s) = {}
<1>1. PICK f : f = s.step
    OBVIOUS
<1>2. f.key \in {"opened", "routine", "escalation", "redaction",
                 "review_queue", "audit", "tamper", "portability"}
    BY <1>1, TheArc DEF Fine, Step, Range
<1>3. CASE f.key = "opened"
  <2>1. Cardinality(f.profiles) = 3
      BY <1>1, <1>3 DEF Fine
  <2>2. ~(Cardinality(f.profiles) < 3)
      BY <2>1
  <2>3. QED
      BY <1>1, <1>3, <2>2 DEF Problems
<1>4. CASE f.key = "routine"
    BY <1>1, <1>4 DEF Fine, Problems
<1>5. CASE f.key = "escalation"
    BY <1>1, <1>5 DEF Fine, Problems
<1>6. CASE f.key = "redaction"
    BY <1>1, <1>6 DEF Fine, Problems
<1>7. CASE f.key = "review_queue"
    BY <1>1, <1>7 DEF Fine, Problems
<1>8. CASE f.key = "audit"
    BY <1>1, <1>8 DEF Fine, Problems
<1>9. CASE f.key = "tamper"
    BY <1>1, <1>9 DEF Fine, Problems
<1>10. CASE f.key = "portability"
    BY <1>1, <1>10 DEF Fine, Problems
<1>11. QED
    BY <1>2, <1>3, <1>4, <1>5, <1>6, <1>7, <1>8, <1>9, <1>10

\* A step, the one to be shown next, that leaves `left` of the run and finds
\* the fact f.
Advances(r, shown, left, f) ==
    /\ shown \in 2..8 /\ Len(r.results) = shown - 1
    /\ left \in RunType /\ left.results = r.results
    /\ f \in Fact /\ f.key = STEP_KEYS[shown]
    /\ Books(left, shown)
    /\ shown = 7 => (f.detected <=> Original(left.rows[MiddleOf(left.rows)]) = "escalated")
    /\ shown = 8 => left.rows = r.rows
    /\ CleanRun(r) =>
          /\ CleanBooks(left, shown)
          /\ Fine([step |-> f, escalated |-> left.escalated, routed |-> left.routed])

Showing(left, f) == [left EXCEPT !.results = Append(@, f)]

LEMMA AdvanceKeeps ==
    ASSUME NEW r, NEW shown, NEW left, NEW f, RunInv(r), Advances(r, shown, left, f)
    PROVE  /\ RunInv(Showing(left, f)) /\ Len(Showing(left, f).results) = shown
           /\ CleanRun(r) => CleanRun(Showing(left, f))
<1> DEFINE new == Showing(left, f)
<1>1. /\ r \in RunType /\ shown \in 2..8 /\ Len(r.results) = shown - 1
      /\ \A i \in 1..(shown - 1) : r.results[i].key = STEP_KEYS[i]
    BY DEF RunInv, Advances
<1>2. r.results \in Seq(Fact)
    BY <1>1 DEF RunType
<1>3. /\ left \in RunType /\ left.results = r.results
      /\ f \in Fact /\ f.key = STEP_KEYS[shown] /\ Books(left, shown)
      /\ shown = 7 => (f.detected <=> Original(left.rows[MiddleOf(left.rows)]) = "escalated")
      /\ shown = 8 => left.rows = r.rows
    BY <1>1 DEF Advances
<1>4. PICK results : results = Append(r.results, f)
    OBVIOUS
<1>5. /\ results \in Seq(Fact) /\ Len(results) = shown /\ results[shown] = f
      /\ \A i \in 1..(shown - 1) : results[i] = r.results[i]
    BY <1>1, <1>2, <1>3, <1>4
<1>6. /\ new \in RunType /\ new.results = results /\ new.cases = left.cases
      /\ new.escalated = left.escalated /\ new.routed = left.routed
      /\ new.chain_ok = left.chain_ok /\ new.outbox = left.outbox /\ new.rows = left.rows
    BY <1>3, <1>4, <1>5 DEF Showing, RunType
<1> HIDE DEF new
<1>7. Books(new, shown)
    BY <1>3, <1>6 DEF Books
<1>8. \A i \in 1..shown : new.results[i].key = STEP_KEYS[i]
  <2>1. \A i \in 1..shown : i \in 1..(shown - 1) \/ i = shown
      BY <1>1
  <2>2. \A i \in 1..(shown - 1) : results[i].key = STEP_KEYS[i]
      BY <1>1, <1>5
  <2>3. results[shown].key = STEP_KEYS[shown]
      BY <1>3, <1>5
  <2>4. QED
      BY <1>6, <2>1, <2>2, <2>3
<1>9. shown >= 7 =>
         (new.results[7].detected <=> Original(new.rows[MiddleOf(new.rows)]) = "escalated")
  <2>1. CASE shown = 7
      BY <1>3, <1>5, <1>6, <2>1
  <2>2. CASE shown = 8
    <3>1. r.results[7].detected <=> Original(r.rows[MiddleOf(r.rows)]) = "escalated"
        BY <1>1, <2>2 DEF RunInv
    <3>2. results[7] = r.results[7]
        BY <1>5, <2>2
    <3>3. QED
        BY <1>3, <1>6, <2>2, <3>1, <3>2
  <2>3. CASE shown < 7
      BY <1>1, <2>3
  <2>4. shown = 7 \/ shown = 8 \/ shown < 7
      BY <1>1
  <2>5. QED
      BY <2>1, <2>2, <2>3, <2>4
<1>10. RunInv(new)
  <2>1. Len(new.results) = shown /\ shown \in 1..8
      BY <1>1, <1>5, <1>6
  <2>2. QED
      BY <1>6, <1>7, <1>8, <1>9, <2>1 DEF RunInv
<1>11. ASSUME CleanRun(r) PROVE CleanRun(new)
  <2>1. /\ CleanBooks(left, shown)
        /\ Fine([step |-> f, escalated |-> left.escalated, routed |-> left.routed])
      BY <1>1, <1>11 DEF Advances
  <2>2. CleanBooks(new, shown)
      BY <1>6, <2>1 DEF CleanBooks
  <2>3. Snap(new) = [step |-> f, escalated |-> left.escalated, routed |-> left.routed]
      BY <1>5, <1>6 DEF Snap, Last
  <2>4. QED
      BY <1>5, <1>6, <2>1, <2>2, <2>3, NothingIsFound DEF CleanRun
<1>12. QED
    BY <1>1, <1>5, <1>6, <1>10, <1>11 DEF new

\* The three cases.
LEMMA CaseAdvances ==
    ASSUME verdicts = ExpectedBreaches,
           NEW r, RunInv(r), NEW n \in 1..3, Len(r.results) = n,
           NEW key, key = STEP_KEYS[n + 1],
           NEW left, left = After(r, key), NEW f, f = Facts(left, key)
    PROVE  Advances(r, n + 1, left, f)
<1>1. PICK tenant \in Tenant : /\ key \in DOMAIN CaseOf /\ tenant = CaseOf[key]
                               /\ n = 1 <=> tenant = "clean-bank"
                               /\ key \in {"routine", "escalation", "redaction"}
  <2>1. \/ n = 1 /\ key = "routine"
        \/ n = 2 /\ key = "escalation"
        \/ n = 3 /\ key = "redaction"
      BY TheArc
  <2>2. key \in DOMAIN CaseOf /\ CaseOf[key] \in Tenant
        /\ (n = 1 <=> CaseOf[key] = "clean-bank")
        /\ key \in {"routine", "escalation", "redaction"}
      BY <2>1, TheCases
  <2>3. QED
      BY <2>2
<1>2. PICK reviews : reviews = Reviews(tenant)
    OBVIOUS
<1>3. reviews = IF n = 1 THEN 0 ELSE 1
    BY <1>1, <1>2 DEF Reviews
<1>4. Label(tenant) = IF n = 1 THEN "allowed" ELSE "escalated"
    BY <1>1 DEF Label
<1>5. (Escalates(tenant) <=> n # 1) /\ Escalates(tenant) \in BOOLEAN
    BY <1>1, BooksEscalate DEF Escalates
<1>6. left = Assessed(r, tenant)
    BY <1>1 DEF After
<1>7. /\ r \in RunType /\ Books(r, n)
    BY DEF RunInv
<1>8. /\ r.cases \in Nat /\ r.cases >= n - 1
      /\ r.routed \in Nat /\ r.routed = r.escalated /\ r.routed <= Len(r.outbox)
      /\ r.escalated <= r.cases /\ r.cases <= Len(r.rows)
      /\ Sealed(r.rows) /\ Unaltered(r.rows) /\ r.chain_ok
  <2>1. Cases(n) = n - 1
      BY DEF Cases
  <2>2. QED
      BY <1>7, <2>1 DEF Books, RunType
<1>9. PICK olds, rows, decision : olds = r.rows /\ rows = left.rows /\ decision = Label(tenant)
    OBVIOUS
<1>10. /\ left \in RunType /\ left.results = r.results /\ left.cases = r.cases + 1
       /\ left.escalated = r.escalated + reviews /\ left.routed = left.escalated
       /\ left.chain_ok = r.chain_ok /\ Len(left.outbox) = Len(r.outbox) + reviews
       /\ OneMore(olds, rows, decision)
    BY <1>2, <1>6, <1>7, <1>8, <1>9, AssessedIs
<1>11. /\ rows \in Seq(Row) /\ Len(rows) = Len(olds) + 1 /\ Sealed(rows) /\ Unaltered(rows)
       /\ Original(rows[Len(rows)]) = decision
       /\ \A i \in DOMAIN olds : Original(rows[i]) = Original(olds[i])
    BY <1>10 DEF OneMore
<1>12. Len(r.outbox) \in Nat /\ Len(olds) \in Nat /\ DOMAIN olds = 1..Len(olds)
    BY <1>7, <1>9 DEF RunType
<1>13. Books(left, n + 1)
  <2>1. Cases(n + 1) = n
      BY DEF Cases
  <2>2. AlteredInMiddle(rows)
      BY <1>11 DEF AlteredInMiddle, Unaltered
  <2>3. left.cases >= n /\ left.routed <= Len(left.outbox)
        /\ left.escalated <= left.cases /\ left.cases <= Len(rows)
    <3>1. left.cases >= n /\ left.cases <= Len(rows)
        BY <1>8, <1>9, <1>10, <1>11, <1>12
    <3>2. left.routed <= Len(left.outbox)
      <4>1. left.routed = r.routed + reviews /\ Len(left.outbox) = Len(r.outbox) + reviews
          BY <1>8, <1>10
      <4>2. r.routed \in Nat /\ reviews \in Nat /\ r.routed <= Len(r.outbox)
          BY <1>3, <1>8
      <4>3. QED
          BY <1>12, <4>1, <4>2
    <3>3. left.escalated <= left.cases
        BY <1>3, <1>8, <1>10
    <3>4. QED
        BY <3>1, <3>2, <3>3
  <2>4. QED
      BY <1>8, <1>9, <1>10, <1>11, <2>1, <2>2, <2>3 DEF Books
<1>14. Last(rows).marks = {}
  <2>1. rows[Len(rows)] \in Row
      BY <1>11, <1>12
  <2>2. QED
      BY <2>1 DEF Last, Row
<1>15. f = [key |-> key, review |-> Escalates(tenant), ref |-> Escalates(tenant), leaked |-> FALSE]
  <2>1. Facts(left, key) = [key |-> key, review |-> Escalates(CaseOf[key]),
                            ref |-> Escalates(CaseOf[key]), leaked |-> Last(left.rows).marks # {}]
      BY <1>1 DEF Facts
  <2>2. (Last(left.rows).marks # {}) = FALSE
      BY <1>9, <1>14
  <2>3. QED
      BY <1>1, <2>1, <2>2
<1>16. f \in Fact /\ f.key = key
    BY <1>1, <1>5, <1>15 DEF Fact
<1>17. ASSUME CleanRun(r)
       PROVE  /\ CleanBooks(left, n + 1)
              /\ Fine([step |-> f, escalated |-> left.escalated, routed |-> left.routed])
  <2>1. /\ r.cases = n - 1 /\ Len(olds) = r.cases /\ Len(r.outbox) = r.routed
        /\ r.routed = (IF n <= 2 THEN 0 ELSE 1)
        /\ n = 3 => Original(olds[2]) = "escalated"
    <3>1. CleanBooks(r, n) /\ Cases(n) = n - 1
        BY <1>17 DEF CleanRun, Cases
    <3>2. QED
        BY <1>9, <3>1 DEF CleanBooks
  <2>2. n + 1 >= 3 => Original(rows[2]) = "escalated"
    <3>1. CASE n = 2
        BY <1>4, <1>9, <1>11, <2>1, <3>1
    <3>2. CASE n = 3
        BY <1>11, <1>12, <2>1, <3>2
    <3>3. QED
        BY <3>1, <3>2
  <2>3. /\ left.cases = n /\ Len(rows) = n /\ Len(left.outbox) = left.routed
        /\ left.routed = IF n = 1 THEN 0 ELSE IF n = 2 THEN 1 ELSE 2
      BY <1>3, <1>8, <1>10, <1>11, <2>1
  <2>4. CleanBooks(left, n + 1)
    <3>1. Cases(n + 1) = n
        BY DEF Cases
    <3>2. QED
        BY <1>9, <2>2, <2>3, <3>1 DEF CleanBooks
  <2>5. n = 1 => left.escalated = 0
      BY <1>10, <2>3
  <2>6. PICK s : s = [step |-> f, escalated |-> left.escalated, routed |-> left.routed]
      OBVIOUS
  <2>7. Fine(s)
    <3>1. /\ s.step = f /\ s.escalated = left.escalated /\ s.routed = left.routed
        BY <2>6
    <3>2. key \in Step /\ (n = 1 <=> key = "routine")
          /\ key \notin {"opened", "review_queue", "audit", "tamper", "portability"}
        BY TheArc
    <3>3. f.review = (n # 1) /\ f.ref = (n # 1) /\ f.leaked = FALSE
        BY <1>5, <1>15
    <3>4. s.routed = s.escalated
        BY <1>10, <3>1
    <3>5. QED
        BY <1>16, <2>5, <3>1, <3>2, <3>3, <3>4 DEF Fine
  <2>8. QED
      BY <2>4, <2>6, <2>7
<1>18. n + 1 # 7 /\ n + 1 # 8 /\ n + 1 \in 2..8 /\ n = (n + 1) - 1
    OBVIOUS
<1>19. QED
    BY <1>10, <1>13, <1>16, <1>17, <1>18 DEF Advances

\* The review queue is read, and nothing moves.
LEMMA ReviewQueueAdvances ==
    ASSUME NEW r, RunInv(r), Len(r.results) = 4, NEW key, key = STEP_KEYS[5],
           NEW left, left = After(r, key), NEW f, f = Facts(left, key)
    PROVE  Advances(r, 5, left, f)
<1>1. key = "review_queue" /\ key \notin DOMAIN CaseOf
    BY TheArc, TheCases
<1>2. left = r
    BY <1>1 DEF After
<1>3. r \in RunType /\ Books(r, 4) /\ r.outbox \in Seq({{}})
    BY DEF RunInv, RunType
<1>4. Books(left, 5)
  <2>1. Cases(5) = 3 /\ Cases(4) = 3
      BY DEF Cases
  <2>2. QED
      BY <1>2, <1>3, <2>1 DEF Books
<1>5. PICK pending \in Nat : pending = Len(r.outbox)
    BY <1>3
<1>6. f = [key |-> "review_queue", pending |-> pending, leaked |-> FALSE]
  <2>1. f = [key |-> "review_queue", pending |-> Len(r.outbox),
             leaked |-> \E i \in DOMAIN r.outbox : r.outbox[i] # {}]
      BY <1>1, <1>2 DEF Facts
  <2>2. (\E i \in DOMAIN r.outbox : r.outbox[i] # {}) = FALSE
      BY <1>3
  <2>3. QED
      BY <1>5, <2>1, <2>2
<1>7. f \in Fact /\ f.key = "review_queue" /\ f.pending = pending /\ f.leaked = FALSE
  <2>1. f \in [key: {"review_queue"}, pending: Nat, leaked: BOOLEAN]
      BY <1>5, <1>6
  <2>2. f \in Fact
      BY <2>1 DEF Fact
  <2>3. QED
      BY <1>1, <1>6, <2>2
<1>8. ASSUME CleanRun(r)
      PROVE  /\ CleanBooks(left, 5)
             /\ Fine([step |-> f, escalated |-> left.escalated, routed |-> left.routed])
  <2>1. CleanBooks(r, 4) /\ Cases(5) = 3 /\ Cases(4) = 3
      BY <1>8 DEF CleanRun, Cases
  <2>2. CleanBooks(left, 5) /\ pending = r.routed
      BY <1>2, <1>5, <2>1 DEF CleanBooks
  <2>3. PICK s : s = [step |-> f, escalated |-> left.escalated, routed |-> left.routed]
      OBVIOUS
  <2>4. s.step = f /\ s.routed = r.routed
      BY <1>2, <2>3
  <2>5. "review_queue" \in Step
      BY TheArc
  <2>6. Fine(s)
      BY <1>7, <2>2, <2>4, <2>5 DEF Fine
  <2>7. QED
      BY <2>2, <2>3, <2>6
<1>9. QED
    BY <1>1, <1>2, <1>3, <1>4, <1>7, <1>8 DEF Advances

\* The chain is walked: nothing was altered, so nothing is broken.
LEMMA AuditAdvances ==
    ASSUME NEW r, RunInv(r), Len(r.results) = 5, NEW key, key = STEP_KEYS[6],
           NEW left, left = After(r, key), NEW f, f = Facts(left, key)
    PROVE  Advances(r, 6, left, f) /\ Books(left, 5)
<1>1. key = "audit" /\ key \notin DOMAIN CaseOf
    BY TheArc, TheCases
<1>2. r \in RunType /\ Books(r, 5) /\ r.rows \in Seq(Row)
    BY DEF RunInv, RunType
<1>3. Cases(6) = 3 /\ Cases(5) = 3
    BY DEF Cases
<1>4. Broken(r.rows) = {}
  <2>1. PICK rows : rows = r.rows
      OBVIOUS
  <2>2. rows \in Seq(Row) /\ Sealed(rows) /\ Unaltered(rows)
      BY <1>2, <2>1 DEF Books
  <2>3. Broken(rows) = {i \in DOMAIN rows : rows[i].decision # Original(rows[i])}
      BY <2>2, BrokenAre
  <2>4. QED
      BY <2>1, <2>2, <2>3 DEF Unaltered
<1>5. left = [r EXCEPT !.chain_ok = TRUE]
  <2>1. left = [r EXCEPT !.chain_ok = Broken(r.rows) = {}]
      BY <1>1 DEF After
  <2>2. (Broken(r.rows) = {}) = TRUE
      BY <1>4
  <2>3. QED
      BY <2>1, <2>2
<1>6. /\ left \in RunType /\ left.results = r.results /\ left.cases = r.cases
      /\ left.escalated = r.escalated /\ left.routed = r.routed /\ left.chain_ok = TRUE
      /\ left.outbox = r.outbox /\ left.rows = r.rows
    BY <1>2, <1>5 DEF RunType
<1>7. Books(left, 5) /\ Books(left, 6)
    BY <1>2, <1>3, <1>6 DEF Books
<1>8. PICK entries \in Nat : entries = Len(r.rows)
    BY <1>2
<1>9. f = [key |-> "audit", chain_ok |-> TRUE, entries |-> entries]
    BY <1>1, <1>6, <1>8 DEF Facts
<1>10. f \in Fact /\ f.key = "audit" /\ f.chain_ok = TRUE /\ f.entries = entries
  <2>1. f \in [key: {"audit"}, chain_ok: BOOLEAN, entries: Nat]
      BY <1>8, <1>9
  <2>2. f \in Fact
      BY <2>1 DEF Fact
  <2>3. QED
      BY <1>1, <1>9, <2>2
<1>11. ASSUME CleanRun(r)
       PROVE  /\ CleanBooks(left, 6)
              /\ Fine([step |-> f, escalated |-> left.escalated, routed |-> left.routed])
  <2>1. CleanBooks(r, 5)
      BY <1>11 DEF CleanRun
  <2>2. CleanBooks(left, 6) /\ entries = 3
      BY <1>3, <1>6, <1>8, <2>1 DEF CleanBooks
  <2>3. PICK s : s = [step |-> f, escalated |-> left.escalated, routed |-> left.routed]
      OBVIOUS
  <2>4. "audit" \in Step
      BY TheArc
  <2>5. Fine(s)
      BY <1>10, <2>2, <2>3, <2>4 DEF Fine
  <2>6. QED
      BY <2>2, <2>3, <2>5
<1>12. QED
    BY <1>1, <1>6, <1>7, <1>10, <1>11 DEF Advances

\* The rewrite is detected when it changed a verdict, and only then.
LEMMA TamperAdvances ==
    ASSUME NEW r, RunInv(r), Len(r.results) = 6, NEW key, key = STEP_KEYS[7],
           NEW left, left = After(r, key), NEW f, f = Facts(left, key)
    PROVE  Advances(r, 7, left, f)
<1>1. key = "tamper" /\ key \notin DOMAIN CaseOf
    BY TheArc, TheCases
<1>2. r \in RunType /\ Books(r, 6) /\ r.rows \in Seq(Row) /\ r.cases \in Nat
    BY DEF RunInv, RunType
<1>3. Cases(7) = 3 /\ Cases(6) = 3
    BY DEF Cases
<1>4. PICK olds, rows : olds = r.rows /\ rows = Rewritten(olds)
    OBVIOUS
<1>5. olds \in Seq(Row) /\ Len(olds) >= 1 /\ Sealed(olds) /\ AlteredInMiddle(olds)
  <2>1. r.cases >= 3 /\ r.cases <= Len(olds) /\ Len(olds) \in Nat
      BY <1>2, <1>3, <1>4 DEF Books
  <2>2. QED
      BY <1>2, <1>4, <2>1 DEF Books
<1>6. PICK mid : mid = MiddleOf(olds)
    OBVIOUS
<1>7. /\ rows \in Seq(Row) /\ Len(rows) = Len(olds) /\ MiddleOf(rows) = mid
      /\ mid \in DOMAIN olds /\ Sealed(rows) /\ AlteredInMiddle(rows)
      /\ \A i \in DOMAIN olds : Original(rows[i]) = Original(olds[i])
      /\ Broken(rows) = IF Original(olds[mid]) = "escalated" THEN {mid} ELSE {}
    BY <1>4, <1>5, <1>6, RewriteBreaks
<1>8. PICK ok \in BOOLEAN : ok = (Broken(rows) = {})
    OBVIOUS
<1>9. left = [r EXCEPT !.rows = rows, !.chain_ok = ok]
    BY <1>1, <1>4, <1>8 DEF After
<1>10. /\ left \in RunType /\ left.results = r.results /\ left.cases = r.cases
       /\ left.escalated = r.escalated /\ left.routed = r.routed /\ left.chain_ok = ok
       /\ left.outbox = r.outbox /\ left.rows = rows
    BY <1>2, <1>7, <1>9 DEF RunType
<1>11. Books(left, 7)
  <2>1. /\ r.cases >= 3 /\ r.routed = r.escalated /\ r.routed <= Len(r.outbox)
        /\ r.escalated <= r.cases /\ r.cases <= Len(olds)
      BY <1>2, <1>3, <1>4 DEF Books
  <2>2. ~ok => Broken(rows) # {}
      BY <1>8
  <2>3. /\ left.cases >= 3 /\ left.routed = left.escalated /\ left.routed <= Len(left.outbox)
        /\ left.escalated <= left.cases /\ left.cases <= Len(left.rows)
      BY <1>7, <1>10, <2>1
  <2>4. Sealed(left.rows) /\ AlteredInMiddle(left.rows)
        /\ (~left.chain_ok => Broken(left.rows) # {})
      BY <1>7, <1>10, <2>2
  <2>5. QED
      BY <1>3, <2>3, <2>4 DEF Books
<1>12. PICK detected \in BOOLEAN : detected = (Broken(rows) # {} /\ Min(Broken(rows)) = mid)
    OBVIOUS
<1>13. detected <=> Original(rows[mid]) = "escalated"
  <2>1. Original(rows[mid]) = Original(olds[mid]) /\ mid \in Nat
      BY <1>5, <1>7
  <2>2. Min({mid}) = mid
      BY <2>1 DEF Min
  <2>3. QED
      BY <1>7, <1>12, <2>1, <2>2
<1>14. f = [key |-> key, chain_ok |-> ok, detected |-> detected]
    BY <1>1, <1>7, <1>10, <1>12 DEF Facts
<1>15. f \in Fact /\ f.key = "tamper" /\ f.chain_ok = ok /\ f.detected = detected
    BY <1>1, <1>14 DEF Fact
<1>16. ASSUME CleanRun(r)
       PROVE  /\ CleanBooks(left, 7)
              /\ Fine([step |-> f, escalated |-> left.escalated, routed |-> left.routed])
  <2>1. CleanBooks(r, 6)
      BY <1>16 DEF CleanRun
  <2>2. Len(olds) = 3 /\ Original(olds[2]) = "escalated"
      BY <1>3, <1>4, <2>1 DEF CleanBooks
  <2>3. mid = 2
      BY <1>6, <2>2 DEF MiddleOf
  <2>4. ok = FALSE /\ detected = TRUE
    <3>1. Broken(rows) = {2} /\ Original(rows[2]) = "escalated"
        BY <1>7, <2>2, <2>3
    <3>2. QED
        BY <1>8, <1>13, <2>3, <3>1
  <2>5. Original(rows[2]) = "escalated"
      BY <1>7, <2>2, <2>3
  <2>6. CleanBooks(left, 7)
      BY <1>3, <1>4, <1>7, <1>10, <2>1, <2>5 DEF CleanBooks
  <2>7. PICK s : s = [step |-> f, escalated |-> left.escalated, routed |-> left.routed]
      OBVIOUS
  <2>8. "tamper" \in Step
      BY TheArc
  <2>9. Fine(s)
      BY <1>15, <2>4, <2>7, <2>8 DEF Fine
  <2>10. QED
      BY <2>6, <2>7, <2>9
<1>17. QED
    BY <1>1, <1>7, <1>10, <1>11, <1>13, <1>15, <1>16 DEF Advances

\* Every port refuses or is absent, as the exit says.
LEMMA PortabilityAdvances ==
    ASSUME NEW r, RunInv(r), Len(r.results) = 7, NEW key, key = STEP_KEYS[8],
           NEW left, left = After(r, key), NEW f, f = Facts(left, key)
    PROVE  Advances(r, 8, left, f)
<1>1. key = "portability" /\ key \notin DOMAIN CaseOf
    BY TheArc, TheCases
<1>2. left = r
    BY <1>1 DEF After
<1>3. r \in RunType /\ Books(r, 7)
    BY DEF RunInv
<1>4. Books(left, 8)
  <2>1. Cases(8) = 3 /\ Cases(7) = 3
      BY DEF Cases
  <2>2. QED
      BY <1>2, <1>3, <2>1 DEF Books
<1>5. PICK refused, absent :
          /\ refused = {p \in EXIT_CALLS \ EXIT_ABSENT : Refuses(p)}
          /\ absent = {p \in EXIT_ABSENT : ~Refuses(p)}
    OBVIOUS
<1>6. refused \cup absent = EXIT_CALLS
    BY <1>5 DEF EXIT_CALLS, EXIT_ABSENT, Refuses
<1>7. f = [key |-> key, refused |-> refused, absent |-> absent]
    BY <1>1, <1>5 DEF Facts
<1>8. f \in Fact /\ f.key = "portability" /\ f.refused = refused /\ f.absent = absent
  <2>1. refused \in SUBSET EXIT_CALLS /\ absent \in SUBSET EXIT_CALLS
      BY <1>6
  <2>2. QED
      BY <1>1, <1>7, <2>1 DEF Fact
<1>9. ASSUME CleanRun(r)
      PROVE  /\ CleanBooks(left, 8)
             /\ Fine([step |-> f, escalated |-> left.escalated, routed |-> left.routed])
  <2>1. CleanBooks(r, 7) /\ Cases(8) = 3 /\ Cases(7) = 3
      BY <1>9 DEF CleanRun, Cases
  <2>2. CleanBooks(left, 8)
      BY <1>2, <2>1 DEF CleanBooks
  <2>3. PICK s : s = [step |-> f, escalated |-> left.escalated, routed |-> left.routed]
      OBVIOUS
  <2>4. "portability" \in Step
      BY TheArc
  <2>5. Fine(s)
      BY <1>6, <1>8, <2>3, <2>4 DEF Fine
  <2>6. QED
      BY <2>2, <2>3, <2>5
<1>10. QED
    BY <1>1, <1>2, <1>3, <1>4, <1>8, <1>9 DEF Advances

\* A run starts with the opening shown and nothing assessed.
LEMMA NewRunIs == RunInv(NewRun) /\ CleanRun(NewRun) /\ NewRun.results = <<Opened>>
<1> DEFINE r == NewRun
<1>1. /\ r.results = <<Opened>> /\ r.cases = 0 /\ r.escalated = 0 /\ r.routed = 0
      /\ r.chain_ok = TRUE /\ r.outbox = <<>> /\ r.rows = <<>>
    BY DEF NewRun
<1>2. Opened \in Fact /\ Opened.key = "opened" /\ Opened.profiles = {"gcp", "local", "onprem"}
  <2>1. Opened.key = "opened" /\ Opened.profiles = {"gcp", "local", "onprem"}
      BY DEF Opened
  <2>2. Opened \in [key: {"opened"}, profiles: {Opened.profiles}]
      BY <2>1 DEF Opened
  <2>3. QED
      BY <2>1, <2>2 DEF Fact
<1>3. r.results \in Seq(Fact) /\ Len(r.results) = 1 /\ r.results[1] = Opened
    BY <1>1, <1>2
<1>4. r \in RunType
  <2>1. <<>> \in Seq({{}}) /\ <<>> \in Seq(Row)
      OBVIOUS
  <2>2. QED
      BY <1>1, <1>3, <2>1 DEF NewRun, RunType
<1>5. Len(r.outbox) = 0 /\ Len(r.rows) = 0 /\ DOMAIN r.rows = {}
    BY <1>1
<1>6. Cases(1) = 0
    BY DEF Cases
<1>7. Books(r, 1)
    BY <1>1, <1>5, <1>6 DEF Books, Sealed, AlteredInMiddle, Unaltered
<1>8. RunInv(r)
  <2>1. \A i \in 1..1 : r.results[i].key = STEP_KEYS[i]
      BY <1>2, <1>3, TheArc
  <2>2. QED
      BY <1>3, <1>4, <1>7, <2>1 DEF RunInv
<1>9. CleanRun(r)
  <2>1. CleanBooks(r, 1)
      BY <1>1, <1>5, <1>6 DEF CleanBooks
  <2>2. Cardinality({"gcp", "local", "onprem"}) = 3
    <3>1. IsFiniteSet({}) /\ Cardinality({}) = 0
        BY FS_EmptySet
    <3>2. IsFiniteSet({"gcp"}) /\ Cardinality({"gcp"}) = 1
        BY FS_Singleton
    <3>3. IsFiniteSet({"gcp"} \cup {"local"}) /\ Cardinality({"gcp"} \cup {"local"}) = 2
        BY <3>2, FS_AddElement
    <3>4. Cardinality(({"gcp"} \cup {"local"}) \cup {"onprem"}) = 3
        BY <3>3, FS_AddElement
    <3>5. {"gcp", "local", "onprem"} = ({"gcp"} \cup {"local"}) \cup {"onprem"}
        OBVIOUS
    <3>6. QED
        BY <3>4, <3>5
  <2>3. PICK s : s = Snap(r)
      OBVIOUS
  <2>4. s.step = Opened
      BY <1>3, <2>3 DEF Snap, Last
  <2>5. Fine(s)
      BY <1>2, <2>2, <2>4, TheArc DEF Fine
  <2>6. QED
      BY <1>3, <2>1, <2>3, <2>5, NothingIsFound DEF CleanRun
<1>10. QED
    BY <1>1, <1>8, <1>9

LEMMA Unfinished ==
    ASSUME NEW r, RunInv(r), ~Done(r)
    PROVE  /\ Len(r.results) \in 1..7 /\ Upcoming(r) = STEP_KEYS[Len(r.results) + 1]
<1>1. PICK n \in 1..8 : Len(r.results) = n
    BY DEF RunInv
<1>2. ~(n >= 8)
    BY <1>1, TheArc DEF Done
<1>3. n \in 1..7
    BY <1>2
<1>4. QED
    BY <1>1, <1>3 DEF Upcoming

\* A step performed keeps the run what it is, and a clean one clean.
LEMMA PerformedKeeps ==
    ASSUME verdicts = ExpectedBreaches, NEW r, RunInv(r), ~Done(r),
           NEW new, new = Performed(r)
    PROVE  /\ RunInv(new) /\ Len(new.results) = Len(r.results) + 1
           /\ CleanRun(r) => CleanRun(new)
<1>1. PICK n \in 1..7 : Len(r.results) = n
    BY Unfinished
<1>2. PICK key, left, f : key = STEP_KEYS[n + 1] /\ left = After(r, key) /\ f = Facts(left, key)
    OBVIOUS
<1>3. new = [left EXCEPT !.results = Append(@, f)]
    BY <1>1, <1>2, Unfinished DEF Performed
<1>4. Advances(r, n + 1, left, f)
  <2>1. CASE n \in 1..3
      BY <1>1, <1>2, <2>1, CaseAdvances
  <2>2. CASE n = 4
    <3>1. Len(r.results) = 4 /\ n + 1 = 5
        BY <1>1, <2>2
    <3>2. Advances(r, 5, left, f)
        BY <1>2, <3>1, ReviewQueueAdvances
    <3>3. QED
        BY <3>1, <3>2
  <2>3. CASE n = 5
    <3>1. Len(r.results) = 5 /\ n + 1 = 6
        BY <1>1, <2>3
    <3>2. Advances(r, 6, left, f)
        BY <1>2, <3>1, AuditAdvances
    <3>3. QED
        BY <3>1, <3>2
  <2>4. CASE n = 6
    <3>1. Len(r.results) = 6 /\ n + 1 = 7
        BY <1>1, <2>4
    <3>2. Advances(r, 7, left, f)
        BY <1>2, <3>1, TamperAdvances
    <3>3. QED
        BY <3>1, <3>2
  <2>5. CASE n = 7
    <3>1. Len(r.results) = 7 /\ n + 1 = 8
        BY <1>1, <2>5
    <3>2. Advances(r, 8, left, f)
        BY <1>2, <3>1, PortabilityAdvances
    <3>3. QED
        BY <3>1, <3>2
  <2>6. QED
      BY <2>1, <2>2, <2>3, <2>4, <2>5
<1>5. new = Showing(left, f)
    BY <1>3 DEF Showing
<1>6. /\ RunInv(Showing(left, f)) /\ Len(Showing(left, f).results) = n + 1
      /\ CleanRun(r) => CleanRun(Showing(left, f))
    BY <1>4, AdvanceKeeps
<1>7. QED
    BY <1>1, <1>5, <1>6

\* A step that raises half-way shows nothing more, and leaves what was shown true.
LEMMA HalfDoneKeeps ==
    ASSUME verdicts = ExpectedBreaches, NEW r, RunInv(r), ~Done(r),
           NEW half, half \in HalfDone(r, Upcoming(r))
    PROVE  RunInv(half) /\ half.results = r.results
<1>1. PICK n \in 1..7 : Len(r.results) = n
    BY Unfinished
<1>2. PICK key : key = STEP_KEYS[n + 1] /\ half \in HalfDone(r, key)
    BY <1>1, Unfinished
<1>3. SUFFICES ASSUME half # r PROVE RunInv(half) /\ half.results = r.results
    OBVIOUS
<1>4. SUFFICES n < 7 /\ half \in RunType /\ half.results = r.results /\ Books(half, n)
    BY <1>1 DEF RunInv
<1>5. /\ r \in RunType /\ Books(r, n) /\ Cases(n) \in Nat
      /\ r.cases \in Nat /\ r.escalated \in Nat /\ r.rows \in Seq(Row)
  <2>1. r \in RunType /\ Books(r, n)
      BY <1>1 DEF RunInv
  <2>2. QED
      BY <2>1 DEF RunType, Cases
<1>6. ASSUME NEW tenant \in Tenant, n < 4, half = HandedOver(r, tenant)
      PROVE  half \in RunType /\ half.results = r.results /\ Books(half, n)
  <2>1. Sealed(r.rows) /\ Unaltered(r.rows)
      BY <1>5, <1>6 DEF Books
  <2>2. PICK olds, rows : olds = r.rows /\ rows = half.rows
      OBVIOUS
  <2>3. /\ half \in RunType /\ half.results = r.results /\ half.cases = r.cases
        /\ half.escalated = r.escalated /\ half.routed = r.routed /\ half.chain_ok = r.chain_ok
        /\ Len(half.outbox) = Len(r.outbox) + Reviews(tenant)
        /\ OneMore(olds, rows, Label(tenant))
      BY <1>5, <1>6, <2>1, <2>2, HandedOverIs
  <2>4. /\ Len(rows) = Len(olds) + 1 /\ Sealed(rows) /\ Unaltered(rows) /\ AlteredInMiddle(rows)
      BY <2>3 DEF OneMore, AlteredInMiddle, Unaltered
  <2>5. Len(r.outbox) \in Nat /\ Len(olds) \in Nat /\ Reviews(tenant) \in Nat
      BY <1>5, <2>2 DEF RunType, Reviews
  <2>6. /\ r.cases >= Cases(n) /\ r.routed = r.escalated /\ r.routed <= Len(r.outbox)
        /\ r.escalated <= r.cases /\ r.cases <= Len(olds) /\ r.chain_ok
      BY <1>5, <1>6, <2>2 DEF Books
  <2>7. half.routed <= Len(half.outbox) /\ half.cases <= Len(half.rows)
      BY <1>5, <2>2, <2>3, <2>4, <2>5, <2>6
  <2>8. QED
      BY <2>2, <2>3, <2>4, <2>6, <2>7 DEF Books
<1>7. CASE n = 1 \/ n = 2
  <2>1. key = "routine" \/ key = "escalation"
      BY <1>2, <1>7, TheArc
  <2>2. half = HandedOver(r, CaseOf[key]) /\ CaseOf[key] \in Tenant
      BY <1>2, <1>3, <2>1, TheCases DEF HalfDone, CutShort
  <2>3. QED
      BY <1>6, <1>7, <2>2
<1>8. CASE n = 3
  <2>1. key = "redaction"
      BY <1>2, <1>8, TheArc
  <2>2. (half = HandedOver(r, CaseOf[key]) \/ half = After(r, key)) /\ CaseOf[key] \in Tenant
      BY <1>2, <1>3, <2>1, TheCases DEF HalfDone, CutShort
  <2>3. CASE half = HandedOver(r, CaseOf[key])
      BY <1>6, <1>8, <2>2, <2>3
  <2>4. CASE half = After(r, key)
    <3>1. Len(r.results) = n /\ n \in 1..3 /\ key = STEP_KEYS[n + 1]
        BY <1>1, <1>2, <1>8
    <3>2. PICK f : f = Facts(half, key)
        OBVIOUS
    <3>3. Advances(r, n + 1, half, f)
        BY <2>4, <3>1, <3>2, CaseAdvances
    <3>4. half \in RunType /\ half.results = r.results /\ Books(half, 4)
        BY <1>8, <3>3 DEF Advances
    <3>5. Cases(3) = 2 /\ Cases(4) = 3 /\ half.cases \in Nat
        BY <3>4 DEF Cases, RunType
    <3>6. Books(half, 3)
        BY <3>4, <3>5 DEF Books
    <3>7. QED
        BY <1>8, <3>4, <3>6
  <2>5. QED
      BY <2>2, <2>3, <2>4
<1>9. CASE n = 4
  <2>1. key = "review_queue"
      BY <1>2, <1>9, TheArc
  <2>2. QED
      BY <1>2, <1>3, <2>1 DEF HalfDone
<1>10. CASE n = 5
  <2>1. key = "audit"
      BY <1>2, <1>10, TheArc
  <2>2. half = After(r, key)
      BY <1>2, <1>3, <2>1 DEF HalfDone
  <2>3. Advances(r, 6, half, Facts(half, key)) /\ Books(half, 5)
    <3>1. Len(r.results) = 5 /\ key = STEP_KEYS[6]
        BY <1>1, <1>2, <1>10
    <3>2. PICK f : f = Facts(half, key)
        OBVIOUS
    <3>3. Advances(r, 6, half, f) /\ Books(half, 5)
        BY <2>2, <3>1, <3>2, AuditAdvances
    <3>4. QED
        BY <3>2, <3>3
  <2>4. QED
      BY <1>10, <2>3 DEF Advances
<1>11. CASE n = 6
  <2>1. key = "tamper"
      BY <1>2, <1>11, TheArc
  <2>2. PICK olds, rows : olds = r.rows /\ rows = Rewritten(olds)
      OBVIOUS
  <2>3. half = [r EXCEPT !.rows = rows]
      BY <1>2, <1>3, <2>1, <2>2 DEF HalfDone
  <2>4. /\ r.cases >= 3 /\ r.routed = r.escalated /\ r.routed <= Len(r.outbox)
        /\ r.escalated <= r.cases /\ r.cases <= Len(olds) /\ r.chain_ok
        /\ Sealed(olds) /\ AlteredInMiddle(olds) /\ Cases(6) = 3
      BY <1>5, <1>11, <2>2 DEF Books, Cases
  <2>5. Len(olds) >= 1 /\ olds \in Seq(Row)
    <3>1. Len(olds) \in Nat
        BY <1>5, <2>2
    <3>2. QED
        BY <1>5, <2>2, <2>4, <3>1
  <2>6. rows \in Seq(Row) /\ Len(rows) = Len(olds) /\ Sealed(rows) /\ AlteredInMiddle(rows)
      BY <2>2, <2>4, <2>5, RewriteBreaks
  <2>7. /\ half \in RunType /\ half.results = r.results /\ half.cases = r.cases
        /\ half.escalated = r.escalated /\ half.routed = r.routed
        /\ half.chain_ok = r.chain_ok /\ half.outbox = r.outbox /\ half.rows = rows
      BY <1>5, <2>3, <2>6 DEF RunType
  <2>8. Books(half, 6)
      BY <2>4, <2>6, <2>7 DEF Books
  <2>9. QED
      BY <1>11, <2>7, <2>8
<1>12. CASE n = 7
  <2>1. key = "portability"
      BY <1>2, <1>12, TheArc
  <2>2. QED
      BY <1>2, <1>3, <2>1 DEF HalfDone
<1>13. QED
    BY <1>7, <1>8, <1>9, <1>10, <1>11, <1>12

-----------------------------------------------------------------------------
(* What the walkthrough reads. *)

LEMMA StateIs ==
    ASSUME starts \in 1..MaxStarts, NEW r, RunInv(r), NEW s, s = State(r)
    PROVE  /\ s \in Snapshot /\ SnapshotInv(s)
           /\ s.start = starts /\ s.done = Done(r) /\ s.index + 1 = Len(r.results)
           /\ s.step.key = STEP_KEYS[Len(r.results)]
           /\ CleanRun(r) => Problems(s) = {}
<1>1. PICK n \in 1..8 : Len(r.results) = n
    BY DEF RunInv
<1>2. /\ r \in RunType /\ \A i \in 1..n : r.results[i].key = STEP_KEYS[i]
    BY <1>1 DEF RunInv
<1>3. starts \in Nat
    BY BoundsAssumption
<1>4. Last(r.results) = r.results[n] /\ r.results[n] \in Fact /\ r.results[n].key = STEP_KEYS[n]
  <2>1. Last(r.results) = r.results[n]
      BY <1>1 DEF Last
  <2>2. PICK results \in Seq(Fact) : results = r.results
      BY <1>2 DEF RunType
  <2>3. results[n] \in Fact
      BY <1>1, <2>2
  <2>4. r.results[n].key = STEP_KEYS[n]
      BY <1>1, <1>2
  <2>5. QED
      BY <2>1, <2>2, <2>3, <2>4
<1>5. Done(r) \in BOOLEAN /\ (Done(r) <=> n = 8)
  <2>1. Done(r) \in BOOLEAN /\ (Done(r) <=> n >= 8)
      BY <1>1, TheArc DEF Done
  <2>2. (n >= 8) <=> n = 8
      BY <1>1
  <2>3. QED
      BY <2>1, <2>2
<1>6. Index(r) = n - 1 /\ n - 1 \in 0..7
    BY <1>1 DEF Index
<1>7. r.escalated \in Nat /\ r.routed \in Nat
    BY <1>2 DEF RunType
<1>8. s = [start |-> starts, step |-> r.results[n], index |-> n - 1, done |-> Done(r),
           escalated |-> r.escalated, routed |-> r.routed]
    BY <1>4, <1>6 DEF State
<1>9. s \in Snapshot
    BY <1>3, <1>4, <1>5, <1>6, <1>7, <1>8 DEF Snapshot
<1>10. /\ s.start = starts /\ s.done = Done(r) /\ s.index = n - 1 /\ s.step = r.results[n]
       /\ s.escalated = r.escalated /\ s.routed = r.routed
    BY <1>8
<1>11. SnapshotInv(s)
    BY <1>3, <1>4, <1>5, <1>6, <1>10 DEF SnapshotInv
<1>12. Problems(s) = Problems(Snap(r))
  <2>1. PICK t : t = Snap(r)
      OBVIOUS
  <2>2. t.step = s.step /\ t.escalated = s.escalated /\ t.routed = s.routed
      BY <1>4, <1>10, <2>1 DEF Snap
  <2>3. Problems(t) = Problems(s)
      BY <2>2 DEF Problems
  <2>4. QED
      BY <2>1, <2>3
<1>13. QED
    BY <1>1, <1>4, <1>9, <1>10, <1>11, <1>12 DEF CleanRun

LEMMA ProblemsAreNamed ==
    ASSUME NEW s, s.step.key \in Step
    PROVE  Problems(s) \in SUBSET Problem
<1>1. PICK f : f = s.step
    OBVIOUS
<1>2. f.key \in {"opened", "routine", "escalation", "redaction",
                 "review_queue", "audit", "tamper", "portability"}
    BY <1>1, TheArc DEF Step, Range
<1>3. CASE f.key = "opened"
    BY <1>1, <1>3 DEF Problems, Problem
<1>4. CASE f.key = "routine"
    BY <1>1, <1>4 DEF Problems, Problem
<1>5. CASE f.key = "escalation"
    BY <1>1, <1>5 DEF Problems, Problem
<1>6. CASE f.key = "redaction"
    BY <1>1, <1>6 DEF Problems, Problem
<1>7. CASE f.key = "review_queue"
    BY <1>1, <1>7 DEF Problems, Problem
<1>8. CASE f.key = "audit"
    BY <1>1, <1>8 DEF Problems, Problem
<1>9. CASE f.key = "tamper"
    BY <1>1, <1>9 DEF Problems, Problem
<1>10. CASE f.key = "portability"
    BY <1>1, <1>10 DEF Problems, Problem
<1>11. QED
    BY <1>2, <1>3, <1>4, <1>5, <1>6, <1>7, <1>8, <1>9, <1>10

\* A number a presenter types is brought into the arc.
LEMMA TargetIsAStep ==
    ASSUME NEW n \in Nat
    PROVE  Target(n) \in 1..8
<1>1. PICK low : low = Min({n, 8})
    OBVIOUS
<1>2. low \in {n, 8} /\ low <= 8
  <2>1. \E x \in {n, 8} : \A y \in {n, 8} : x <= y
      OBVIOUS
  <2>2. low \in {n, 8} /\ \A y \in {n, 8} : low <= y
      BY <1>1, <2>1 DEF Min
  <2>3. QED
      BY <2>2
<1>3. PICK high : high = Max({1, low})
    OBVIOUS
<1>4. high \in {1, low} /\ high >= 1
  <2>1. \E x \in {1, low} : \A y \in {1, low} : x >= y
      BY <1>2
  <2>2. high \in {1, low} /\ \A y \in {1, low} : high >= y
      BY <1>3, <2>1 DEF Max
  <2>3. QED
      BY <2>2
<1>5. Target(n) = high
    BY <1>1, <1>3, TheArc DEF Target
<1>6. QED
    BY <1>2, <1>4, <1>5

\* The server's answer to /next.
LEMMA AdvanceIs ==
    ASSUME verdicts = ExpectedBreaches, RunInv(run), faults \in 0..MaxFaults,
           faults = 0 => CleanRun(run), NEW raised \in BOOLEAN, Advance(raised)
    PROVE  /\ RunInv(run') /\ faults' \in 0..MaxFaults /\ faults' >= faults
           /\ faults' = 0 => CleanRun(run')
           /\ raised => faults' > 0
           /\ ~raised => faults' = faults
           /\ ~raised /\ ~Done(run) => Len(run'.results) = Len(run.results) + 1
<1>1. faults \in Nat /\ MaxFaults \in Nat
    BY BoundsAssumption
<1>2. CASE Done(run)
    BY <1>1, <1>2 DEF Advance
<1>3. CASE ~Done(run) /\ raised
  <2>1. faults < MaxFaults /\ faults' = faults + 1 /\ run' \in HalfDone(run, Upcoming(run))
      BY <1>3 DEF Advance
  <2>2. RunInv(run')
      BY <1>3, <2>1, HalfDoneKeeps
  <2>3. QED
      BY <1>1, <1>3, <2>1, <2>2
<1>4. CASE ~Done(run) /\ ~raised
  <2>1. run' = Performed(run) /\ faults' = faults
      BY <1>4 DEF Advance
  <2>2. RunInv(run') /\ Len(run'.results) = Len(run.results) + 1
        /\ (CleanRun(run) => CleanRun(run'))
      BY <1>4, <2>1, PerformedKeeps
  <2>3. QED
      BY <1>1, <1>4, <2>1, <2>2
<1>5. QED
    BY <1>2, <1>3, <1>4

-----------------------------------------------------------------------------
(* The steps of the walkthrough and of the page. *)

LEMMA InitHolds == BooksAreAsLabelled /\ Init => IInv
<1> SUFFICES ASSUME BooksAreAsLabelled, Init PROVE IInv
    OBVIOUS
<1>1. /\ verdicts = ExpectedBreaches /\ run = NewRun /\ starts = 1
      /\ asserted = {} /\ clicks = 0 /\ faults = 0
    BY DEF BooksAreAsLabelled, Init
<1>2. starts \in 1..MaxStarts /\ clicks \in 0..MaxClicks /\ faults \in 0..MaxFaults
    BY <1>1, BoundsAssumption
<1>3. RunInv(run) /\ CleanRun(run) /\ Len(run.results) = 1
    BY <1>1, NewRunIs
<1>4. PICK auto \in BOOLEAN : walker = Waiting(auto)
    BY DEF Init
<1>5. PICK s : s = State(NewRun)
    OBVIOUS
<1>6. s \in Snapshot /\ SnapshotInv(s)
    BY <1>1, <1>2, <1>3, <1>5, StateIs
<1>7. walker = [at |-> "start", target |-> 0, seen |-> {}, failures |-> {}, auto |-> auto,
                jumped |-> FALSE, verdict |-> "", state |-> s]
    BY <1>4, <1>5 DEF Waiting
<1>8. walker \in WalkerType
  <2>1. /\ "start" \in Stage /\ 0 \in 0..8 /\ {} \in SUBSET Step
        /\ {} \in SUBSET (Step \X Problem) /\ FALSE \in BOOLEAN /\ "" \in Outcome
      BY DEF Stage, Outcome
  <2>2. PICK seen \in SUBSET Step : {} = seen
      OBVIOUS
  <2>3. PICK failures \in SUBSET (Step \X Problem) : {} = failures
      OBVIOUS
  <2>4. walker = [at |-> "start", target |-> 0, seen |-> seen, failures |-> failures, auto |-> auto,
                  jumped |-> FALSE, verdict |-> "", state |-> s]
      BY <1>7, <2>2, <2>3
  <2>5. s \in Snapshot
      BY <1>6
  <2>6. QED
      BY <2>1, <2>4, <2>5 DEF WalkerType
<1>9. /\ walker.at = "start" /\ walker.target = 0 /\ walker.seen = {} /\ walker.failures = {}
      /\ walker.jumped = FALSE /\ walker.verdict = "" /\ walker.state = s
    BY <1>7
<1>10. WalkInv
    BY <1>1, <1>6, <1>9 DEF WalkInv
<1>11. UndisturbedInv
  <2>1. {STEP_KEYS[i] : i \in 1..(Len(run.results) - 1)} = {}
      BY <1>3
  <2>2. QED
      BY <1>1, <1>9, <2>1 DEF UndisturbedInv
<1>12. QED
    BY <1>1, <1>2, <1>3, <1>8, <1>10, <1>11 DEF IInv

LEMMA GetKeeps ==
    ASSUME IInv, Get
    PROVE  IInv'
<1>1. PICK s : s = State(run)
    OBVIOUS
<1>2. /\ RunInv(run) /\ walker \in WalkerType /\ WalkInv /\ UndisturbedInv
      /\ starts \in 1..MaxStarts
    BY DEF IInv
<1>3. s \in Snapshot /\ SnapshotInv(s) /\ s.done = Done(run)
    BY <1>1, <1>2, StateIs
<1>4. UNCHANGED <<verdicts, run, starts, asserted, clicks, faults>>
      /\ walker.at \in {"start", "posted"}
    BY DEF Get
<1>5. PICK heard : heard = [walker EXCEPT !.state = s]
    OBVIOUS
<1>6. walker' = [heard EXCEPT !.at = IF Short(heard) THEN "jumping" ELSE "check"]
    BY <1>1, <1>5 DEF Get
<1>7. /\ heard \in WalkerType /\ heard.state = s /\ heard.target = walker.target
      /\ heard.seen = walker.seen /\ heard.failures = walker.failures
      /\ heard.jumped = walker.jumped /\ heard.verdict = walker.verdict
    BY <1>2, <1>3, <1>5 DEF WalkerType
<1>8. /\ walker' \in WalkerType /\ walker'.state = s /\ walker'.target = walker.target
      /\ walker'.seen = walker.seen /\ walker'.failures = walker.failures
      /\ walker'.jumped = walker.jumped /\ walker'.verdict = walker.verdict
      /\ walker'.at = IF Short(heard) THEN "jumping" ELSE "check"
    BY <1>6, <1>7 DEF WalkerType, Stage
<1>9. walker.at # "over" /\ walker'.at # "over" /\ walker'.at \in {"jumping", "check"}
    BY <1>4, <1>8
<1>10. walker'.at = "jumping" => walker'.jumped
  <2>1. SUFFICES ASSUME Short(heard), walker.target = 0 PROVE FALSE
      BY <1>2, <1>8 DEF WalkInv
  <2>2. s.index \in 0..7
      BY <1>3 DEF SnapshotInv
  <2>3. s.index + 1 < 0
      BY <1>7, <2>1 DEF Short
  <2>4. QED
      BY <2>2, <2>3
<1>11. WalkInv'
    BY <1>2, <1>3, <1>4, <1>8, <1>9, <1>10 DEF WalkInv, SnapshotInv
<1>12. UndisturbedInv'
  <2>1. SUFFICES ASSUME clicks = 0 PROVE UndisturbedInv'
      BY <1>4 DEF UndisturbedInv
  <2>2. walker'.state = State(run)'
      BY <1>1, <1>4, <1>8 DEF State
  <2>3. walker.at \notin {"prompt", "conclude"} /\ walker'.at \notin {"prompt", "conclude"}
      BY <1>4, <1>9
  <2>4. ~walker'.jumped => walker'.at \notin {"prompt", "jumping", "conclude"}
      BY <1>9, <1>10
  <2>5. QED
      BY <1>2, <1>4, <1>8, <1>9, <2>1, <2>2, <2>3, <2>4 DEF UndisturbedInv
<1>13. QED
    BY <1>2, <1>4, <1>8, <1>11, <1>12 DEF IInv

LEMMA AssertStepKeeps ==
    ASSUME IInv, AssertStep
    PROVE  IInv'
<1>1. PICK s, key, problems : s = walker.state /\ key = s.step.key /\ problems = Problems(s)
    OBVIOUS
<1>2. /\ RunInv(run) /\ walker \in WalkerType /\ WalkInv /\ UndisturbedInv
      /\ starts \in 1..MaxStarts
    BY DEF IInv
<1>3. s \in Snapshot /\ SnapshotInv(s)
    BY <1>1, <1>2 DEF WalkerType, WalkInv
<1>4. key \in Step /\ s.start \in 1..starts /\ problems \in SUBSET Problem /\ s.done \in BOOLEAN
  <2>1. s.index + 1 \in 1..8
      BY <1>3 DEF SnapshotInv
  <2>2. key \in Step
      BY <1>1, <1>3, <2>1, TheArc DEF SnapshotInv
  <2>3. QED
      BY <1>1, <1>3, <2>2, ProblemsAreNamed DEF SnapshotInv
<1>5. UNCHANGED <<verdicts, run, starts, clicks, faults>> /\ walker.at = "check"
    BY DEF AssertStep
<1>6. PICK fine \in BOOLEAN : fine <=> problems = {}
    OBVIOUS
<1>7. asserted' = asserted \cup {<<s.start, key, fine>>}
  <2>1. fine = (problems = {})
      BY <1>6
  <2>2. QED
      BY <1>1, <2>1 DEF AssertStep
<1>8. PICK found : found = {<<key, p>> : p \in problems}
    OBVIOUS
<1>9. PICK at \in {"conclude", "prompt"} : at = IF s.done THEN "conclude" ELSE "prompt"
    OBVIOUS
<1>10. walker' = [walker EXCEPT !.seen = @ \cup {key}, !.failures = @ \cup found, !.at = at]
    BY <1>1, <1>8, <1>9 DEF AssertStep
<1>11. found \in SUBSET (Step \X Problem) /\ (fine <=> found = {})
  <2>1. \A p \in problems : <<key, p>> \in Step \X Problem
      BY <1>4
  <2>2. found \in SUBSET (Step \X Problem)
      BY <1>8, <2>1
  <2>3. problems = {} <=> found = {}
      BY <1>8
  <2>4. QED
      BY <1>6, <2>2, <2>3
<1>12. /\ walker' \in WalkerType /\ walker'.state = s /\ walker'.target = walker.target
       /\ walker'.seen = walker.seen \cup {key} /\ walker'.failures = walker.failures \cup found
       /\ walker'.jumped = walker.jumped /\ walker'.verdict = walker.verdict /\ walker'.at = at
  <2>1. walker.seen \cup {key} \in SUBSET Step
        /\ walker.failures \cup found \in SUBSET (Step \X Problem)
      BY <1>2, <1>4, <1>11 DEF WalkerType
  <2>2. QED
      BY <1>1, <1>2, <1>9, <1>10, <2>1 DEF WalkerType, Stage
<1>13. WalkInv'
  <2>1. \A n \in 1..starts, k \in Step : <<n, k, FALSE>> \in asserted' => walker'.failures # {}
    <3>1. SUFFICES ASSUME NEW n \in 1..starts, NEW k \in Step, <<n, k, FALSE>> \in asserted'
                   PROVE  walker.failures # {} \/ found # {}
        BY <1>12
    <3>2. CASE <<n, k, FALSE>> \in asserted
        BY <1>2, <3>2 DEF WalkInv
    <3>3. CASE <<n, k, FALSE>> = <<s.start, key, fine>>
        BY <1>11, <3>3
    <3>4. QED
        BY <1>7, <3>1, <3>2, <3>3
  <2>2. \A k \in walker'.seen : \E n \in 1..starts, b \in BOOLEAN : <<n, k, b>> \in asserted'
    <3>1. SUFFICES ASSUME NEW k \in walker'.seen
                   PROVE  \E n \in 1..starts, b \in BOOLEAN : <<n, k, b>> \in asserted'
        OBVIOUS
    <3>2. CASE k \in walker.seen
        BY <1>2, <1>7, <3>2 DEF WalkInv
    <3>3. CASE k = key
        BY <1>4, <1>6, <1>7, <3>3
    <3>4. QED
        BY <1>12, <3>2, <3>3
  <2>3. asserted' \subseteq (1..starts) \X Step \X BOOLEAN
    <3>1. asserted \subseteq (1..starts) \X Step \X BOOLEAN
        BY <1>2 DEF WalkInv
    <3>2. <<s.start, key, fine>> \in (1..starts) \X Step \X BOOLEAN
        BY <1>4, <1>6
    <3>3. QED
        BY <1>7, <3>1, <3>2
  <2>4. walker'.seen \subseteq Step
      BY <1>12 DEF WalkerType
  <2>5. SnapshotInv(walker.state)'
      BY <1>3, <1>5, <1>12 DEF SnapshotInv
  <2>6. walker.verdict = "" /\ walker'.verdict = "" /\ walker'.at \notin {"over", "jumping"}
      BY <1>2, <1>5, <1>9, <1>12 DEF WalkInv
  <2>7. QED
      BY <1>2, <1>5, <1>12, <2>1, <2>2, <2>3, <2>4, <2>5, <2>6 DEF WalkInv
<1>14. UndisturbedInv'
  <2>1. SUFFICES ASSUME clicks = 0 PROVE UndisturbedInv'
      BY <1>5 DEF UndisturbedInv
  <2>2. s = State(run) /\ faults = 0 /\ CleanRun(run)
      BY <1>1, <1>5, <2>1 DEF IInv, UndisturbedInv
  <2>3. s.start = starts /\ s.done = Done(run) /\ key = STEP_KEYS[Len(run.results)]
        /\ problems = {}
      BY <1>1, <1>2, <2>2, StateIs
  <2>4. walker'.state = State(run)'
      BY <1>5, <1>12, <2>2 DEF State
  <2>5. \A k \in walker'.seen : \E b \in BOOLEAN : <<starts, k, b>> \in asserted'
    <3>1. SUFFICES ASSUME NEW k \in walker'.seen
                   PROVE  \E b \in BOOLEAN : <<starts, k, b>> \in asserted'
        OBVIOUS
    <3>2. CASE k \in walker.seen
        BY <1>2, <1>7, <2>1, <3>2 DEF UndisturbedInv
    <3>3. CASE k = key
        BY <1>6, <1>7, <2>3, <3>3
    <3>4. QED
        BY <1>12, <3>2, <3>3
  <2>6. ASSUME ~walker.jumped
        PROVE  walker'.failures = {}
               /\ walker'.seen = {STEP_KEYS[i] : i \in 1..Len(run.results)}
    <3>1. PICK n \in 1..8 : Len(run.results) = n
        BY <1>2 DEF RunInv
    <3>2. walker.failures = {} /\ walker.seen = {STEP_KEYS[i] : i \in 1..(n - 1)}
        BY <1>2, <1>5, <2>1, <2>6, <3>1 DEF UndisturbedInv
    <3>3. found = {}
        BY <1>8, <2>3
    <3>4. {STEP_KEYS[i] : i \in 1..(n - 1)} \cup {STEP_KEYS[n]} = {STEP_KEYS[i] : i \in 1..n}
      <4>1. \A i \in 1..n : i \in 1..(n - 1) \/ i = n
          OBVIOUS
      <4>2. \A i \in 1..(n - 1) : i \in 1..n
          OBVIOUS
      <4>3. QED
          BY <4>1, <4>2
    <3>5. QED
        BY <1>12, <2>3, <3>1, <3>2, <3>3, <3>4
  <2>7. (at = "prompt" => ~Done(run)) /\ (at = "conclude" => Done(run))
      BY <1>9, <2>3
  <2>8. walker'.at = at /\ at \in {"prompt", "conclude"} /\ walker'.jumped = walker.jumped
      BY <1>9, <1>12
  <2>9. QED
      BY <1>5, <2>2, <2>4, <2>5, <2>6, <2>7, <2>8 DEF UndisturbedInv, Done
<1>15. QED
    BY <1>5, <1>12, <1>13, <1>14 DEF IInv

LEMMA PostNextKeeps ==
    ASSUME IInv, PostNext
    PROVE  IInv'
<1>1. /\ RunInv(run) /\ walker \in WalkerType /\ WalkInv /\ UndisturbedInv
      /\ starts \in 1..MaxStarts /\ faults \in 0..MaxFaults /\ faults \in Nat
    BY BoundsAssumption DEF IInv
<1>2. UNCHANGED <<verdicts, starts, asserted, clicks>> /\ walker.at \in {"prompt", "jumping"}
    BY DEF PostNext
<1>3. PICK raised \in BOOLEAN :
          /\ Advance(raised)
          /\ walker' = IF raised THEN [walker EXCEPT !.at = "over", !.verdict = "crashed"]
                       ELSE [walker EXCEPT !.at = "posted",
                                           !.target = IF walker.at = "jumping" THEN @ ELSE 0]
    BY DEF PostNext
<1>4. /\ RunInv(run') /\ faults' \in 0..MaxFaults /\ faults' >= faults
      /\ faults' = 0 => CleanRun(run')
      /\ raised => faults' > 0
      /\ ~raised => faults' = faults
      /\ ~raised /\ ~Done(run) => Len(run'.results) = Len(run.results) + 1
    BY <1>1, <1>3, AdvanceIs DEF IInv
<1>5. PICK target \in 0..8 : target = IF walker.at = "jumping" THEN walker.target ELSE 0
    BY <1>1 DEF WalkerType
<1>6. walker' = IF raised THEN [walker EXCEPT !.at = "over", !.verdict = "crashed"]
                ELSE [walker EXCEPT !.at = "posted", !.target = target]
    BY <1>3, <1>5
<1>7. /\ walker' \in WalkerType /\ walker'.state = walker.state
      /\ walker'.seen = walker.seen /\ walker'.failures = walker.failures
      /\ walker'.jumped = walker.jumped
      /\ walker'.target = IF raised THEN walker.target ELSE target
      /\ walker'.at = IF raised THEN "over" ELSE "posted"
      /\ walker'.verdict = IF raised THEN "crashed" ELSE walker.verdict
    BY <1>1, <1>5, <1>6 DEF WalkerType, Stage, Outcome
<1>8. WalkInv'
  <2>1. SnapshotInv(walker.state)'
      BY <1>1, <1>2, <1>7 DEF WalkInv, SnapshotInv
  <2>2. walker.verdict = ""
      BY <1>1, <1>2 DEF WalkInv
  <2>3. walker'.verdict = "crashed" => faults' > 0
      BY <1>4, <1>7, <2>2
  <2>4. walker'.jumped \/ walker'.target = 0
      BY <1>1, <1>5, <1>7 DEF WalkInv
  <2>5. /\ walker'.at = "over" <=> walker'.verdict # ""
        /\ walker'.verdict # "PASS" /\ walker'.verdict # "FAILED" /\ walker'.at # "jumping"
      BY <1>7, <2>2
  <2>6. QED
      BY <1>1, <1>2, <1>7, <2>1, <2>3, <2>4, <2>5 DEF WalkInv
<1>9. UndisturbedInv'
  <2>1. SUFFICES ASSUME clicks = 0 PROVE UndisturbedInv'
      BY <1>2 DEF UndisturbedInv
  <2>2. \A k \in walker'.seen : \E b \in BOOLEAN : <<starts, k, b>> \in asserted
      BY <1>1, <1>7, <2>1 DEF UndisturbedInv
  <2>3. CASE raised
      BY <1>2, <1>7, <2>2, <2>3 DEF UndisturbedInv
  <2>4. CASE ~raised
    <3>1. walker'.at = "posted" /\ faults' = 0
        BY <1>1, <1>2, <1>4, <1>7, <2>1, <2>4 DEF UndisturbedInv
    <3>2. ASSUME ~walker.jumped
          PROVE  walker'.failures = {}
                 /\ walker'.seen = {STEP_KEYS[i] : i \in 1..(Len(run'.results) - 1)}
      <4>1. PICK n \in 1..8 : Len(run.results) = n
          BY <1>1 DEF RunInv
      <4>2. walker.at = "prompt" /\ ~Done(run)
          BY <1>1, <1>2, <2>1, <3>2 DEF WalkInv, UndisturbedInv
      <4>3. walker.failures = {} /\ walker.seen = {STEP_KEYS[i] : i \in 1..n}
          BY <1>1, <2>1, <3>2, <4>1, <4>2 DEF UndisturbedInv
      <4>4. Len(run'.results) - 1 = n
          BY <1>4, <2>4, <4>1, <4>2
      <4>5. QED
          BY <1>7, <4>3, <4>4
    <3>3. QED
        BY <1>2, <1>7, <2>2, <3>1, <3>2 DEF UndisturbedInv
  <2>5. QED
      BY <2>3, <2>4
<1>10. QED
    BY <1>1, <1>2, <1>4, <1>7, <1>8, <1>9 DEF IInv

LEMMA ConcludeKeeps ==
    ASSUME IInv, Conclude
    PROVE  IInv'
<1>1. /\ RunInv(run) /\ walker \in WalkerType /\ WalkInv /\ UndisturbedInv
    BY DEF IInv
<1>2. UNCHANGED <<verdicts, run, starts, asserted, clicks, faults>> /\ walker.at = "conclude"
    BY DEF Conclude
<1>3. PICK verdict \in {"PASS", "FAILED"} :
          verdict = IF walker.failures = {} /\ Step \subseteq walker.seen THEN "PASS" ELSE "FAILED"
    OBVIOUS
<1>4. walker' = [walker EXCEPT !.at = "over", !.verdict = verdict]
    BY <1>3 DEF Conclude, Verdict
<1>5. /\ walker' \in WalkerType /\ walker'.state = walker.state
      /\ walker'.seen = walker.seen /\ walker'.failures = walker.failures
      /\ walker'.jumped = walker.jumped /\ walker'.target = walker.target
      /\ walker'.at = "over" /\ walker'.verdict = verdict
    BY <1>1, <1>3, <1>4 DEF WalkerType, Stage, Outcome
<1>6. ASSUME clicks = 0, ~walker.jumped
      PROVE  verdict = "PASS"
  <2>1. PICK n \in 1..8 : Len(run.results) = n
      BY <1>1 DEF RunInv
  <2>2. walker.failures = {} /\ Done(run) /\ walker.seen = {STEP_KEYS[i] : i \in 1..n}
      BY <1>1, <1>2, <1>6, <2>1 DEF UndisturbedInv
  <2>3. n >= 8
      BY <2>1, <2>2, TheArc DEF Done
  <2>4. n = 8
      BY <2>3
  <2>5. Step \subseteq walker.seen
      BY <2>2, <2>4, TheArc DEF Step, Range
  <2>6. QED
      BY <1>3, <2>2, <2>5
<1>7. WalkInv'
  <2>1. SnapshotInv(walker.state)'
      BY <1>1, <1>2, <1>5 DEF WalkInv, SnapshotInv
  <2>2. verdict = "PASS" => walker.failures = {} /\ Step \subseteq walker.seen
      BY <1>3
  <2>3. verdict = "FAILED" => clicks > 0 \/ walker.jumped
    <3>1. clicks \in Nat
        BY BoundsAssumption DEF IInv
    <3>2. QED
        BY <1>6, <3>1
  <2>4. verdict # "" /\ verdict # "crashed"
      BY <1>3
  <2>5. QED
      BY <1>1, <1>2, <1>5, <2>1, <2>2, <2>3, <2>4 DEF WalkInv
<1>8. UndisturbedInv'
    BY <1>1, <1>2, <1>5 DEF UndisturbedInv
<1>9. QED
    BY <1>2, <1>5, <1>7, <1>8 DEF IInv

LEMMA JumpKeeps ==
    ASSUME IInv, NEW number \in Numbers, Jump(number)
    PROVE  IInv'
<1>1. /\ RunInv(run) /\ walker \in WalkerType /\ WalkInv /\ UndisturbedInv
    BY DEF IInv
<1>2. UNCHANGED <<verdicts, run, starts, asserted, clicks, faults>> /\ walker.at = "prompt"
    BY DEF Jump
<1>3. PICK target \in 1..8 : target = Target(number)
    BY NumbersAssumption, TargetIsAStep
<1>4. PICK aimed : aimed = [walker EXCEPT !.target = target, !.jumped = TRUE]
    OBVIOUS
<1>5. PICK at \in {"jumping", "check"} : at = IF Short(aimed) THEN "jumping" ELSE "check"
    OBVIOUS
<1>6. walker' = [aimed EXCEPT !.at = at]
    BY <1>3, <1>4, <1>5 DEF Jump
<1>7. /\ aimed \in WalkerType /\ aimed.state = walker.state /\ aimed.seen = walker.seen
      /\ aimed.failures = walker.failures /\ aimed.jumped = TRUE /\ aimed.verdict = walker.verdict
  <2>1. target \in 0..8
      OBVIOUS
  <2>2. QED
      BY <1>1, <1>4, <2>1 DEF WalkerType
<1>8. /\ walker' \in WalkerType /\ walker'.state = walker.state /\ walker'.seen = walker.seen
      /\ walker'.failures = walker.failures /\ walker'.jumped = TRUE
      /\ walker'.verdict = walker.verdict /\ walker'.at = at
    BY <1>5, <1>6, <1>7 DEF WalkerType, Stage
<1>9. WalkInv'
  <2>1. SnapshotInv(walker.state)'
      BY <1>1, <1>2, <1>8 DEF WalkInv, SnapshotInv
  <2>2. walker.verdict = "" /\ at # "over"
      BY <1>1, <1>2, <1>5 DEF WalkInv
  <2>3. QED
      BY <1>1, <1>2, <1>8, <2>1, <2>2 DEF WalkInv
<1>10. UndisturbedInv'
  <2>1. State(run)' = State(run)
      BY <1>2 DEF State
  <2>2. at \notin {"over", "start", "posted"}
      BY <1>5
  <2>3. QED
      BY <1>1, <1>2, <1>8, <2>1, <2>2 DEF UndisturbedInv
<1>11. QED
    BY <1>2, <1>8, <1>9, <1>10 DEF IInv

\* A new run on the server.
LEMMA RestartIs ==
    ASSUME IInv, Restart
    PROVE  /\ starts' \in 1..MaxStarts /\ starts' > starts /\ starts \in Nat
           /\ RunInv(run') /\ CleanRun(run') /\ Len(run'.results) = 1
           /\ \A n \in 1..starts : n \in 1..starts'
<1>1. starts \in 1..MaxStarts /\ MaxStarts \in Nat
    BY BoundsAssumption DEF IInv
<1>2. starts < MaxStarts /\ starts' = starts + 1 /\ run' = NewRun
    BY DEF Restart
<1>3. RunInv(run') /\ CleanRun(run') /\ Len(run'.results) = 1
    BY <1>2, NewRunIs
<1>4. QED
    BY <1>1, <1>2, <1>3

\* What the walkthrough has asserted stays in the runs there are.
LEMMA AssertedStays ==
    ASSUME WalkInv, starts' > starts, starts \in Nat, starts' \in Nat, UNCHANGED asserted
    PROVE  /\ asserted' \subseteq (1..starts') \X Step \X BOOLEAN
           /\ \A n \in 1..starts', k \in Step :
                 <<n, k, FALSE>> \in asserted' => walker.failures # {}
           /\ \A k \in walker.seen : \E n \in 1..starts', b \in BOOLEAN : <<n, k, b>> \in asserted'
<1>1. 1..starts \subseteq 1..starts'
    OBVIOUS
<1>2. asserted \subseteq (1..starts) \X Step \X BOOLEAN
    BY DEF WalkInv
<1>3. asserted' \subseteq (1..starts') \X Step \X BOOLEAN
    BY <1>1, <1>2
<1>4. ASSUME NEW n \in 1..starts', NEW k \in Step, <<n, k, FALSE>> \in asserted'
      PROVE  walker.failures # {}
  <2>1. n \in 1..starts
      BY <1>2, <1>4
  <2>2. QED
      BY <1>4, <2>1 DEF WalkInv
<1>5. QED
    BY <1>1, <1>3, <1>4 DEF WalkInv

LEMMA StartOverKeeps ==
    ASSUME IInv, StartOver
    PROVE  IInv'
<1>1. /\ walker \in WalkerType /\ WalkInv /\ UndisturbedInv
      /\ starts \in 1..MaxStarts /\ faults \in 0..MaxFaults /\ clicks \in 0..MaxClicks
      /\ verdicts = ExpectedBreaches
    BY DEF IInv
<1>2. UNCHANGED <<verdicts, asserted, clicks, faults>> /\ walker.at = "prompt" /\ Restart
    BY DEF StartOver
<1>3. /\ starts' \in 1..MaxStarts /\ starts' > starts /\ starts \in Nat /\ starts' \in Nat
      /\ RunInv(run') /\ CleanRun(run') /\ Len(run'.results) = 1
      /\ \A n \in 1..starts : n \in 1..starts'
    BY <1>2, RestartIs, BoundsAssumption
<1>4. PICK none \in SUBSET Step : {} = none
    OBVIOUS
<1>5. walker' = [walker EXCEPT !.at = "posted", !.target = 0, !.seen = none]
    BY <1>4 DEF StartOver
<1>6. /\ walker' \in WalkerType /\ walker'.state = walker.state /\ walker'.seen = none
      /\ walker'.failures = walker.failures /\ walker'.jumped = walker.jumped
      /\ walker'.verdict = walker.verdict /\ walker'.at = "posted" /\ walker'.target = 0
  <2>1. none \in SUBSET Step /\ 0 \in 0..8 /\ "posted" \in Stage
      BY DEF Stage
  <2>2. walker \in WalkerType
      BY <1>1
  <2>3. QED
      BY <1>5, <2>1, <2>2 DEF WalkerType
<1>7. WalkInv'
  <2>1. SnapshotInv(walker.state)'
      BY <1>1, <1>3, <1>6 DEF WalkInv, SnapshotInv
  <2>2. walker.verdict = ""
      BY <1>1, <1>2 DEF WalkInv
  <2>3. /\ asserted' \subseteq (1..starts') \X Step \X BOOLEAN
        /\ \A n \in 1..starts', k \in Step :
              <<n, k, FALSE>> \in asserted' => walker'.failures # {}
      BY <1>1, <1>2, <1>3, <1>6, AssertedStays
  <2>4. walker'.seen = {}
      BY <1>4, <1>6
  <2>5. QED
      BY <1>6, <2>1, <2>2, <2>3, <2>4 DEF WalkInv
<1>8. UndisturbedInv'
  <2>1. SUFFICES ASSUME clicks = 0 PROVE UndisturbedInv'
      BY <1>2 DEF UndisturbedInv
  <2>2. faults' = 0 /\ (~walker.jumped => walker'.failures = {})
      BY <1>1, <1>2, <1>6, <2>1 DEF UndisturbedInv
  <2>3. walker'.seen = {} /\ {STEP_KEYS[i] : i \in 1..(Len(run'.results) - 1)} = {}
      BY <1>3, <1>4, <1>6
  <2>4. QED
      BY <1>6, <2>2, <2>3 DEF UndisturbedInv
<1>9. QED
    BY <1>1, <1>2, <1>3, <1>6, <1>7, <1>8 DEF IInv

LEMMA QuitKeeps ==
    ASSUME IInv, Quit
    PROVE  IInv'
<1>1. /\ walker \in WalkerType /\ WalkInv /\ UndisturbedInv
    BY DEF IInv
<1>2. UNCHANGED <<verdicts, run, starts, asserted, clicks, faults>>
    BY DEF Quit
<1>3. walker' = [walker EXCEPT !.at = "over", !.verdict = "quit"]
    BY DEF Quit
<1>4. /\ walker' \in WalkerType /\ walker'.state = walker.state
      /\ walker'.seen = walker.seen /\ walker'.failures = walker.failures
      /\ walker'.jumped = walker.jumped /\ walker'.target = walker.target
      /\ walker'.at = "over" /\ walker'.verdict = "quit"
    BY <1>1, <1>3 DEF WalkerType, Stage, Outcome
<1>5. WalkInv'
    BY <1>1, <1>2, <1>4 DEF WalkInv, SnapshotInv
<1>6. UndisturbedInv'
    BY <1>1, <1>2, <1>4 DEF UndisturbedInv
<1>7. QED
    BY <1>2, <1>4, <1>5, <1>6 DEF IInv

LEMMA ClickNextKeeps ==
    ASSUME IInv, ClickNext
    PROVE  IInv'
<1>1. /\ RunInv(run) /\ WalkInv /\ faults \in 0..MaxFaults /\ clicks \in 0..MaxClicks
      /\ faults \in Nat /\ clicks \in Nat /\ MaxClicks \in Nat
    BY BoundsAssumption DEF IInv
<1>2. UNCHANGED <<verdicts, starts, walker, asserted>>
      /\ clicks < MaxClicks /\ clicks' = clicks + 1
    BY DEF ClickNext
<1>3. PICK raised \in BOOLEAN : Advance(raised)
    BY DEF ClickNext
<1>4. /\ RunInv(run') /\ faults' \in 0..MaxFaults /\ faults' >= faults
      /\ faults' = 0 => CleanRun(run')
    BY <1>1, <1>3, AdvanceIs DEF IInv
<1>5. clicks' \in 0..MaxClicks /\ clicks' > 0 /\ clicks' # 0
    BY <1>1, <1>2
<1>6. WalkInv'
  <2>1. faults > 0 => faults' > 0
      BY <1>1, <1>4, BoundsAssumption
  <2>2. QED
      BY <1>1, <1>2, <1>5, <2>1 DEF WalkInv, SnapshotInv
<1>7. UndisturbedInv'
    BY <1>5 DEF UndisturbedInv
<1>8. QED
    BY <1>2, <1>4, <1>5, <1>6, <1>7 DEF IInv

LEMMA ClickRestartKeeps ==
    ASSUME IInv, ClickRestart
    PROVE  IInv'
<1>1. /\ WalkInv /\ clicks \in 0..MaxClicks /\ clicks \in Nat /\ MaxClicks \in Nat
    BY BoundsAssumption DEF IInv
<1>2. UNCHANGED <<verdicts, walker, asserted, faults>> /\ Restart
      /\ clicks < MaxClicks /\ clicks' = clicks + 1
    BY DEF ClickRestart
<1>3. /\ starts' \in 1..MaxStarts /\ starts' > starts /\ starts \in Nat /\ starts' \in Nat
      /\ RunInv(run') /\ CleanRun(run')
      /\ \A n \in 1..starts : n \in 1..starts'
    BY <1>2, RestartIs, BoundsAssumption
<1>4. clicks' \in 0..MaxClicks /\ clicks' > 0 /\ clicks' # 0
    BY <1>1, <1>2
<1>5. WalkInv'
  <2>1. SnapshotInv(walker.state)'
      BY <1>1, <1>2, <1>3 DEF WalkInv, SnapshotInv
  <2>2. /\ asserted' \subseteq (1..starts') \X Step \X BOOLEAN
        /\ \A n \in 1..starts', k \in Step : <<n, k, FALSE>> \in asserted' => walker.failures # {}
        /\ \A k \in walker.seen : \E n \in 1..starts', b \in BOOLEAN : <<n, k, b>> \in asserted'
      BY <1>1, <1>2, <1>3, AssertedStays
  <2>3. QED
      BY <1>1, <1>2, <1>4, <2>1, <2>2 DEF WalkInv
<1>6. UndisturbedInv'
    BY <1>4 DEF UndisturbedInv
<1>7. QED
    BY <1>2, <1>3, <1>4, <1>5, <1>6 DEF IInv

LEMMA StepKeeps == IInv /\ [Next]_vars => IInv'
<1> SUFFICES ASSUME IInv, [Next]_vars PROVE IInv'
    OBVIOUS
<1>1. CASE Get
    BY <1>1, GetKeeps
<1>2. CASE AssertStep
    BY <1>2, AssertStepKeeps
<1>3. CASE PostNext
    BY <1>3, PostNextKeeps
<1>4. CASE Conclude
    BY <1>4, ConcludeKeeps
<1>5. CASE \E n \in Numbers : Jump(n)
    BY <1>5, JumpKeeps
<1>6. CASE StartOver
    BY <1>6, StartOverKeeps
<1>7. CASE Quit
    BY <1>7, QuitKeeps
<1>8. CASE ClickNext
    BY <1>8, ClickNextKeeps
<1>9. CASE ClickRestart
    BY <1>9, ClickRestartKeeps
<1>10. CASE UNCHANGED vars
    BY <1>10 DEF vars, IInv, WalkInv, UndisturbedInv, SnapshotInv, State
<1>11. QED
    BY <1>1, <1>2, <1>3, <1>4, <1>5, <1>6, <1>7, <1>8, <1>9, <1>10 DEF Next, Walk

LEMMA Invariant == Spec /\ BooksAreAsLabelled => []IInv
BY InitHolds, StepKeeps, PTL DEF Spec

-----------------------------------------------------------------------------
(* What holds of every state of the demo. *)

\* Every value stays in its type: a result names a family of the pack and a
\* product of its book, a row's hash covers the rows up to it, and a number a
\* presenter types is brought into the arc.
THEOREM TypeCorrect == Spec /\ BooksAreAsLabelled => []TypeOK
<1>1. IInv => TypeOK
  <2> SUFFICES ASSUME IInv PROVE TypeOK
      OBVIOUS
  <2>1. /\ verdicts = ExpectedBreaches /\ walker \in WalkerType /\ RunInv(run) /\ WalkInv
        /\ starts \in 1..MaxStarts /\ clicks \in 0..MaxClicks /\ faults \in 0..MaxFaults
      BY DEF IInv
  <2>2. /\ DOMAIN verdicts = Tenant
        /\ \A t \in Tenant : verdicts[t] \subseteq (DOMAIN ReferencePack) \X (DOMAIN seed_frame(t))
    <3>1. DOMAIN ReferencePack = {"foreseeable_harm", "target_market_drift", "price_vs_value",
                                  "vulnerable_customer"}
        BY DEF ReferencePack
    <3>2. DOMAIN BreachingProducts = {"save", "loan", "isa", "packaged"}
        BY DEF BreachingProducts
    <3>3. ASSUME NEW t \in Tenant, t # "clean-bank"
          PROVE  DOMAIN seed_frame(t) = {"save", "loan", "isa", "packaged"}
        BY <3>2, <3>3 DEF seed_frame
    <3>4. QED
        BY <2>1, <3>1, <3>3 DEF ExpectedBreaches
  <2>3. /\ run \in RunType /\ Len(run.results) \in 1..8 /\ Sealed(run.rows)
      BY <2>1 DEF RunInv, Books
  <2>4. \A i \in DOMAIN run.rows :
           run.rows[i].decision \in {"allowed", "escalated"} /\ Len(run.rows[i].hash) = i
    <3>1. run.rows \in Seq(Row)
        BY <2>3 DEF RunType
    <3>2. \A i \in DOMAIN run.rows : run.rows[i] \in Row
        BY <3>1
    <3>3. QED
        BY <2>3, <3>2 DEF Row, Decision, Sealed
  <2>5. {run.cases, run.escalated, run.routed} \subseteq Nat /\ run.chain_ok \in BOOLEAN
      BY <2>3 DEF RunType
  <2>6. /\ walker.at \in {"start", "check", "prompt", "posted", "jumping", "conclude", "over"}
        /\ walker.target \in 0..8 /\ walker.seen \subseteq Step
        /\ {walker.auto, walker.jumped} \subseteq BOOLEAN
        /\ walker.verdict \in {"", "PASS", "FAILED", "quit", "crashed"}
      BY <2>1 DEF WalkerType, Stage, Outcome
  <2>7. asserted \subseteq (1..MaxStarts) \X Step \X BOOLEAN
    <3>1. 1..starts \subseteq 1..MaxStarts
        BY <2>1, BoundsAssumption
    <3>2. QED
        BY <2>1, <3>1 DEF WalkInv
  <2>8. QED
      BY <2>1, <2>2, <2>3, <2>4, <2>5, <2>6, <2>7, TheArc DEF TypeOK
<1>2. QED
    BY <1>1, Invariant, PTL

\* The self-test's exit status: PASS is given when every step of the arc was
\* asserted and found true and none was ever found false, of the run it ended on
\* when nobody else clicked; FAILED only when somebody clicked or a presenter
\* jumped; and it crashes only when a step raised.
THEOREM VerdictIsAlwaysJust == Spec /\ BooksAreAsLabelled => []VerdictIsJust
<1>1. IInv => VerdictIsJust
  <2> SUFFICES ASSUME IInv PROVE VerdictIsJust
      OBVIOUS
  <2>1. WalkInv /\ UndisturbedInv
      BY DEF IInv
  <2>2. ASSUME walker.verdict = "PASS", NEW key \in Step
        PROVE  /\ \E n \in 1..starts : <<n, key, TRUE>> \in asserted
               /\ \A n \in 1..starts : <<n, key, FALSE>> \notin asserted
               /\ clicks = 0 => <<starts, key, TRUE>> \in asserted
    <3>1. walker.failures = {} /\ key \in walker.seen
        BY <2>1, <2>2 DEF WalkInv
    <3>2. \A n \in 1..starts : <<n, key, FALSE>> \notin asserted
        BY <2>1, <3>1 DEF WalkInv
    <3>3. PICK n \in 1..starts, b \in BOOLEAN : <<n, key, b>> \in asserted
        BY <2>1, <3>1 DEF WalkInv
    <3>4. ASSUME clicks = 0 PROVE <<starts, key, TRUE>> \in asserted
      <4>1. PICK c \in BOOLEAN : <<starts, key, c>> \in asserted
          BY <2>1, <3>1, <3>4 DEF UndisturbedInv
      <4>2. starts \in 1..starts
          BY BoundsAssumption DEF IInv
      <4>3. QED
          BY <3>2, <4>1, <4>2
    <3>5. QED
        BY <3>2, <3>3, <3>4
  <2>3. QED
      BY <2>1, <2>2 DEF WalkInv, VerdictIsJust
<1>2. QED
    BY <1>1, Invariant, PTL

\* The page's figures agree with what the services hold: the steps shown are
\* the arc's in order, routed = escalated and all of them in the outbox, the
\* cases are in the trail, a trail reported broken is broken, and the rewrite of
\* a record is detected exactly when it changed a verdict.
THEOREM SnapshotAlwaysAddsUp == Spec /\ BooksAreAsLabelled => []SnapshotAddsUp
<1>1. IInv => SnapshotAddsUp
  <2> SUFFICES ASSUME IInv PROVE SnapshotAddsUp
      OBVIOUS
  <2>1. PICK n \in 1..8 : Len(run.results) = n
      BY DEF IInv, RunInv
  <2>2. /\ verdicts = ExpectedBreaches /\ run \in RunType /\ Books(run, n)
        /\ \A i \in 1..n : run.results[i].key = STEP_KEYS[i]
        /\ faults = 0 => CleanBooks(run, n)
      BY <2>1 DEF IInv, RunInv, CleanRun
  <2>3. IsPrefix(ResultKeys(run), STEP_KEYS)
    <3>1. PICK results \in Seq(Fact) : run.results = results
        BY <2>2 DEF RunType
    <3>2. PICK keys : keys = [i \in 1..n |-> results[i].key]
        OBVIOUS
    <3>3. ResultKeys(run) = keys
        BY <2>1, <3>1, <3>2 DEF ResultKeys
    <3>4. keys = [i \in 1..n |-> STEP_KEYS[i]]
        BY <2>2, <3>1, <3>2
    <3>5. Len(keys) = n
        BY <3>2
    <3>6. SubSeq(STEP_KEYS, 1, n) = [i \in 1..n |-> STEP_KEYS[i]]
        BY TheArc
    <3>7. QED
        BY <3>3, <3>4, <3>5, <3>6, TheArc DEF IsPrefix
  <2>4. faults = 0 => run.routed = Len(run.outbox) /\ run.cases = Len(run.rows)
      BY <2>2 DEF CleanBooks
  <2>5. ASSUME NEW i \in DOMAIN run.results, run.results[i].key = "tamper"
        PROVE  run.results[i].detected
                  <=> Last(run.rows[MiddleOf(run.rows)].hash) = "escalated"
    <3>1. i \in 1..n
        BY <2>1, <2>2 DEF RunType
    <3>2. i = 7 /\ n >= 7
        BY <2>2, <2>5, <3>1, TheArc
    <3>3. run.results[7].detected <=> Original(run.rows[MiddleOf(run.rows)]) = "escalated"
        BY <2>1, <3>2 DEF IInv, RunInv
    <3>4. QED
        BY <3>2, <3>3 DEF Original, Last
  <2>6. QED
      BY <2>2, <2>3, <2>4, <2>5 DEF Books, SnapshotAddsUp
<1>2. QED
    BY <1>1, Invariant, PTL
=============================================================================
