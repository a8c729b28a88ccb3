-------------------------- MODULE EvaluationsProofs --------------------------
(***************************************************************************)
(* Evaluations keeps its types, finalizes only complete runs, scores       *)
(* against the snapshot, freezes what ended and gates on what passed, for  *)
(* any number of runs, any dataset, any outcomes and any thresholds.       *)
(***************************************************************************)
EXTENDS Evaluations, FiniteSetTheorems, TLAPS

Done(r) == {x \in Originals(r) : result[x].status \in {"SUCCEEDED", "FAILED"}}

\* The counters of a run: its total is the number of original cases, and it never
\* counts more of them as completed than have ended.
RunOK(r) ==
    /\ run[r].status = "none" => \A x \in Results : RunOf(x) = r => result[x].status = "none"
    /\ run[r].total = Cardinality(Originals(r))
    /\ run[r].completed <= Cardinality(Done(r))

\* Until it writes the result a worker finds it as it left it or failed by the
\* sweep; a result has a snapshot, and only a scored one has passed.
CaseOK(x) ==
    /\ worker[x] \in {"claimed", "created", "executing"} => result[x].status \in {"RUNNING", "FAILED"}
    /\ worker[x] # "none" => result[x].status # "none"
    /\ result[x].status # "none" => snapshot[RunOf(x)][CaseOf(x)] \in Specs
    /\ result[x].score.passed = "yes" => result[x].status = "SUCCEEDED"

IInv ==
    /\ TypeOK
    /\ \A r \in Runs : RunOK(r)
    /\ \A x \in Results : CaseOK(x)
    /\ FinalizedIsComplete
    /\ ScoredAgainstSnapshot

-----------------------------------------------------------------------------
\* A run has finitely many original results.
AllOriginals(r) == {x \in Results : RunOf(x) = r /\ ~IsReplay(x)}

LEMMA AllFinite ==
    ASSUME NEW r \in Runs
    PROVE  IsFiniteSet(AllOriginals(r))
<1> DEFINE all == {<<r, c, 0>> : c \in Cases}
           f == [c \in Cases |-> <<r, c, 0>>]
<1>1. f \in Surjection(Cases, all)
  BY DEF Surjection
<1>2. IsFiniteSet(all)
  BY <1>1, FS_Surjection, EvaluationsAssumption
<1>3. AllOriginals(r) \subseteq all
  <2> SUFFICES ASSUME NEW x \in AllOriginals(r) PROVE x \in all
    OBVIOUS
  <2>1. x \in Results /\ x[1] = r /\ ~(x[3] > 0)
    BY DEF AllOriginals, RunOf, IsReplay
  <2>2. PICK c \in Cases, i \in 0..MaxReplays : x = <<x[1], c, i>>
    BY <2>1 DEF Results
  <2>3. i = 0
    BY <2>1, <2>2, EvaluationsAssumption
  <2> QED
    BY <2>1, <2>2, <2>3
<1> QED
  BY <1>2, <1>3, FS_Subset

LEMMA OriginalsFinite ==
    ASSUME NEW r \in Runs
    PROVE  /\ IsFiniteSet(Originals(r)) /\ Cardinality(Originals(r)) \in Nat
           /\ \A S \in SUBSET Originals(r) :
                /\ IsFiniteSet(S) /\ Cardinality(S) \in Nat
                /\ Cardinality(S) <= Cardinality(Originals(r))
                /\ Cardinality(S) = Cardinality(Originals(r)) => S = Originals(r)
<1>1. Originals(r) \subseteq AllOriginals(r)
  BY DEF Originals, AllOriginals
<1>2. IsFiniteSet(Originals(r))
  BY <1>1, AllFinite, FS_Subset
<1>3. \A S \in SUBSET Originals(r) :
         /\ IsFiniteSet(S) /\ Cardinality(S) <= Cardinality(Originals(r))
         /\ Cardinality(S) = Cardinality(Originals(r)) => S = Originals(r)
  BY <1>2, FS_Subset
<1> QED
  BY <1>2, <1>3, FS_CardinalityType

\* The row a failed case is written with, and the scores score_case computes.
LEMMA FailedScore ==
    ASSUME NEW s \in ScoreRows, NEW c \in {"HARNESS", "CRASH"}
    PROVE  /\ [s EXCEPT !.passed = "no", !.code = c] \in ScoreRows
           /\ [s EXCEPT !.passed = "no", !.code = c].passed = "no"
BY DEF ScoreRows, FailureCodes

LEMMA ScoreType == \A o, e : score_case(o, e) \in ScoreRows
<1> SUFFICES ASSUME NEW o, NEW e PROVE score_case(o, e) \in ScoreRows
  OBVIOUS
<1> DEFINE when(cond, code) == IF cond THEN <<code>> ELSE <<>>
<1>1. <<>> \in Seq(FailureCodes) /\ \A code \in FailureCodes : <<code>> \in Seq(FailureCodes)
  OBVIOUS
<1>2. \A s, t \in Seq(FailureCodes) : s \o t \in Seq(FailureCodes)
  OBVIOUS
<1>3. {"BUDGET_EXCEEDED", "AGENT_EXECUTION_FAILED", "FORBIDDEN_TOOL_VIOLATION",
       "OUTCOME_MISMATCH", "APPROVAL_VIOLATION", ""} \subseteq FailureCodes
  BY DEF FailureCodes
<1>4. Violations(o, e) \in Seq(FailureCodes)
  <2> DEFINE executed == ExecutedKeys(o.calls)
             v1 == when(o.status = "BUDGET_EXCEEDED", "BUDGET_EXCEEDED")
             v2 == when(o.status = "FAILED", "AGENT_EXECUTION_FAILED")
             v3 == when(Range(executed) \cap e.forbidden # {}, "FORBIDDEN_TOOL_VIOLATION")
             v4 == when(e.allowed # {} /\ ~(Range(executed) \subseteq e.allowed), "OUTCOME_MISMATCH")
             v5 == when(~SequenceCompliant(e, executed), "OUTCOME_MISMATCH")
             v6 == when(e.approval # "any" /\ ~ApprovalCompliant(e.approval, o), "APPROVAL_VIOLATION")
             v7 == when(\E a \in e.assertions : ~OutcomeAssertion(a, o), "OUTCOME_MISMATCH")
  <2>1. /\ v1 \in Seq(FailureCodes) /\ v2 \in Seq(FailureCodes) /\ v3 \in Seq(FailureCodes)
        /\ v4 \in Seq(FailureCodes) /\ v5 \in Seq(FailureCodes) /\ v6 \in Seq(FailureCodes)
        /\ v7 \in Seq(FailureCodes)
    <3>1. v1 \in {<<>>, <<"BUDGET_EXCEEDED">>} /\ v2 \in {<<>>, <<"AGENT_EXECUTION_FAILED">>}
      BY Zenon
    <3>2. v3 \in {<<>>, <<"FORBIDDEN_TOOL_VIOLATION">>} /\ v4 \in {<<>>, <<"OUTCOME_MISMATCH">>}
      BY Zenon
    <3>3. v5 \in {<<>>, <<"OUTCOME_MISMATCH">>} /\ v6 \in {<<>>, <<"APPROVAL_VIOLATION">>}
      BY Zenon
    <3>4. v7 \in {<<>>, <<"OUTCOME_MISMATCH">>}
      BY Zenon
    <3> HIDE DEF v1, v2, v3, v4, v5, v6, v7
    <3> QED
      BY <1>1, <1>3, <3>1, <3>2, <3>3, <3>4
  <2>2. Violations(o, e) = v1 \o v2 \o v3 \o v4 \o v5 \o v6 \o v7
    BY DEF Violations
  <2> HIDE DEF v1, v2, v3, v4, v5, v6, v7
  <2> QED
    BY <1>2, <2>1, <2>2
<1>5. Violations(o, e) # <<>> => Head(Violations(o, e)) \in FailureCodes
  BY <1>4
<1> DEFINE v == Violations(o, e)
           passed == IF v = <<>> THEN "yes" ELSE "no"
           code == IF v = <<>> THEN "" ELSE Head(v)
           forbidden == "FORBIDDEN_TOOL_VIOLATION" \in Range(v)
           approval == "APPROVAL_VIOLATION" \in Range(v)
           handoff == o.status = "HANDED_OFF"
<1>6. passed \in {"null", "yes", "no"} /\ code \in FailureCodes
  BY <1>3, <1>5
<1>7. forbidden \in BOOLEAN /\ approval \in BOOLEAN /\ handoff \in BOOLEAN
  <2>1. forbidden \in BOOLEAN
    OBVIOUS
  <2>2. approval \in BOOLEAN
    OBVIOUS
  <2>3. handoff \in BOOLEAN
    OBVIOUS
  <2> QED
    BY <2>1, <2>2, <2>3
<1>8. score_case(o, e) = [passed |-> passed, code |-> code, forbidden |-> forbidden,
                          approval |-> approval, handoff |-> handoff]
  BY Zenon DEF score_case
<1> HIDE DEF passed, code, forbidden, approval, handoff
<1> QED
  BY <1>6, <1>7, <1>8 DEF ScoreRows

\* What a step may do to a result.
CaseStep(x) ==
    \/ result'[x] = result[x]
    \/ /\ result[x].status = "none" /\ result'[x].status = "PENDING"
       /\ result'[x].score.passed # "yes"
       /\ \/ IsReplay(x) /\ run[RunOf(x)].status # "none" /\ snapshot[RunOf(x)][CaseOf(x)] \in Specs
          \/ /\ run[RunOf(x)].status = "none" /\ run'[RunOf(x)].status # "none"
             /\ snapshot'[RunOf(x)][CaseOf(x)] \in Specs
    \/ /\ result[x].status = "PENDING" /\ result'[x].status \in {"RUNNING", "CANCELLED"}
       /\ result'[x].score = result[x].score
    \/ /\ result[x].status \in {"RUNNING", "FAILED"} /\ result'[x].status = "FAILED"
       /\ result'[x].score.passed = "no"
    \/ /\ result[x].status \in {"RUNNING", "FAILED"} /\ result'[x].status = "SUCCEEDED"
       /\ \E o \in Outcomes : result'[x].score = score_case(o, Expected(x))

\* What a step may do to a run.
RunStep(r) ==
    \/ run'[r] = run[r]
    \/ /\ run[r].status = "none" /\ run'[r].status = "PENDING"
       /\ run'[r].total = Cardinality(Originals(r)') /\ run'[r].completed = 0
    \/ /\ run[r].status = "PENDING" /\ run'[r].status = "RUNNING"
       /\ run'[r].total = run[r].total /\ run'[r].completed = run[r].completed
    \/ /\ run[r].status # "none" /\ run'[r].total = run[r].total
       /\ run'[r].completed = Cardinality(Done(r)')
       /\ \/ run'[r].status = run[r].status
          \/ run[r].status \in {"PENDING", "RUNNING"} /\ run'[r].status = "CANCELLED"
    \/ /\ run[r].status = "RUNNING" /\ run[r].completed >= run[r].total
       /\ run'[r].total = run[r].total /\ run'[r].completed = run[r].completed
       /\ run'[r].status \in {"FAILED", "PARTIAL", "SUCCEEDED"}
       /\ run'[r].status = "SUCCEEDED" => \A x \in Originals(r) : result[x].status # "FAILED"
       /\ result' = result

Steps ==
    /\ \A x \in Results : CaseStep(x)
    /\ \A r \in Runs : RunStep(r)
    /\ \A r \in Runs : run[r].status # "none" => snapshot'[r] = snapshot[r]
    /\ \A x \in Results : worker'[x] \in {"claimed", "created", "executing"} =>
          \/ /\ worker[x] \in {"claimed", "created", "executing"}
             /\ result'[x].status \in {result[x].status, "FAILED"}
          \/ result'[x].status = "RUNNING"
    /\ \A x \in Results : worker[x] = "none" /\ worker'[x] # "none" => result'[x].status # "none"

-----------------------------------------------------------------------------
\* The original results of a run that was started stay the same rows.
LEMMA OriginalsKept ==
    ASSUME Steps, NEW r \in Runs, run[r].status # "none"
    PROVE  Originals(r)' = Originals(r)
<1>1. ASSUME NEW x \in Results, RunOf(x) = r, ~IsReplay(x)
      PROVE  result'[x].status # "none" <=> result[x].status # "none"
  BY <1>1 DEF Steps, CaseStep
<1> QED
  BY <1>1 DEF Originals

\* What ended stays ended, so the counters never get ahead of the results.
LEMMA StepsInv ==
    ASSUME IInv, TypeOK', Steps
    PROVE  IInv'
<1>0. /\ run \in [Runs -> [status : RunStatuses, total : Nat, completed : Nat, passed : Nat]]
      /\ run' \in [Runs -> [status : RunStatuses, total : Nat, completed : Nat, passed : Nat]]
  BY DEF IInv, TypeOK
<1>1. ASSUME NEW x \in Results PROVE RunOf(x) \in Runs /\ CaseOf(x) \in Cases
  BY DEF Results, RunOf, CaseOf
<1>2. ASSUME NEW x \in Results, result[x].status # "none"
      PROVE  run[RunOf(x)].status # "none" /\ snapshot'[RunOf(x)] = snapshot[RunOf(x)]
  BY <1>1, <1>2 DEF IInv, RunOK, Steps
<1>3. \A x \in Results : CaseOK(x)'
  <2> SUFFICES ASSUME NEW x \in Results PROVE CaseOK(x)'
    OBVIOUS
  <2>1. CaseOK(x) /\ CaseStep(x)
    BY DEF IInv, Steps
  <2>2. worker'[x] \in {"claimed", "created", "executing"} =>
           \/ /\ worker[x] \in {"claimed", "created", "executing"}
              /\ result'[x].status \in {result[x].status, "FAILED"}
           \/ result'[x].status = "RUNNING"
    BY DEF Steps
  <2>3. run[RunOf(x)].status # "none" => snapshot'[RunOf(x)] = snapshot[RunOf(x)]
    BY <1>1 DEF Steps
  <2>4. worker'[x] \in {"claimed", "created", "executing"} =>
           result'[x].status \in {"RUNNING", "FAILED"}
    BY <2>1, <2>2 DEF CaseOK
  <2>5. result'[x].status # "none" => snapshot'[RunOf(x)][CaseOf(x)] \in Specs
    BY <1>2, <2>1, <2>3 DEF CaseOK, CaseStep
  <2>6. result'[x].score.passed = "yes" => result'[x].status = "SUCCEEDED"
    BY <2>1 DEF CaseOK, CaseStep
  <2>7. worker'[x] # "none" => result'[x].status # "none"
    <3>1. worker[x] = "none" /\ worker'[x] # "none" => result'[x].status # "none"
      BY DEF Steps
    <3> QED
      BY <2>1, <3>1 DEF CaseOK, CaseStep
  <2> QED
    BY <2>4, <2>5, <2>6, <2>7 DEF CaseOK, RunOf, CaseOf
<1>4. ScoredAgainstSnapshot'
  <2> SUFFICES ASSUME NEW x \in Results, result'[x].status = "SUCCEEDED"
               PROVE  /\ snapshot'[RunOf(x)][CaseOf(x)] \in Specs
                      /\ \E o \in Outcomes : result'[x].score =
                            score_case(o, snapshot'[RunOf(x)][CaseOf(x)].expectations)
    BY DEF ScoredAgainstSnapshot, RunOf, CaseOf
  <2>1. /\ snapshot'[RunOf(x)][CaseOf(x)] \in Specs /\ result[x].status # "none"
    BY <1>3 DEF CaseOK, RunOf, CaseOf, Steps, CaseStep
  <2>2. snapshot'[RunOf(x)] = snapshot[RunOf(x)]
    BY <1>2, <2>1
  <2> QED
    BY <2>1, <2>2 DEF IInv, ScoredAgainstSnapshot, Steps, CaseStep, Expected
<1>5. ASSUME NEW r \in Runs, run[r].status # "none"
      PROVE  /\ Originals(r)' = Originals(r)
             /\ Done(r) \subseteq Done(r)' /\ Done(r)' \subseteq Originals(r)
             /\ Cardinality(Done(r)) \in Nat /\ Cardinality(Done(r)') \in Nat
             /\ Cardinality(Originals(r)) \in Nat
             /\ Cardinality(Done(r)) <= Cardinality(Done(r)')
             /\ Cardinality(Done(r)') <= Cardinality(Originals(r))
             /\ Cardinality(Done(r)) = Cardinality(Originals(r)) => Done(r) = Originals(r)
             /\ Cardinality(Done(r)') = Cardinality(Originals(r)) => Done(r)' = Originals(r)
  <2>1. Originals(r)' = Originals(r)
    BY <1>5, OriginalsKept
  <2>2. Done(r) \subseteq Done(r)' /\ Done(r)' \subseteq Originals(r) /\ Done(r) \subseteq Originals(r)
    BY <2>1 DEF Done, Steps, CaseStep, Originals
  <2>3. IsFiniteSet(Done(r)')
    BY <2>2, OriginalsFinite
  <2> QED
    BY <2>1, <2>2, <2>3, OriginalsFinite, FS_Subset
<1>6. ASSUME NEW r \in Runs PROVE RunOK(r)'
  <2>1. RunOK(r) /\ RunStep(r)
    BY DEF IInv, Steps
  <2>2. CASE run[r].status = "none"
    <3>1. CASE run'[r] = run[r]
      <4>1. \A x \in Results : RunOf(x) = r => result[x].status = "none"
        BY <2>1, <2>2 DEF RunOK
      <4>2. \A x \in Results : RunOf(x) = r => result'[x].status = "none"
        BY <2>2, <3>1, <4>1 DEF Steps, CaseStep
      <4>3. Originals(r)' = Originals(r) /\ Done(r)' = Done(r)
        BY <4>1, <4>2 DEF Originals, Done
      <4> QED
        BY <2>1, <3>1, <4>2, <4>3 DEF RunOK, RunOf
    <3>2. CASE run'[r] # run[r]
      <4>1. /\ run'[r].status = "PENDING"
            /\ run'[r].total = Cardinality(Originals(r)') /\ run'[r].completed = 0
        BY <2>1, <2>2, <3>2 DEF RunStep
      <4>2. Cardinality(Done(r)') \in Nat
        <5>1. Done(r)' \subseteq AllOriginals(r)
          BY DEF Done, Originals, AllOriginals
        <5> QED
          BY <5>1, AllFinite, FS_Subset, FS_CardinalityType
      <4> QED
        BY <4>1, <4>2 DEF RunOK
    <3> QED
      BY <3>1, <3>2
  <2>3. CASE run[r].status # "none"
    BY <1>0, <1>5, <2>1, <2>3 DEF RunOK, RunStep
  <2> QED
    BY <2>2, <2>3
<1>7. FinalizedIsComplete'
  <2> SUFFICES ASSUME NEW r \in Runs, run'[r].status \in RunTerminal \ {"CANCELLED"}
               PROVE  /\ \A x \in Originals(r)' : result'[x].status \in {"SUCCEEDED", "FAILED"}
                      /\ run'[r].completed = run'[r].total
                      /\ run'[r].total = Cardinality(Originals(r)')
                      /\ run'[r].status = "SUCCEEDED" =>
                           \A x \in Originals(r)' : result'[x].status = "SUCCEEDED"
    BY DEF FinalizedIsComplete
  <2>1. RunOK(r) /\ RunStep(r)
    BY DEF IInv, Steps
  <2>2. run[r].status # "none"
    BY <2>1 DEF RunStep, RunTerminal
  <2>3. CASE run[r].status \in RunTerminal \ {"CANCELLED"}
    <3>1. /\ \A x \in Originals(r) : result[x].status \in {"SUCCEEDED", "FAILED"}
          /\ run[r].completed = run[r].total /\ run[r].total = Cardinality(Originals(r))
          /\ run[r].status = "SUCCEEDED" => \A x \in Originals(r) : result[x].status = "SUCCEEDED"
      BY <2>3 DEF IInv, FinalizedIsComplete
    <3>2. run'[r].status = run[r].status /\ run'[r].total = run[r].total
      BY <2>1, <2>3 DEF RunStep, RunTerminal
    <3>3. Done(r) = Originals(r) /\ Done(r)' = Originals(r)
      BY <1>5, <2>2, <3>1 DEF Done
    <3>4. run'[r].completed = run'[r].total
      BY <2>1, <2>3, <3>1, <3>2, <3>3 DEF RunStep, RunTerminal
    <3>5. \A x \in Originals(r) : /\ x \in Results
                                  /\ result'[x].status \in {"SUCCEEDED", "FAILED"}
                                  /\ result[x].status = "SUCCEEDED" => result'[x].status = "SUCCEEDED"
      BY <3>1 DEF Originals, Steps, CaseStep
    <3> QED
      BY <1>5, <2>2, <3>1, <3>2, <3>4, <3>5
  <2>4. CASE run[r].status \notin RunTerminal \ {"CANCELLED"}
    <3>1. /\ run[r].status = "RUNNING" /\ run[r].completed >= run[r].total
          /\ run'[r].total = run[r].total /\ run'[r].completed = run[r].completed
          /\ run'[r].status = "SUCCEEDED" => \A x \in Originals(r) : result[x].status # "FAILED"
          /\ result' = result
      BY <2>1, <2>4 DEF RunStep, RunTerminal
    <3>2. /\ run[r].total = Cardinality(Originals(r))
          /\ run[r].completed <= Cardinality(Done(r))
          /\ run[r].total \in Nat /\ run[r].completed \in Nat
      BY <1>0, <2>1 DEF RunOK
    <3>3. /\ run[r].completed = run[r].total /\ Cardinality(Done(r)) = Cardinality(Originals(r))
      BY <1>5, <2>2, <3>1, <3>2
    <3>4. Done(r) = Originals(r) /\ Originals(r)' = Originals(r)
      BY <1>5, <2>2, <3>3
    <3> QED
      BY <3>1, <3>2, <3>3, <3>4 DEF Done
  <2> QED
    BY <2>3, <2>4
<1> QED
  BY <1>3, <1>4, <1>6, <1>7 DEF IInv

-----------------------------------------------------------------------------
\* Every action is such a step.
RunRows == [status : RunStatuses, total : Nat, completed : Nat, passed : Nat]
ResultRows == [status : ResultStatuses, score : ScoreRows]
Busy == {"claimed", "created", "executing"}

\* A step that writes no result and starts no worker.
LEMMA NoResultWritten ==
    ASSUME result' = result, snapshot' = snapshot, \A r \in Runs : RunStep(r),
           \A x \in Results : worker'[x] \in Busy => worker[x] \in Busy,
           \A x \in Results : worker[x] = "none" => worker'[x] = "none"
    PROVE  Steps
BY DEF Steps, CaseStep, Busy

LEMMA EditSteps ==
    ASSUME IInv, Edit
    PROVE  TypeOK' /\ Steps
<1>1. UNCHANGED <<run, snapshot, result, worker, sweeper, agentRun, tasks>>
  BY DEF Edit, create_evaluation_case, update_evaluation_case
<1>2. cases' \in [Cases -> CaseRows \cup {NoCase}] /\ edits' \in 0..MaxEdits
  <2>1. ASSUME NEW c \in Cases, NEW s \in Specs, create_evaluation_case(c, s)
        PROVE  cases' \in [Cases -> CaseRows \cup {NoCase}] /\ edits' \in 0..MaxEdits
    BY <2>1 DEF create_evaluation_case, IInv, TypeOK, CaseRows
  <2>2. ASSUME NEW c \in Cases, update_evaluation_case(c)
        PROVE  cases' \in [Cases -> CaseRows \cup {NoCase}] /\ edits' \in 0..MaxEdits
    BY <2>2, EvaluationsAssumption DEF update_evaluation_case, IInv, TypeOK
  <2> QED
    BY <2>1, <2>2 DEF Edit
<1>3. TypeOK'
  BY <1>1, <1>2 DEF IInv, TypeOK
<1> QED
  BY <1>1, <1>3, NoResultWritten DEF RunStep

\* The tasks of a step that publishes.
LEMMA PublishType ==
    ASSUME TypeOK, NEW t \in Runs \cup Results, Publish(t)
    PROVE  tasks' \subseteq Runs \cup Results
BY DEF TypeOK, Publish

\* The counters aggregate_case_counts writes are those of the results of the same step.
LEMMA Counted ==
    ASSUME TypeOK, NEW r \in Runs, NEW rows, rows = result', Originals(r)' = Originals(r)
    PROVE  LET row == aggregate_case_counts(r, rows)
           IN  /\ row \in RunRows /\ row.status = run[r].status /\ row.total = run[r].total
               /\ row.completed = Cardinality(Done(r)')
<1> DEFINE ended == {x \in Originals(r) : rows[x].status \in {"SUCCEEDED", "FAILED"}}
           good == {x \in Originals(r) : rows[x].score.passed = "yes"}
<1>1. Cardinality(ended) \in Nat /\ Cardinality(good) \in Nat
  BY OriginalsFinite
<1>2. ended = Done(r)'
  BY DEF Done
<1>3. run[r] \in RunRows
  BY DEF TypeOK, RunRows
<1>4. aggregate_case_counts(r, rows) =
         [run[r] EXCEPT !.completed = Cardinality(ended), !.passed = Cardinality(good)]
  BY DEF aggregate_case_counts
<1> HIDE DEF ended, good
<1> QED
  BY <1>1, <1>2, <1>3, <1>4 DEF RunRows

LEMMA StartSteps ==
    ASSUME IInv, NEW r \in Runs, start_evaluation_run(r)
    PROVE  TypeOK' /\ Steps
<1> USE DEF start_evaluation_run
<1>0. TypeOK /\ RunOK(r)
  BY DEF IInv
<1>1. /\ run[r].status = "none" /\ UNCHANGED <<cases, edits, worker, sweeper, agentRun>>
      /\ tasks' \subseteq Runs \cup Results
  BY <1>0, PublishType DEF caseVars
<1>2. \A x \in Results : RunOf(x) = r => result[x].status = "none"
  BY <1>0, <1>1 DEF RunOK
<1>3. \A c \in ActiveCases : c \in Cases /\ cases[c].spec \in Specs
  BY <1>0 DEF ActiveCases, TypeOK, CaseRows
<1>4. snapshot' \in [Runs -> [Cases -> Specs \cup {NoSpec}]]
  <2>1. [c \in Cases |-> IF c \in ActiveCases THEN cases[c].spec ELSE NoSpec]
            \in [Cases -> Specs \cup {NoSpec}]
    BY <1>3
  <2> QED
    BY <1>0, <2>1 DEF TypeOK
<1>5. /\ \A q \in Runs : q # r => snapshot'[q] = snapshot[q]
      /\ \A c \in ActiveCases : snapshot'[r][c] \in Specs
  BY <1>0, <1>3 DEF TypeOK
<1>6. IsFiniteSet(ActiveCases) /\ Cardinality(ActiveCases) \in Nat
  BY EvaluationsAssumption, FS_Subset, FS_CardinalityType DEF ActiveCases
<1>7. /\ run' \in [Runs -> RunRows] /\ run'[r].status = "PENDING"
      /\ run'[r].total = Cardinality(ActiveCases) /\ run'[r].completed = 0
      /\ \A q \in Runs : q # r => run'[q] = run[q]
  <2> DEFINE new == [NoRun EXCEPT !.status = "PENDING", !.total = Cardinality(ActiveCases)]
  <2>1. /\ new \in RunRows /\ new.status = "PENDING" /\ new.completed = 0
        /\ new.total = Cardinality(ActiveCases)
    BY <1>6 DEF NoRun, RunRows, RunStatuses
  <2>2. run' = [run EXCEPT ![r] = new] /\ run \in [Runs -> RunRows]
    BY <1>0 DEF TypeOK, RunRows
  <2> HIDE DEF new
  <2> QED
    BY <2>1, <2>2
<1>8. ASSUME NEW x \in Results
      PROVE  /\ result'[x] \in ResultRows
             /\ IF RunOf(x) = r /\ CaseOf(x) \in ActiveCases /\ ~IsReplay(x)
                THEN result'[x].status = "PENDING" /\ result'[x].score.passed = "null"
                ELSE result'[x] = result[x]
  <2>1. LET new == [NoResult EXCEPT !.status = "PENDING"]
        IN  new \in ResultRows /\ new.status = "PENDING" /\ new.score.passed = "null"
    BY DEF NoResult, NotScored, ResultRows, ResultStatuses, ScoreRows, FailureCodes
  <2>2. result[x] \in ResultRows
    BY <1>0 DEF TypeOK, ResultRows
  <2>3. result'[x] = IF RunOf(x) = r /\ CaseOf(x) \in ActiveCases /\ ~IsReplay(x)
                     THEN [NoResult EXCEPT !.status = "PENDING"] ELSE result[x]
    OBVIOUS
  <2> QED
    BY <2>1, <2>2, <2>3
<1>9. result' \in [Results -> ResultRows]
  <2>1. result' = [x \in Results |-> result'[x]]
    OBVIOUS
  <2> QED
    BY <1>8, <2>1
<1>10. TypeOK'
  BY <1>0, <1>1, <1>4, <1>7, <1>9 DEF TypeOK, RunRows, ResultRows
<1>11. Originals(r)' = {<<r, c, 0>> : c \in ActiveCases}
  <2>1. ASSUME NEW x \in Originals(r)' PROVE x \in {<<r, c, 0>> : c \in ActiveCases}
    <3>1. x \in Results /\ RunOf(x) = r /\ ~IsReplay(x) /\ result'[x].status # "none"
      BY <2>1 DEF Originals
    <3>2. CaseOf(x) \in ActiveCases
      BY <1>2, <1>8, <3>1
    <3>3. PICK c \in Cases, i \in 0..MaxReplays : x = <<r, c, i>>
      BY <3>1 DEF Results, RunOf
    <3>4. i = 0 /\ c \in ActiveCases
      BY <3>1, <3>2, <3>3, EvaluationsAssumption DEF IsReplay, CaseOf
    <3> QED
      BY <3>3, <3>4
  <2>2. ASSUME NEW c \in ActiveCases PROVE <<r, c, 0>> \in Originals(r)'
    <3>1. <<r, c, 0>> \in Results
      BY <1>3, EvaluationsAssumption DEF Results
    <3>2. /\ RunOf(<<r, c, 0>>) = r /\ CaseOf(<<r, c, 0>>) = c /\ ~IsReplay(<<r, c, 0>>)
      BY DEF RunOf, CaseOf, IsReplay
    <3> QED
      BY <1>8, <2>2, <3>1, <3>2 DEF Originals
  <2> QED
    BY <2>1, <2>2
<1>12. Cardinality(Originals(r)') = Cardinality(ActiveCases)
  <2> DEFINE f == [c \in ActiveCases |-> <<r, c, 0>>]
             img == {<<r, c, 0>> : c \in ActiveCases}
  <2>1. f \in Bijection(ActiveCases, img)
    BY DEF Bijection, Injection, Surjection, IsInjective
  <2> QED
    BY <1>6, <1>11, <2>1, FS_Bijection DEF ExistsBijection
<1>13. \A q \in Runs : RunStep(q)
  BY <1>1, <1>7, <1>12 DEF RunStep
<1>14. \A x \in Results : CaseStep(x)
  BY <1>1, <1>2, <1>5, <1>7, <1>8 DEF CaseStep
<1>15. \A q \in Runs : run[q].status # "none" => snapshot'[q] = snapshot[q]
  BY <1>1, <1>5
<1>16. \A x \in Results : result'[x].status \in {result[x].status, "FAILED"} \/ worker[x] \notin Busy
  <2>1. \A x \in Results : CaseOK(x)
    BY DEF IInv
  <2> QED
    BY <1>2, <1>8, <2>1 DEF CaseOK, Busy
<1> QED
  BY <1>1, <1>10, <1>13, <1>14, <1>15, <1>16 DEF Steps, Busy

LEMMA ClaimRunSteps ==
    ASSUME IInv, NEW r \in Runs, claim_evaluation_run(r)
    PROVE  TypeOK' /\ Steps
<1>0. TypeOK /\ run[r] \in RunRows
  BY DEF IInv, TypeOK, RunRows
<1>1. /\ run[r].status = "PENDING" /\ run' = [run EXCEPT ![r].status = "RUNNING"]
      /\ UNCHANGED <<cases, edits, snapshot, result, worker, sweeper, agentRun>>
  BY DEF claim_evaluation_run, caseVars
<1>2. tasks' \subseteq Runs \cup Results
  BY <1>0 DEF claim_evaluation_run, PendingCases, Originals, TypeOK
<1>3. /\ run'[r] \in RunRows /\ run'[r].status = "RUNNING" /\ run'[r].total = run[r].total
      /\ run'[r].completed = run[r].completed /\ \A q \in Runs : q # r => run'[q] = run[q]
  BY <1>0, <1>1 DEF TypeOK, RunRows, RunStatuses
<1>4. TypeOK'
  BY <1>0, <1>1, <1>2, <1>3 DEF TypeOK, RunRows, RunStatuses
<1>5. \A q \in Runs : RunStep(q)
  BY <1>1, <1>3 DEF RunStep
<1> QED
  BY <1>1, <1>4, <1>5, NoResultWritten

LEMMA CancelSteps ==
    ASSUME IInv, NEW r \in Runs, cancel_evaluation_run(r)
    PROVE  TypeOK' /\ Steps
<1> DEFINE rows == [x \in Results |-> IF x \in PendingCases(r)
                                     THEN [result[x] EXCEPT !.status = "CANCELLED"] ELSE result[x]]
           row == aggregate_case_counts(r, rows)
<1>0. TypeOK
  BY DEF IInv
<1>1. /\ run[r].status \in {"PENDING", "RUNNING"} /\ result' = rows
      /\ run' = [run EXCEPT ![r] = [row EXCEPT !.status = "CANCELLED"]]
      /\ UNCHANGED <<cases, edits, snapshot, worker, sweeper, agentRun, tasks>>
  BY DEF cancel_evaluation_run, caseVars
<1>2. ASSUME NEW x \in Results
      PROVE  /\ result'[x] \in ResultRows
             /\ \/ result'[x] = result[x]
                \/ /\ result[x].status = "PENDING" /\ result'[x].status = "CANCELLED"
                   /\ result'[x].score = result[x].score
  <2>1. result[x] \in ResultRows
    BY <1>0 DEF TypeOK, ResultRows
  <2>2. CASE x \in PendingCases(r)
    <3>1. result'[x] = [result[x] EXCEPT !.status = "CANCELLED"] /\ result[x].status = "PENDING"
      BY <1>1, <2>2 DEF PendingCases
    <3> QED
      BY <2>1, <3>1 DEF ResultRows, ResultStatuses, ResultTerminal
  <2>3. CASE x \notin PendingCases(r)
    BY <1>1, <2>1, <2>3
  <2> QED
    BY <2>2, <2>3
<1>3. result' \in [Results -> ResultRows]
  <2>1. result' = [x \in Results |-> result'[x]]
    BY <1>1
  <2> HIDE DEF rows
  <2> QED
    BY <1>2, <2>1
<1>4. Originals(r)' = Originals(r)
  BY <1>2 DEF Originals
<1> HIDE DEF rows
<1>5. /\ row \in RunRows /\ row.total = run[r].total
      /\ row.completed = Cardinality(Done(r)')
  BY <1>0, <1>1, <1>4, Counted
<1> HIDE DEF row
<1>6. /\ run'[r] \in RunRows /\ run'[r].status = "CANCELLED" /\ run'[r].total = run[r].total
      /\ run'[r].completed = Cardinality(Done(r)') /\ \A q \in Runs : q # r => run'[q] = run[q]
  <2> DEFINE new == [row EXCEPT !.status = "CANCELLED"]
  <2>1. /\ new \in RunRows /\ new.status = "CANCELLED" /\ new.total = row.total
        /\ new.completed = row.completed
    BY <1>5 DEF RunRows, RunStatuses, RunTerminal
  <2>2. run' = [run EXCEPT ![r] = new] /\ run \in [Runs -> RunRows]
    BY <1>0, <1>1 DEF TypeOK, RunRows
  <2> HIDE DEF new
  <2> QED
    BY <1>5, <2>1, <2>2
<1>7. run' \in [Runs -> RunRows]
  BY <1>0, <1>1, <1>6 DEF TypeOK, RunRows
<1>8. TypeOK'
  BY <1>0, <1>1, <1>3, <1>7 DEF TypeOK, RunRows, ResultRows
<1>9. \A q \in Runs : RunStep(q)
  BY <1>1, <1>6 DEF RunStep
<1>10. \A x \in Results : CaseStep(x)
  BY <1>2 DEF CaseStep
<1>11. \A x \in Results : worker[x] \in Busy => result'[x].status = result[x].status
  <2>1. \A x \in Results : CaseOK(x)
    BY DEF IInv
  <2> QED
    BY <1>2, <2>1 DEF CaseOK, Busy
<1> QED
  BY <1>1, <1>8, <1>9, <1>10, <1>11 DEF Steps, Busy

\* A step that writes one result, the runs and snapshots left alone.
LEMMA OneResultWritten ==
    ASSUME TypeOK, NEW x \in Results, NEW row \in ResultRows, result' = [result EXCEPT ![x] = row],
           CaseStep(x), UNCHANGED <<cases, edits, run, snapshot, sweeper>>,
           worker' \in [Results -> WorkerSteps], \A z \in Results : z # x => worker'[z] = worker[z],
           worker'[x] \in Busy => row.status = "RUNNING" \/ (worker[x] \in Busy /\ row.status = "FAILED"),
           worker[x] = "none" /\ worker'[x] # "none" => row.status # "none",
           agentRun' \in [Results -> {"none", "PENDING", "CLAIMED", "DEFAULT_PROVIDER"}],
           tasks' \subseteq Runs \cup Results
    PROVE  TypeOK' /\ Steps
<1>1. result \in [Results -> ResultRows]
  BY DEF TypeOK, ResultRows
<1>2. /\ result' \in [Results -> ResultRows] /\ result'[x] = row
      /\ \A z \in Results : z # x => result'[z] = result[z]
  BY <1>1
<1>3. TypeOK'
  BY <1>2 DEF TypeOK, ResultRows
<1>4. \A z \in Results : CaseStep(z)
  BY <1>2 DEF CaseStep
<1>5. \A q \in Runs : RunStep(q)
  BY DEF RunStep
<1> QED
  BY <1>2, <1>3, <1>4, <1>5 DEF Steps, Busy

LEMMA ReplaySteps ==
    ASSUME IInv, NEW x \in Results, replay_evaluation_case(x)
    PROVE  TypeOK' /\ Steps
<1> DEFINE y == <<x[1], x[2], x[3] + 1>>
<1>0. TypeOK /\ CaseOK(x) /\ \A r \in Runs : RunOK(r)
  BY DEF IInv
<1>1. /\ result[x].status \in ResultTerminal /\ x[3] < MaxReplays /\ result[y].status = "none"
      /\ result' = [result EXCEPT ![y].status = "PENDING"] /\ Publish(y)
      /\ UNCHANGED <<cases, edits, run, snapshot, worker, sweeper, agentRun>>
  BY DEF replay_evaluation_case, caseVars
<1>2. PICK r \in Runs, c \in Cases, i \in 0..MaxReplays : x = <<r, c, i>>
  BY DEF Results
<1>3. y = <<r, c, i + 1>> /\ i < MaxReplays /\ i + 1 \in 0..MaxReplays /\ i + 1 > 0
  BY <1>1, <1>2, EvaluationsAssumption
<1>4. /\ y \in Results /\ RunOf(y) = r /\ CaseOf(y) = c /\ IsReplay(y)
      /\ RunOf(x) = r /\ CaseOf(x) = c
  BY <1>2, <1>3 DEF Results, RunOf, CaseOf, IsReplay
<1>5. run[r].status # "none" /\ snapshot[r][c] \in Specs
  BY <1>0, <1>1, <1>4 DEF RunOK, CaseOK, ResultTerminal
<1> HIDE DEF y
<1>6. CaseOK(y)
  BY <1>4 DEF IInv
<1> DEFINE row == [result[y] EXCEPT !.status = "PENDING"]
<1>7. row \in ResultRows /\ row.status = "PENDING" /\ row.score = result[y].score
  <2>1. result[y] \in ResultRows
    BY <1>0, <1>4 DEF TypeOK, ResultRows
  <2> QED
    BY <2>1 DEF ResultRows, ResultStatuses
<1>8. result' = [result EXCEPT ![y] = row]
  BY <1>1
<1>9. result'[y] = row
  BY <1>0, <1>4, <1>8 DEF TypeOK
<1> HIDE DEF row
<1>10. CaseStep(y)
  <2>1. row.score.passed # "yes"
    BY <1>1, <1>6, <1>7 DEF CaseOK
  <2> QED
    BY <1>1, <1>4, <1>5, <1>7, <1>9, <2>1 DEF CaseStep
<1>11. worker[y] \notin Busy
  BY <1>1, <1>6 DEF CaseOK, Busy
<1>12. tasks' \subseteq Runs \cup Results
  BY <1>0, <1>1, <1>4, PublishType
<1>13. /\ worker' \in [Results -> WorkerSteps]
       /\ agentRun' \in [Results -> {"none", "PENDING", "CLAIMED", "DEFAULT_PROVIDER"}]
  BY <1>0, <1>1 DEF TypeOK
<1> QED
  BY <1>0, <1>1, <1>4, <1>7, <1>8, <1>10, <1>11, <1>12, <1>13, OneResultWritten

LEMMA ClaimResultSteps ==
    ASSUME IInv, NEW x \in Results, claim_evaluation_result(x)
    PROVE  TypeOK' /\ Steps
<1> DEFINE s == IF run[RunOf(x)].status = "CANCELLED" THEN "CANCELLED" ELSE "RUNNING"
           row == [result[x] EXCEPT !.status = s]
<1>0. TypeOK /\ CaseOK(x)
  BY DEF IInv
<1>1. /\ result[x].status = "PENDING" /\ tasks' = tasks \ {x}
      /\ UNCHANGED <<cases, edits, run, snapshot, sweeper, agentRun>>
      /\ result' = [result EXCEPT ![x].status = s]
      /\ worker' = worker \/ (s = "RUNNING" /\ worker' = [worker EXCEPT ![x] = "claimed"])
  BY DEF claim_evaluation_result, caseVars
<1>2. s \in {"RUNNING", "CANCELLED"}
  OBVIOUS
<1> HIDE DEF s
<1>3. row \in ResultRows /\ row.status = s /\ row.score = result[x].score
  <2>1. result[x] \in ResultRows
    BY <1>0 DEF TypeOK, ResultRows
  <2> QED
    BY <1>2, <2>1 DEF ResultRows, ResultStatuses, ResultTerminal
<1>4. result' = [result EXCEPT ![x] = row]
  BY <1>1
<1>5. result'[x] = row
  BY <1>0, <1>4 DEF TypeOK
<1> HIDE DEF row
<1>6. CaseStep(x)
  BY <1>1, <1>2, <1>3, <1>5 DEF CaseStep
<1>7. worker[x] \notin Busy
  BY <1>0, <1>1 DEF CaseOK, Busy
<1>8. /\ worker' \in [Results -> WorkerSteps] /\ \A z \in Results : z # x => worker'[z] = worker[z]
      /\ worker'[x] \in Busy => s = "RUNNING"
  BY <1>0, <1>1, <1>7 DEF TypeOK, WorkerSteps
<1>9. /\ tasks' \subseteq Runs \cup Results
      /\ agentRun' \in [Results -> {"none", "PENDING", "CLAIMED", "DEFAULT_PROVIDER"}]
  BY <1>0, <1>1 DEF TypeOK
<1> QED
  BY <1>0, <1>1, <1>3, <1>4, <1>6, <1>8, <1>9, OneResultWritten

\* The write that ends a case replaces a running result, or one the sweep failed.
LEMMA WriteSteps ==
    ASSUME IInv, NEW x \in Results, NEW status, NEW score, worker[x] \in Busy,
           Write(x, status, score), UNCHANGED <<cases, edits, run, snapshot, sweeper, agentRun, tasks>>,
           score \in ScoreRows,
           \/ status = "FAILED" /\ score.passed = "no"
           \/ status = "SUCCEEDED" /\ \E o \in Outcomes : score = score_case(o, Expected(x))
    PROVE  TypeOK' /\ Steps
<1> DEFINE row == [status |-> status, score |-> score]
           step == IF IsReplay(x) THEN "gone" ELSE "recorded"
<1>0. TypeOK /\ CaseOK(x)
  BY DEF IInv
<1>1. /\ result' = [result EXCEPT ![x] = row] /\ worker' = [worker EXCEPT ![x] = step]
      /\ step \in {"gone", "recorded"}
  BY DEF Write
<1>2. row \in ResultRows /\ row.status = status /\ row.score = score
  BY DEF ResultRows, ResultStatuses, ResultTerminal
<1> HIDE DEF row, step
<1>3. result'[x] = row /\ result[x].status \in {"RUNNING", "FAILED"}
  BY <1>0, <1>1 DEF TypeOK, CaseOK, Busy
<1>4. CaseStep(x)
  BY <1>2, <1>3 DEF CaseStep
<1>5. /\ worker' \in [Results -> WorkerSteps] /\ \A z \in Results : z # x => worker'[z] = worker[z]
      /\ worker'[x] \notin Busy /\ worker[x] # "none"
  BY <1>0, <1>1 DEF TypeOK, WorkerSteps, Busy
<1>6. /\ tasks' \subseteq Runs \cup Results
      /\ agentRun' \in [Results -> {"none", "PENDING", "CLAIMED", "DEFAULT_PROVIDER"}]
  BY <1>0 DEF TypeOK
<1> QED
  BY <1>0, <1>1, <1>2, <1>4, <1>5, <1>6, OneResultWritten

LEMMA TerminateSteps ==
    ASSUME IInv, NEW x \in Results, worker[x] \in Busy, terminate_result(x),
           UNCHANGED <<cases, edits, run, snapshot, sweeper, agentRun, tasks>>
    PROVE  TypeOK' /\ Steps
<1> DEFINE score == [result[x].score EXCEPT !.passed = "no", !.code = "HARNESS"]
<1>1. result[x].score \in ScoreRows
  BY DEF IInv, TypeOK
<1>2. score \in ScoreRows /\ score.passed = "no"
  BY <1>1, FailedScore
<1>3. Write(x, "FAILED", score)
  BY DEF terminate_result
<1> HIDE DEF score
<1> QED
  BY <1>2, <1>3, WriteSteps

\* A step of a worker, of a sweep or of a crash that writes no row of a run or a result.
LEMMA QuietSteps ==
    ASSUME TypeOK, UNCHANGED <<cases, edits, run, snapshot, result>>,
           worker' \in [Results -> WorkerSteps],
           \A z \in Results : worker'[z] \in Busy => worker[z] \in Busy,
           \A z \in Results : worker[z] = "none" => worker'[z] = "none",
           agentRun' \in [Results -> {"none", "PENDING", "CLAIMED", "DEFAULT_PROVIDER"}],
           sweeper' \subseteq Runs, tasks' \subseteq Runs \cup Results
    PROVE  TypeOK' /\ Steps
<1>1. TypeOK'
  BY DEF TypeOK
<1>2. \A q \in Runs : RunStep(q)
  BY DEF RunStep
<1> QED
  BY <1>1, <1>2, NoResultWritten

\* finalize_evaluation_run leaves every run alone but a complete one that is RUNNING.
LEMMA FinalizedSteps ==
    ASSUME IInv, NEW r \in Runs, run' = Finalized(r), result' = result
    PROVE  run' \in [Runs -> RunRows] /\ \A q \in Runs : RunStep(q)
<1> DEFINE failed == {x \in Originals(r) : result[x].status = "FAILED"}
           s == IF run[r].status # "RUNNING" \/ run[r].completed < run[r].total THEN run[r].status
                ELSE IF Cardinality(failed) = run[r].total THEN "FAILED"
                ELSE IF failed # {} THEN "PARTIAL" ELSE "SUCCEEDED"
           row == [run[r] EXCEPT !.status = s]
<1>0. run \in [Runs -> RunRows]
  BY DEF IInv, TypeOK, RunRows
<1>1. run' = [run EXCEPT ![r] = row]
  BY <1>0 DEF Finalized
<1>2. \/ s = run[r].status
      \/ /\ run[r].status = "RUNNING" /\ ~(run[r].completed < run[r].total)
         /\ s \in {"FAILED", "PARTIAL", "SUCCEEDED"}
         /\ s = "SUCCEEDED" => failed = {}
  OBVIOUS
<1>3. failed = {} => \A x \in Originals(r) : result[x].status # "FAILED"
  OBVIOUS
<1> HIDE DEF s, failed
<1>4. run[r] \in RunRows
  BY <1>0
<1>5. s \in RunStatuses
  BY <1>2, <1>4 DEF RunRows, RunStatuses, RunTerminal
<1>6. /\ row \in RunRows /\ row.status = s /\ row.total = run[r].total
      /\ row.completed = run[r].completed
      /\ s = run[r].status => row = run[r]
  BY <1>4, <1>5 DEF RunRows
<1> HIDE DEF row
<1>7. /\ run' \in [Runs -> RunRows] /\ run'[r] = row
      /\ \A q \in Runs : q # r => run'[q] = run[q]
  BY <1>0, <1>1, <1>6
<1>8. run[r].completed \in Nat /\ run[r].total \in Nat
  BY <1>4 DEF RunRows
<1>9. RunStep(r)
  <2>1. CASE s = run[r].status
    BY <1>6, <1>7, <2>1 DEF RunStep
  <2>2. CASE s # run[r].status
    <3>1. /\ run[r].status = "RUNNING" /\ run[r].completed >= run[r].total
          /\ s \in {"FAILED", "PARTIAL", "SUCCEEDED"}
          /\ s = "SUCCEEDED" => \A x \in Originals(r) : result[x].status # "FAILED"
      BY <1>2, <1>3, <1>8, <2>2
    <3> QED
      BY <1>6, <1>7, <3>1 DEF RunStep
  <2> QED
    BY <2>1, <2>2
<1> QED
  BY <1>7, <1>9 DEF RunStep

LEMMA WorkerMoves ==
    ASSUME IInv, NEW x \in Results, WorkerStep(x)
    PROVE  TypeOK' /\ Steps
<1>0. TypeOK /\ RunOf(x) \in Runs
  BY DEF IInv, Results, RunOf
<1>a. /\ worker \in [Results -> WorkerSteps] /\ tasks \subseteq Runs \cup Results /\ sweeper \subseteq Runs
      /\ agentRun \in [Results -> {"none", "PENDING", "CLAIMED", "DEFAULT_PROVIDER"}]
  BY <1>0 DEF TypeOK
<1>1. CASE RefuseCase(x)
  <2>1. worker[x] \in Busy /\ terminate_result(x)
    BY <1>1 DEF RefuseCase, Busy
  <2>2. UNCHANGED <<cases, edits, run, snapshot, sweeper, agentRun, tasks>>
    BY <1>1 DEF RefuseCase, caseVars
  <2> QED
    BY <2>1, <2>2, TerminateSteps
<1>2. CASE create_evaluation_agent_run(x)
  <2>1. /\ worker[x] \in Busy /\ worker' = [worker EXCEPT ![x] = "created"]
        /\ agentRun' = [agentRun EXCEPT ![x] = "PENDING"]
        /\ UNCHANGED <<cases, edits, run, snapshot, result, sweeper, tasks>>
    BY <1>2 DEF create_evaluation_agent_run, Busy, caseVars
  <2>2. /\ worker' \in [Results -> WorkerSteps]
        /\ \A z \in Results : worker'[z] \in Busy => worker[z] \in Busy
        /\ \A z \in Results : worker[z] = "none" => worker'[z] = "none"
    BY <1>a, <2>1 DEF WorkerSteps, Busy
  <2> QED
    BY <1>0, <1>a, <2>1, <2>2, QuietSteps
<1>3. CASE claim_agent_run(x)
  <2>0. /\ worker[x] \in Busy /\ UNCHANGED <<cases, edits, run, snapshot, sweeper, tasks>>
    BY <1>3 DEF claim_agent_run, Busy, caseVars
  <2>1. CASE agentRun[x] = "PENDING"
    <3>1. /\ worker' = [worker EXCEPT ![x] = "executing"] /\ result' = result
          /\ agentRun' = [agentRun EXCEPT ![x] = "CLAIMED"]
      BY <1>3, <2>1 DEF claim_agent_run
    <3>2. /\ worker' \in [Results -> WorkerSteps]
          /\ \A z \in Results : worker'[z] \in Busy => worker[z] \in Busy
          /\ \A z \in Results : worker[z] = "none" => worker'[z] = "none"
      BY <1>a, <2>0, <3>1 DEF WorkerSteps, Busy
    <3> QED
      BY <1>0, <1>a, <2>0, <3>1, <3>2, QuietSteps
  <2>2. CASE agentRun[x] # "PENDING"
    BY <1>3, <2>0, <2>2, TerminateSteps DEF claim_agent_run
  <2> QED
    BY <2>1, <2>2
<1>4. CASE execute_evaluation_case(x)
  <2>1. /\ worker[x] \in Busy /\ UNCHANGED <<cases, edits, run, snapshot, sweeper, agentRun, tasks>>
    BY <1>4 DEF execute_evaluation_case, Busy, caseVars
  <2>2. CASE terminate_result(x)
    BY <2>1, <2>2, TerminateSteps
  <2>3. ASSUME NEW o \in Outcomes, Write(x, "SUCCEEDED", score_case(o, Expected(x)))
        PROVE  TypeOK' /\ Steps
    BY <2>1, <2>3, ScoreType, WriteSteps
  <2> QED
    BY <1>4, <2>2, <2>3 DEF execute_evaluation_case
<1>5. CASE record_case_completion(x)
  <2> DEFINE r == RunOf(x)
             row == aggregate_case_counts(r, result)
             step == IF row.status = "RUNNING" /\ row.completed >= row.total THEN "finalizing" ELSE "gone"
  <2>1. /\ worker[x] = "recorded" /\ run' = [run EXCEPT ![r] = row]
        /\ worker' = [worker EXCEPT ![x] = step] /\ step \in {"finalizing", "gone"}
        /\ UNCHANGED <<cases, edits, snapshot, result, sweeper, agentRun, tasks>>
    BY <1>5 DEF record_case_completion, caseVars
  <2>2. Originals(r)' = Originals(r) /\ result = result'
    BY <2>1 DEF Originals
  <2>3. /\ row \in RunRows /\ row.status = run[r].status /\ row.total = run[r].total
        /\ row.completed = Cardinality(Done(r)')
    BY <1>0, <2>2, Counted
  <2> HIDE DEF row, step
  <2>4. /\ run' \in [Runs -> RunRows] /\ run'[r] = row
        /\ \A q \in Runs : q # r => run'[q] = run[q]
    BY <1>0, <2>1, <2>3 DEF TypeOK, RunRows
  <2>5. RunStep(r)
    <3>1. CaseOK(x) /\ RunOK(r)
      BY <1>0 DEF IInv
    <3>2. run[r].status # "none"
      BY <2>1, <3>1 DEF CaseOK, RunOK
    <3> QED
      BY <2>3, <2>4, <3>2 DEF RunStep
  <2>6. /\ worker' \in [Results -> WorkerSteps]
        /\ \A z \in Results : worker'[z] \in Busy => worker[z] \in Busy
        /\ \A z \in Results : worker[z] = "none" => worker'[z] = "none"
    BY <1>a, <2>1 DEF WorkerSteps, Busy
  <2>7. TypeOK'
    BY <1>0, <2>1, <2>4, <2>6 DEF TypeOK, RunRows
  <2>8. \A q \in Runs : RunStep(q)
    BY <2>4, <2>5 DEF RunStep
  <2> QED
    BY <2>1, <2>6, <2>7, <2>8, NoResultWritten
<1>6. CASE finalize_evaluation_run(x)
  <2>1. /\ worker[x] = "finalizing" /\ run' = Finalized(RunOf(x)) /\ worker' = [worker EXCEPT ![x] = "gone"]
        /\ UNCHANGED <<cases, edits, snapshot, result, sweeper, agentRun, tasks>>
    BY <1>6 DEF finalize_evaluation_run, caseVars
  <2>2. run' \in [Runs -> RunRows] /\ \A q \in Runs : RunStep(q)
    BY <1>0, <2>1, FinalizedSteps
  <2>3. /\ worker' \in [Results -> WorkerSteps]
        /\ \A z \in Results : worker'[z] \in Busy => worker[z] \in Busy
        /\ \A z \in Results : worker[z] = "none" => worker'[z] = "none"
    BY <1>a, <2>1 DEF WorkerSteps, Busy
  <2>4. TypeOK'
    BY <1>0, <2>1, <2>2, <2>3 DEF TypeOK, RunRows
  <2> QED
    BY <2>1, <2>2, <2>3, <2>4, NoResultWritten
<1> QED
  BY <1>1, <1>2, <1>3, <1>4, <1>5, <1>6 DEF WorkerStep

LEMMA RecoverSteps ==
    ASSUME IInv, NEW r \in Runs, NEW stale \in SUBSET RunningCases(r), recover_stuck_run(r, stale)
    PROVE  TypeOK' /\ Steps
<1> DEFINE bad(x) == [result[x].score EXCEPT !.passed = "no", !.code = "CRASH"]
           rows == [x \in Results |-> IF x \in stale THEN [status |-> "FAILED", score |-> bad(x)]
                                     ELSE result[x]]
           row == aggregate_case_counts(r, rows)
<1>0. TypeOK
  BY DEF IInv
<1>1. /\ run[r].status = "RUNNING" /\ result' = rows /\ run' = [run EXCEPT ![r] = row]
      /\ sweeper' \subseteq sweeper \cup {r}
      /\ UNCHANGED <<cases, edits, snapshot, worker, agentRun, tasks>>
  BY DEF recover_stuck_run, caseVars
<1>2. ASSUME NEW x \in Results
      PROVE  /\ result'[x] \in ResultRows
             /\ \/ result'[x] = result[x]
                \/ /\ result[x].status = "RUNNING" /\ result'[x].status = "FAILED"
                   /\ result'[x].score.passed = "no"
  <2>1. result[x] \in ResultRows /\ result[x].score \in ScoreRows
    BY <1>0 DEF TypeOK, ResultRows
  <2>2. CASE x \in stale
    <3>1. result'[x] = [status |-> "FAILED", score |-> bad(x)] /\ result[x].status = "RUNNING"
      BY <1>1, <2>2 DEF RunningCases
    <3>2. bad(x) \in ScoreRows /\ bad(x).passed = "no"
      BY <2>1, FailedScore
    <3> HIDE DEF bad
    <3> QED
      BY <3>1, <3>2 DEF ResultRows, ResultStatuses, ResultTerminal
  <2>3. CASE x \notin stale
    BY <1>1, <2>1, <2>3
  <2> QED
    BY <2>2, <2>3
<1>3. result' \in [Results -> ResultRows]
  <2>1. result' = [x \in Results |-> result'[x]]
    BY <1>1
  <2> HIDE DEF rows
  <2> QED
    BY <1>2, <2>1
<1>4. Originals(r)' = Originals(r)
  BY <1>2 DEF Originals
<1> HIDE DEF rows
<1>5. /\ row \in RunRows /\ row.total = run[r].total /\ row.status = run[r].status
      /\ row.completed = Cardinality(Done(r)')
  BY <1>0, <1>1, <1>4, Counted
<1> HIDE DEF row
<1>6. /\ run' \in [Runs -> RunRows] /\ run'[r] = row
      /\ \A q \in Runs : q # r => run'[q] = run[q]
  BY <1>0, <1>1, <1>5 DEF TypeOK, RunRows
<1>7. TypeOK'
  BY <1>0, <1>1, <1>3, <1>6 DEF TypeOK, RunRows, ResultRows
<1>8. \A q \in Runs : RunStep(q)
  BY <1>1, <1>5, <1>6 DEF RunStep
<1>9. \A x \in Results : CaseStep(x)
  BY <1>2 DEF CaseStep
<1>10. \A x \in Results : result'[x].status \in {result[x].status, "FAILED"}
  BY <1>2
<1> QED
  BY <1>1, <1>7, <1>8, <1>9, <1>10 DEF Steps

LEMMA FinalizeRecoveredSteps ==
    ASSUME IInv, NEW r \in Runs, finalize_recovered_run(r)
    PROVE  TypeOK' /\ Steps
<1>0. TypeOK
  BY DEF IInv
<1>1. /\ run' = Finalized(r) /\ sweeper' = sweeper \ {r}
      /\ UNCHANGED <<cases, edits, snapshot, result, worker, agentRun, tasks>>
  BY DEF finalize_recovered_run, caseVars
<1>2. run' \in [Runs -> RunRows] /\ \A q \in Runs : RunStep(q)
  BY <1>1, FinalizedSteps
<1>3. TypeOK'
  BY <1>0, <1>1, <1>2 DEF TypeOK, RunRows
<1> QED
  BY <1>1, <1>2, <1>3, NoResultWritten

LEMMA QuietActions ==
    ASSUME IInv,
           \/ \E r \in Runs : redispatch_pending_run(r) \/ SweepCrash(r)
           \/ \E x \in Results : redispatch_pending_case(x) \/ WorkerCrash(x) \/ execute_agent_run_task(x)
    PROVE  TypeOK' /\ Steps
<1>0. TypeOK
  BY DEF IInv
<1> DEFINE Keeps ==
        /\ UNCHANGED <<cases, edits, run, snapshot, result>>
        /\ worker' \in [Results -> WorkerSteps]
        /\ \A z \in Results : worker'[z] \in Busy => worker[z] \in Busy
        /\ \A z \in Results : worker[z] = "none" => worker'[z] = "none"
        /\ agentRun' \in [Results -> {"none", "PENDING", "CLAIMED", "DEFAULT_PROVIDER"}]
        /\ sweeper' \subseteq Runs /\ tasks' \subseteq Runs \cup Results
<1>1. ASSUME NEW r \in Runs, redispatch_pending_run(r) PROVE Keeps
  BY <1>0, <1>1 DEF redispatch_pending_run, caseVars, TypeOK
<1>2. ASSUME NEW r \in Runs, SweepCrash(r) PROVE Keeps
  BY <1>0, <1>2 DEF SweepCrash, caseVars, TypeOK
<1>3. ASSUME NEW x \in Results, redispatch_pending_case(x) PROVE Keeps
  BY <1>0, <1>3 DEF redispatch_pending_case, caseVars, TypeOK
<1>4. ASSUME NEW x \in Results, WorkerCrash(x) PROVE Keeps
  BY <1>0, <1>4 DEF WorkerCrash, caseVars, TypeOK, WorkerSteps, Busy
<1>5. ASSUME NEW x \in Results, execute_agent_run_task(x) PROVE Keeps
  BY <1>0, <1>5 DEF execute_agent_run_task, caseVars, TypeOK
<1>6. Keeps
  BY <1>1, <1>2, <1>3, <1>4, <1>5
<1> QED
  BY <1>0, <1>6, QuietSteps

LEMMA NextSteps ==
    ASSUME IInv, [Next]_vars
    PROVE  TypeOK' /\ Steps
<1>1. CASE Edit
  BY <1>1, EditSteps
<1>2. CASE Manage
  BY <1>2, StartSteps, CancelSteps, ReplaySteps DEF Manage
<1>3. CASE Sweep
  BY <1>3, QuietActions, FinalizeRecoveredSteps, RecoverSteps DEF Sweep
<1>4. CASE Fault
  BY <1>4, QuietActions DEF Fault
<1>5. ASSUME NEW r \in Runs, claim_evaluation_run(r) PROVE TypeOK' /\ Steps
  BY <1>5, ClaimRunSteps
<1>6. ASSUME NEW x \in Results, claim_evaluation_result(x) \/ WorkerStep(x) \/ execute_agent_run_task(x)
      PROVE  TypeOK' /\ Steps
  BY <1>6, ClaimResultSteps, WorkerMoves, QuietActions
<1>7. CASE UNCHANGED vars
  <2>1. /\ UNCHANGED <<cases, edits, run, snapshot, result>>
        /\ UNCHANGED <<worker, agentRun, sweeper, tasks>>
    BY <1>7 DEF vars
  <2> QED
    BY <2>1, QuietSteps DEF IInv, TypeOK
<1> QED
  BY <1>1, <1>2, <1>3, <1>4, <1>5, <1>6, <1>7 DEF Next

LEMMA InitInv == Init => IInv
<1> SUFFICES ASSUME Init PROVE IInv
  OBVIOUS
<1>1. NoResult \in ResultRows /\ NoResult.status = "none" /\ NoResult.score.passed = "null"
  BY DEF NoResult, NotScored, ResultRows, ResultStatuses, ScoreRows, FailureCodes
<1>2. NoRun \in RunRows /\ NoRun.status = "none" /\ NoRun.total = 0 /\ NoRun.completed = 0
  BY DEF NoRun, RunRows, RunStatuses
<1> HIDE DEF NoResult, NoRun
<1>3. /\ \A x \in Results : result[x] = NoResult /\ worker[x] = "none"
      /\ \A r \in Runs : run[r] = NoRun
  BY DEF Init
<1>4. TypeOK
  <2>1. run \in [Runs -> RunRows] /\ result \in [Results -> ResultRows]
    BY <1>1, <1>2 DEF Init
  <2>2. edits \in 0..MaxEdits
    BY EvaluationsAssumption DEF Init
  <2>3. /\ cases \in [Cases -> CaseRows \cup {NoCase}]
        /\ snapshot \in [Runs -> [Cases -> Specs \cup {NoSpec}]]
        /\ worker \in [Results -> WorkerSteps] /\ sweeper \subseteq Runs
        /\ agentRun \in [Results -> {"none", "PENDING", "CLAIMED", "DEFAULT_PROVIDER"}]
        /\ tasks \subseteq Runs \cup Results
    BY DEF Init, WorkerSteps
  <2> QED
    BY <2>1, <2>2, <2>3 DEF TypeOK, RunRows, ResultRows
<1>5. ASSUME NEW r \in Runs PROVE RunOK(r)
  <2>1. Originals(r) = {} /\ Done(r) = {}
    BY <1>1, <1>3 DEF Originals, Done
  <2>2. Cardinality({}) = 0
    BY FS_EmptySet
  <2> QED
    BY <1>1, <1>2, <1>3, <2>1, <2>2 DEF RunOK
<1>6. \A x \in Results : CaseOK(x)
  BY <1>1, <1>3 DEF CaseOK
<1>7. FinalizedIsComplete /\ ScoredAgainstSnapshot
  BY <1>1, <1>2, <1>3 DEF FinalizedIsComplete, ScoredAgainstSnapshot, RunTerminal
<1> QED
  BY <1>4, <1>5, <1>6, <1>7 DEF IInv

LEMMA Inductive == Spec => []IInv
<1>1. IInv /\ [Next]_vars => IInv'
  BY NextSteps, StepsInv
<1> QED
  BY <1>1, InitInv, PTL DEF Spec

-----------------------------------------------------------------------------
\* Every row keeps the columns and the states of evaluations/models.py.
THEOREM EvaluationTypes == Spec => []TypeOK
<1>1. IInv => TypeOK
  BY DEF IInv
<1> QED
  BY <1>1, Inductive, PTL

\* finalize_evaluation_run ends no run whose cases have not all been executed and
\* counted, and no run as SUCCEEDED with a failed case, whatever the workers of its
\* cases, the sweep, cancellations and crashes do meanwhile.
THEOREM FinalizedComplete == Spec => []FinalizedIsComplete
<1>1. IInv => FinalizedIsComplete
  BY DEF IInv
<1> QED
  BY <1>1, Inductive, PTL

\* execute_evaluation_case scores every case, replays included, against the snapshot
\* taken when its run started, however the dataset is edited.
THEOREM SnapshotScores == Spec => []ScoredAgainstSnapshot
<1>1. IInv => ScoredAgainstSnapshot
  BY DEF IInv
<1> QED
  BY <1>1, Inductive, PTL

\* No finalization, cancellation, recovery, replay or late worker changes a scored or
\* cancelled result, or the status of a run that ended.
THEOREM EndedStays == Spec => EndedFrozen
<1> DEFINE Frozen ==
       /\ \A x \in Results : result[x].status \in {"SUCCEEDED", "CANCELLED"} => result'[x] = result[x]
       /\ \A r \in Runs : run[r].status \in RunTerminal => run'[r].status = run[r].status
<1>1. ASSUME IInv, [Next]_vars PROVE Frozen
  <2>1. Steps
    BY <1>1, NextSteps
  <2> QED
    BY <2>1 DEF Steps, CaseStep, RunStep, RunTerminal
<1>2. IInv /\ [Next]_vars => [Frozen]_vars
  BY <1>1
<1> QED
  BY <1>2, Inductive, PTL DEF Spec, EndedFrozen

\* What run_metrics counts, for the scores of a run.
LEMMA PassedMetrics ==
    ASSUME NEW c \in Runs
    PROVE  LET m == run_metrics(Scores(c))
           IN  /\ m.total = Cardinality(Originals(c))
               /\ m.passed = Cardinality({x \in Originals(c) : result[x].score.passed = "yes"})
<1>1. /\ run_metrics(Scores(c)).total = Cardinality(DOMAIN Scores(c))
      /\ run_metrics(Scores(c)).passed =
           Cardinality({x \in DOMAIN Scores(c) : Scores(c)[x].passed = "yes"})
  BY DEF run_metrics
<1>2. DOMAIN Scores(c) = Originals(c) /\ \A x \in Originals(c) : Scores(c)[x] = result[x].score
  BY DEF Scores
<1>3. {x \in DOMAIN Scores(c) : Scores(c)[x].passed = "yes"} =
        {x \in Originals(c) : result[x].score.passed = "yes"}
  BY <1>2
<1> QED
  BY <1>1, <1>2, <1>3

\* With a minimum pass rate of 100 percent, compare_evaluation_runs lets no candidate
\* through that has a case unfinished, cancelled, recovered or not passed, for any
\* dataset and whatever the other thresholds are.
THEOREM GateSound == Spec => []GateMeansPassed
<1>1. ASSUME IInv PROVE GateMeansPassed
  <2> SUFFICES ASSUME Thresholds.min_pass_rate = 100, NEW b \in Runs, NEW c \in Runs,
                      compare_evaluation_runs(b, c) = {}
               PROVE  \A x \in Originals(c) :
                         result[x].status = "SUCCEEDED" /\ result[x].score.passed = "yes"
    BY DEF GateMeansPassed
  <2> DEFINE m == run_metrics(Scores(c))
             n == run_metrics(Scores(b))
             good == {x \in Originals(c) : result[x].score.passed = "yes"}
  <2>1. m.total = Cardinality(Originals(c)) /\ m.passed = Cardinality(good)
    BY PassedMetrics
  <2>2. ~(100 * m.passed < Thresholds.min_pass_rate * m.total)
    <3> DEFINE low == 100 * m.passed < Thresholds.min_pass_rate * m.total
    <3>1. low => "pass_rate" \in evaluate_thresholds(n, m, Thresholds)
      BY Zenon DEF evaluate_thresholds
    <3>2. evaluate_thresholds(n, m, Thresholds) = {}
      BY DEF compare_evaluation_runs
    <3> QED
      BY <3>1, <3>2
  <2> HIDE DEF m, good
  <2>3. /\ good \subseteq Originals(c) /\ Cardinality(good) \in Nat
        /\ Cardinality(Originals(c)) \in Nat /\ Cardinality(good) <= Cardinality(Originals(c))
        /\ Cardinality(good) = Cardinality(Originals(c)) => good = Originals(c)
    BY OriginalsFinite DEF good
  <2>4. good = Originals(c)
    BY <2>1, <2>2, <2>3
  <2>5. \A x \in Originals(c) : x \in Results /\ result[x].score.passed = "yes"
    BY <2>4 DEF good, Originals
  <2> QED
    BY <1>1, <2>5 DEF IInv, CaseOK
<1> QED
  BY <1>1, Inductive, PTL
=============================================================================
