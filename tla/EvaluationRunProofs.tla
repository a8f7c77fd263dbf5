------------------------ MODULE EvaluationRunProofs ------------------------
(* For any conditions, tasks, repetitions and prepare commands: a result    *)
(* summarizes every pair, and nothing of one evaluation's state is left for *)
(* the next, except by a process that was left behind.                      *)
EXTENDS EvaluationRun, TLAPS

\* Where an evaluation is in its life: when its cleanup is armed, how many
\* exceptions are on their way, and that the result comes last.
FlowOK ==
  /\ pc # "idle" => number # 0 /\ report \in {None, Torn}
  /\ pc \in {"prepare", "run"} => armed /\ raised = 0
  /\ armed => cleanup = "none"
  /\ pc = "remove" => cleanup = "none" /\ ~armed
  /\ pc = "report" => ~armed /\ raised = 0 /\ cleanup # "none"
  /\ pc \in {"cleanup", "remove"} => raised \in {0, 1}
  /\ pc = "cleanup" /\ raised = 0 => armed
  /\ pc = "idle" /\ armed => raised = 2

Removed == state.mcp = {} /\ \A c \in Conditions : state.by[c] = {}

StateOK ==
  /\ ~state.there => Removed
  /\ cleanup = "succeeded" /\ stray = {} => Removed
  /\ OwnState

Prepared == \A c \in Conditions : status[c] # "pending" /\ ~Unfinished(c)

\* No exception has come in since the runs were finished.
RunsDone == pc \in {"cleanup", "remove", "report"} /\ raised = 0

\* How far the preparation of each condition has come.
StepsOK ==
  \A c \in Conditions :
    /\ step[c] <= Steps[c]
    /\ status[c] = "pending" => step[c] = 0
    /\ status[c] = "not_required" => step[c] = Steps[c]

\* What has been run so far, and under which preparation.
PairsOK ==
  \A p \in Pairs :
    /\ pc # "idle" => (record[p] = "none" <=> p \in schedule)
    /\ record[p] = "blocked" => status[p.condition] = "failed"
    /\ record[p] \in {"succeeded", "failed"} => status[p.condition] # "failed"

PhasesOK ==
  /\ pc = "prepare" => schedule = Pairs
  /\ pc = "run" => Prepared
  /\ RunsDone => Prepared /\ schedule = {}

RecordOK == StepsOK /\ PairsOK /\ PhasesOK

ResultOK == EveryPairRecorded /\ CompletedMeansAllRan

IInv == TypeOK /\ FlowOK /\ StateOK /\ RecordOK /\ ResultOK

-----------------------------------------------------------------------------
LEMMA InitEstablishes == Init => IInv
<1> SUFFICES ASSUME Init PROVE IInv
  OBVIOUS
<1>1. NoState \in State
  BY DEF NoState, State
<1>2. TypeOK
  <2>1. state \in State /\ stray \subseteq Stray /\ schedule \subseteq Pairs
    BY <1>1 DEF Init
  <2>2. number \in 0..MaxEvaluations /\ raised \in 0..2 /\ step \in [Conditions -> Nat]
    BY EvaluationAssumption DEF Init
  <2>3. /\ storing \in BOOLEAN /\ armed \in BOOLEAN /\ raw \in BOOLEAN
        /\ report \in Report \cup {None, Torn}
    BY DEF Init
  <2> QED
    BY <2>1, <2>2, <2>3 DEF Init, TypeOK
<1>5. FlowOK
  BY DEF Init, FlowOK
<1>3. StateOK
  BY DEF Init, StateOK, Removed, OwnState, NoState
<1>4. RecordOK /\ ResultOK
  BY EvaluationAssumption DEF Init, RecordOK, StepsOK, PairsOK, PhasesOK, RunsDone,
                              ResultOK, EveryPairRecorded, CompletedMeansAllRan, Pairs
<1> QED
  BY <1>2, <1>3, <1>4, <1>5 DEF IInv

\* A write into a condition's directory.
LEMMA WrittenTyped ==
  ASSUME TypeOK, NEW c \in Conditions, NEW n \in Evaluations
  PROVE  [state EXCEPT !.there = TRUE, !.by[c] = @ \cup {n}] \in State
<1>1. state \in State
  BY DEF TypeOK
<1>2. [state.by EXCEPT ![c] = @ \cup {n}] \in [Conditions -> SUBSET Evaluations]
  BY <1>1 DEF State
<1> QED
  BY <1>1, <1>2 DEF State

\* What a command does to the state directories.
LEMMA CommandTyped ==
  ASSUME TypeOK, number # 0, NEW c \in Conditions, Command(c)
  PROVE  /\ state' \in State /\ raw' \in BOOLEAN /\ stray' \subseteq Stray
         /\ stray \subseteq stray'
         /\ state' = state
              \/ state' = [state EXCEPT !.there = TRUE, !.by[c] = @ \cup {number}]
<1>1. number \in Evaluations
  BY EvaluationAssumption DEF TypeOK, Evaluations
<1>2. [condition |-> c, by |-> number] \in Stray
  BY <1>1 DEF Stray
<1>3. [state EXCEPT !.there = TRUE, !.by[c] = @ \cup {number}] \in State
  BY <1>1, WrittenTyped
<1> QED
  BY <1>2, <1>3 DEF Command, TypeOK

LEMMA RemainsTyped ==
  ASSUME TypeOK, NEW s \in Remains
  PROVE  s \in State /\ s.there
  BY DEF Remains, State

LEMMA NextTypeOK ==
  ASSUME TypeOK, FlowOK, [Next]_vars
  PROVE  TypeOK'
<1> USE DEF TypeOK
<1>1. NoState \in State
  BY DEF NoState, State
<1>2. CASE Start
  BY <1>2, EvaluationAssumption DEF Start
<1>3. CASE EmptyOutput
  BY <1>1, <1>3 DEF EmptyOutput
<1>4. ASSUME NEW c \in Conditions, OpenCondition(c) PROVE TypeOK'
  <2>1. state' \in State
    BY <1>4 DEF OpenCondition, State
  <2> QED
    BY <2>1, <1>4 DEF OpenCondition
<1>5. ASSUME NEW c \in Conditions, PrepareStep(c) PROVE TypeOK'
  <2>1. Command(c) /\ number # 0
    BY <1>5 DEF PrepareStep, FlowOK
  <2>2. state' \in State /\ raw' \in BOOLEAN /\ stray' \subseteq Stray
    BY <2>1, CommandTyped
  <2> QED
    BY <2>1, <2>2, <1>5 DEF PrepareStep, Command
<1>6. ASSUME NEW p \in Pairs, BlockPair(p) PROVE TypeOK'
  BY <1>6 DEF BlockPair, Blocked
<1>7. ASSUME NEW p \in Pairs, RunPair(p) PROVE TypeOK'
  <2>1. Command(p.condition) /\ number # 0 /\ p.condition \in Conditions
    BY <1>7 DEF RunPair, FlowOK, Pairs
  <2>2. state' \in State /\ raw' \in BOOLEAN /\ stray' \subseteq Stray
    BY <2>1, CommandTyped
  <2> QED
    BY <2>1, <2>2, <1>7 DEF RunPair, Command
<1>8. CASE FinishPreparation \/ FinishRuns \/ Disarm
  BY <1>8 DEF FinishPreparation, FinishRuns, Disarm
<1>9. CASE RemoveState
  BY <1>1, <1>9, RemainsTyped DEF RemoveState
<1>10. CASE WriteReport
  <2>1. ReportStatus \in {"completed", "completed_with_failures"}
    BY DEF ReportStatus
  <2>2. CASE cleanup # "none"
    BY <2>1, <2>2, <1>10 DEF WriteReport, Report
  <2> QED
    BY <2>2, <1>10 DEF WriteReport, FlowOK
<1>11. CASE Interrupt
  <2>1. state' \in State
    BY <1>1, <1>11, RemainsTyped DEF Interrupt
  <2>2. raised \in {0, 1}
    BY <1>11 DEF Interrupt, FlowOK
  <2>3. raised' \in 0..2
    BY <2>2, <1>11 DEF Interrupt
  <2>4. report' \in Report \cup {None, Torn}
    BY <1>11 DEF Interrupt
  <2>5. pc' \in {"idle", "cleanup"}
    BY <1>11 DEF Interrupt, Unwind
  <2> QED
    BY <2>1, <2>3, <2>4, <2>5, <1>11 DEF Interrupt
<1>12. ASSUME NEW d \in Stray, StrayWrites(d) PROVE TypeOK'
  <2>1. state' \in State
    BY <1>12, WrittenTyped DEF StrayWrites, Stray
  <2> QED
    BY <2>1, <1>12 DEF StrayWrites
<1>13. CASE UNCHANGED vars
  BY <1>13 DEF vars
<1> QED
  BY <1>2, <1>3, <1>4, <1>5, <1>6, <1>7, <1>8, <1>9, <1>10, <1>11, <1>12, <1>13 DEF Next

-----------------------------------------------------------------------------
LEMMA NextFlowOK ==
  ASSUME TypeOK, FlowOK, [Next]_vars
  PROVE  FlowOK'
<1> USE DEF TypeOK, FlowOK
<1>1. CASE Start
  BY <1>1, EvaluationAssumption DEF Start, OutputAccepted
<1>2. CASE EmptyOutput \/ UNCHANGED vars
  BY <1>2 DEF EmptyOutput, vars
<1>3. ASSUME NEW c \in Conditions, OpenCondition(c) \/ PrepareStep(c) PROVE FlowOK'
  BY <1>3 DEF OpenCondition, PrepareStep, Command
<1>4. ASSUME NEW p \in Pairs, BlockPair(p) \/ RunPair(p) PROVE FlowOK'
  BY <1>4 DEF BlockPair, RunPair, Command
<1>5. CASE FinishPreparation \/ FinishRuns \/ Disarm
  BY <1>5 DEF FinishPreparation, FinishRuns, Disarm
<1>6. CASE RemoveState \/ WriteReport
  BY <1>6 DEF RemoveState, WriteReport
<1>7. CASE Interrupt
  <2>1. raised \in {0, 1} /\ raised' = raised + 1
    BY <1>7 DEF Interrupt
  <2> QED
    BY <2>1, <1>7 DEF Interrupt, Unwind
<1>8. ASSUME NEW d \in Stray, StrayWrites(d) PROVE FlowOK'
  BY <1>8 DEF StrayWrites
<1> QED
  BY <1>1, <1>2, <1>3, <1>4, <1>5, <1>6, <1>7, <1>8 DEF Next

-----------------------------------------------------------------------------
(* The state directories.                                                  *)

\* Commands and left processes add to what is there; both sign with their
\* evaluation and their condition.
LEMMA SignedWrite ==
  ASSUME TypeOK, StateOK, NEW c \in Conditions, NEW n \in Evaluations,
         state' \in {state, [state EXCEPT !.there = TRUE, !.by[c] = @ \cup {n}]},
         stray \subseteq stray', UNCHANGED <<pc, number, cleanup>>,
         \/ [condition |-> c, by |-> n] \in stray
         \/ (n = number /\ cleanup # "succeeded")
  PROVE  StateOK'
<1>1. state \in State
  BY DEF TypeOK
<1>2. /\ state'.mcp = state.mcp
      /\ \A d \in Conditions : state'.by[d] \subseteq
           state.by[d] \cup {k \in Evaluations : k = n /\ d = c}
  <2>1. CASE state' = state
    BY <2>1
  <2>2. CASE state' = [state EXCEPT !.there = TRUE, !.by[c] = @ \cup {n}]
    <3>1. /\ state'.mcp = state.mcp
          /\ state'.by = [state.by EXCEPT ![c] = @ \cup {n}]
      BY <1>1, <2>2 DEF State
    <3>2. state.by \in [Conditions -> SUBSET Evaluations]
      BY <1>1 DEF State
    <3> QED
      BY <3>1, <3>2
  <2> QED
    BY <2>1, <2>2
<1>3. ~state'.there => state' = state
  BY <1>1 DEF State
<1>4. ~state'.there => Removed'
  BY <1>3 DEF StateOK, Removed
<1>5. ~(cleanup' = "succeeded" /\ stray' = {})
  <2>1. [condition |-> c, by |-> n] \in stray' \/ cleanup' # "succeeded"
    OBVIOUS
  <2> QED
    BY <2>1
<1>6. ASSUME pc' \in {"prepare", "run"}, NEW d \in Conditions, NEW k \in state'.by[d]
      PROVE  k = number' \/ [condition |-> d, by |-> k] \in stray'
  <2>1. k \in state.by[d] \/ (k = n /\ d = c)
    BY <1>2, <1>6
  <2> QED
    BY <1>6, <2>1 DEF StateOK, OwnState
<1>7. OwnState'
  BY <1>6 DEF OwnState
<1> QED
  BY <1>4, <1>5, <1>7 DEF StateOK

LEMMA NextStateOK ==
  ASSUME TypeOK, FlowOK, StateOK, [Next]_vars
  PROVE  StateOK'
<1>1. CASE Start
  <2>1. /\ UNCHANGED <<state, stray>>
        /\ state.mcp = {} /\ \A c \in Conditions : state.by[c] = {}
    BY <1>1 DEF Start, OutputAccepted, StateOK, Removed
  <2>2. Removed' /\ OwnState'
    BY <2>1 DEF Removed, OwnState
  <2> QED
    BY <2>2 DEF StateOK
<1>2. CASE EmptyOutput
  BY <1>2 DEF EmptyOutput, NoState, StateOK, Removed, OwnState
<1>3. ASSUME NEW c \in Conditions, OpenCondition(c) PROVE StateOK'
  <2>1. /\ state'.by = state.by /\ state'.there
        /\ UNCHANGED <<pc, number, cleanup, stray>> /\ cleanup # "succeeded"
    BY <1>3 DEF OpenCondition, TypeOK, State, FlowOK
  <2> QED
    BY <2>1 DEF StateOK, OwnState
<1>4. ASSUME NEW c \in Conditions, Command(c), pc \in {"prepare", "run"}, pc' = pc
      PROVE  StateOK'
  <2>1. number \in Evaluations /\ cleanup # "succeeded"
    BY <1>4, EvaluationAssumption DEF FlowOK, TypeOK, Evaluations
  <2>2. /\ UNCHANGED <<pc, number, cleanup>> /\ stray \subseteq stray'
        /\ state' \in {state, [state EXCEPT !.there = TRUE, !.by[c] = @ \cup {number}]}
    BY <1>4 DEF Command
  <2> QED
    BY <2>1, <2>2, SignedWrite
<1>5. ASSUME NEW c \in Conditions, PrepareStep(c) PROVE StateOK'
  BY <1>4, <1>5 DEF PrepareStep
<1>6. ASSUME NEW p \in Pairs, RunPair(p) PROVE StateOK'
  BY <1>4, <1>6 DEF RunPair, Pairs
<1>7. ASSUME NEW p \in Pairs, BlockPair(p) PROVE StateOK'
  BY <1>7 DEF BlockPair, StateOK, Removed, OwnState
<1>8. CASE FinishPreparation \/ FinishRuns \/ Disarm \/ WriteReport
  BY <1>8 DEF FinishPreparation, FinishRuns, Disarm, WriteReport, StateOK, Removed,
              OwnState
<1>9. CASE RemoveState
  BY <1>9, RemainsTyped DEF RemoveState, NoState, StateOK, Removed, OwnState
<1>10. CASE Interrupt
  <2>1. pc' \notin {"prepare", "run"} /\ UNCHANGED <<cleanup, stray>>
    BY <1>10 DEF Interrupt, Unwind
  <2>2. CASE pc = "remove"
    <3>1. cleanup' # "succeeded"
      BY <2>1, <2>2 DEF FlowOK
    <3>2. state' = state \/ state' = NoState \/ state'.there
      BY <1>10, <2>2, RemainsTyped DEF Interrupt
    <3> QED
      BY <2>1, <3>1, <3>2 DEF StateOK, Removed, OwnState, NoState
  <2>3. CASE pc # "remove"
    BY <1>10, <2>1, <2>3 DEF Interrupt, StateOK, Removed, OwnState
  <2> QED
    BY <2>2, <2>3
<1>11. ASSUME NEW d \in Stray, StrayWrites(d) PROVE StateOK'
  <2>1. /\ d.condition \in Conditions /\ d.by \in Evaluations
        /\ [condition |-> d.condition, by |-> d.by] = d
    BY DEF Stray
  <2> QED
    BY <1>11, <2>1, SignedWrite DEF StrayWrites
<1>12. CASE UNCHANGED vars
  BY <1>12 DEF vars, StateOK, Removed, OwnState
<1> QED
  BY <1>1, <1>2, <1>3, <1>5, <1>6, <1>7, <1>8, <1>9, <1>10, <1>11, <1>12 DEF Next

-----------------------------------------------------------------------------
(* The records.                                                            *)

\* What the steps do to the records; all other steps leave them alone.
LEMMA RecordSteps ==
  ASSUME TypeOK, FlowOK, RecordOK, [Next]_vars
  PROVE  \/ Start
         \/ \E c \in Conditions : OpenCondition(c) \/ PrepareStep(c)
         \/ \E p \in Pairs : BlockPair(p) \/ RunPair(p)
         \/ /\ UNCHANGED <<status, step, schedule, record>>
            /\ pc' = "idle" \/ pc # "idle"
            /\ pc' = "prepare" => pc = "prepare"
            /\ pc' = "run" => pc = "run" \/ (pc = "prepare" /\ Prepared)
            /\ RunsDone' => RunsDone \/ (pc = "run" /\ schedule = {})
<1> USE DEF RunsDone, Prepared
<1>1. CASE FinishPreparation \/ FinishRuns \/ Disarm
  BY <1>1 DEF FinishPreparation, FinishRuns, Disarm
<1>2. CASE RemoveState \/ WriteReport \/ EmptyOutput \/ UNCHANGED vars
  BY <1>2 DEF RemoveState, WriteReport, EmptyOutput, vars
<1>3. CASE Interrupt
  BY <1>3 DEF Interrupt, Unwind, FlowOK, TypeOK
<1>4. ASSUME NEW d \in Stray, StrayWrites(d)
      PROVE  UNCHANGED <<pc, status, step, schedule, record, raised>>
  BY <1>4 DEF StrayWrites
<1> QED
  BY <1>1, <1>2, <1>3, <1>4 DEF Next

LEMMA NextStepsOK ==
  ASSUME TypeOK, FlowOK, RecordOK, [Next]_vars
  PROVE  StepsOK'
<1> USE EvaluationAssumption DEF TypeOK, RecordOK, StepsOK
<1>1. CASE Start
  BY <1>1 DEF Start
<1>2. ASSUME NEW c \in Conditions, OpenCondition(c) PROVE StepsOK'
  BY <1>2 DEF OpenCondition
<1>3. ASSUME NEW c \in Conditions, PrepareStep(c) PROVE StepsOK'
  BY <1>3 DEF PrepareStep, Unfinished
<1>4. CASE UNCHANGED <<status, step>>
  BY <1>4
<1> QED
  BY <1>1, <1>2, <1>3, <1>4, RecordSteps DEF BlockPair, RunPair

LEMMA NextPairsOK ==
  ASSUME TypeOK, FlowOK, RecordOK, [Next]_vars
  PROVE  PairsOK'
<1> USE DEF TypeOK, RecordOK, PairsOK
<1>1. CASE Start
  BY <1>1 DEF Start
<1>2. ASSUME NEW c \in Conditions, OpenCondition(c) \/ PrepareStep(c) PROVE PairsOK'
  <2>1. pc = "prepare" /\ UNCHANGED <<pc, schedule, record>>
    BY <1>2 DEF OpenCondition, PrepareStep
  <2>2. \A p \in Pairs : record[p] = "none"
    BY <2>1 DEF PhasesOK
  <2> QED
    BY <2>1, <2>2
<1>3. ASSUME NEW p \in Pairs, BlockPair(p) \/ RunPair(p) PROVE PairsOK'
  <2>1. /\ pc = "run" /\ UNCHANGED <<pc, status>>
        /\ schedule' = schedule \ {p}
        /\ \E s \in {"blocked", "succeeded", "failed"} :
             /\ record' = [record EXCEPT ![p] = s]
             /\ s = "blocked" <=> status[p.condition] = "failed"
    BY <1>3 DEF BlockPair, Blocked, RunPair
  <2> QED
    BY <2>1
<1>4. CASE UNCHANGED <<status, schedule, record>> /\ (pc' = "idle" \/ pc # "idle")
  BY <1>4
<1> QED
  BY <1>1, <1>2, <1>3, <1>4, RecordSteps

LEMMA NextPhasesOK ==
  ASSUME TypeOK, FlowOK, RecordOK, [Next]_vars
  PROVE  PhasesOK'
<1> USE DEF RecordOK, PhasesOK, RunsDone, Prepared, Unfinished
<1>1. CASE Start
  BY <1>1 DEF Start
<1>2. ASSUME NEW c \in Conditions, OpenCondition(c) \/ PrepareStep(c) PROVE PhasesOK'
  BY <1>2 DEF OpenCondition, PrepareStep
<1>3. ASSUME NEW p \in Pairs, BlockPair(p) \/ RunPair(p) PROVE PhasesOK'
  BY <1>3 DEF BlockPair, RunPair, Command
<1> QED
  BY <1>1, <1>2, <1>3, RecordSteps

LEMMA NextRecordOK ==
  ASSUME TypeOK, FlowOK, RecordOK, [Next]_vars
  PROVE  RecordOK'
  BY NextStepsOK, NextPairsOK, NextPhasesOK DEF RecordOK

\* The report is written when everything that it sums up is there.
LEMMA NextResultOK ==
  ASSUME TypeOK, FlowOK, RecordOK, ResultOK, [Next]_vars
  PROVE  ResultOK'
<1> USE DEF ResultOK, EveryPairRecorded, CompletedMeansAllRan
<1>1. CASE UNCHANGED <<report, record, status, step>>
  BY <1>1
<1>2. CASE WriteReport
  <2>1. /\ UNCHANGED <<record, status, step>>
        /\ Prepared
        /\ \A p \in Pairs : record[p] # "none"
    <3>1. /\ pc = "report" /\ raised = 0
          /\ record' = record /\ status' = status /\ step' = step
      BY <1>2 DEF WriteReport, FlowOK
    <3>2. Prepared /\ schedule = {}
      BY <3>1 DEF RecordOK, PhasesOK, RunsDone
    <3> QED
      BY <3>1, <3>2 DEF RecordOK, PairsOK
  <2>2. \A p \in Pairs : record[p] = "blocked" <=> status[p.condition] = "failed"
    BY <2>1 DEF RecordOK, PairsOK, TypeOK
  <2>3. ASSUME report'.status = "completed"
        PROVE  \A p \in Pairs : record[p] = "succeeded"
    <3>1. AllSucceeded
      BY <1>2, <2>3 DEF WriteReport, ReportStatus
    <3> QED
      BY <2>1, <3>1 DEF AllSucceeded
  <2>4. ASSUME report'.status = "completed", NEW c \in Conditions
        PROVE  step[c] = Steps[c]
    <3>1. PICK t \in Tasks : TRUE
      BY EvaluationAssumption
    <3>2. [condition |-> c, task |-> t, repetition |-> 1] \in Pairs
      BY EvaluationAssumption DEF Pairs
    <3>3. status[c] # "failed"
      BY <2>2, <2>3, <2>4, <3>2
    <3> QED
      BY <2>1, <3>3, EvaluationAssumption DEF Prepared, Unfinished, RecordOK, StepsOK,
                                             TypeOK
  <2> QED
    BY <2>1, <2>2, <2>3, <2>4
<1>3. CASE report' \in {None, Torn}
  BY <1>3
<1>4. ASSUME pc # "idle", report' = report PROVE ResultOK'
  BY <1>3, <1>4 DEF FlowOK
<1>5. CASE Start \/ EmptyOutput
  BY <1>3, <1>5 DEF Start, OutputAccepted, EmptyOutput
<1>6. CASE Interrupt
  BY <1>3, <1>4, <1>6 DEF Interrupt
<1>7. ASSUME NEW c \in Conditions, OpenCondition(c) \/ PrepareStep(c) PROVE ResultOK'
  BY <1>4, <1>7 DEF OpenCondition, PrepareStep, Command
<1>8. ASSUME NEW p \in Pairs, BlockPair(p) \/ RunPair(p) PROVE ResultOK'
  BY <1>4, <1>8 DEF BlockPair, RunPair, Command
<1>9. CASE FinishPreparation \/ FinishRuns \/ Disarm \/ RemoveState
  BY <1>1, <1>9 DEF FinishPreparation, FinishRuns, Disarm, RemoveState
<1>10. CASE UNCHANGED vars
  BY <1>1, <1>10 DEF vars
<1>11. ASSUME NEW d \in Stray, StrayWrites(d) PROVE ResultOK'
  BY <1>1, <1>11 DEF StrayWrites
<1> QED
  BY <1>2, <1>5, <1>6, <1>7, <1>8, <1>9, <1>10, <1>11 DEF Next

-----------------------------------------------------------------------------
LEMMA StepPreserves == IInv /\ [Next]_vars => IInv'
  BY NextTypeOK, NextFlowOK, NextStateOK, NextRecordOK, NextResultOK DEF IInv

\* The inductive invariant from which the theorems follow.
THEOREM Inductive == Spec => []IInv
  BY InitEstablishes, StepPreserves, PTL DEF Spec

\* Type correctness, for any conditions, tasks, repetitions and bounds.
THEOREM TypeCorrect == Spec => []TypeOK
<1>1. IInv => TypeOK
  BY DEF IInv
<1> QED
  BY <1>1, Inductive, PTL

\* A result that says "completed" sums up an evaluation in which every condition
\* was prepared to the last command and every pair ran and succeeded, and every
\* result has a record of every pair.
THEOREM ResultsAreWhole == Spec => [](EveryPairRecorded /\ CompletedMeansAllRan)
<1>1. IInv => EveryPairRecorded /\ CompletedMeansAllRan
  BY DEF IInv, ResultOK
<1> QED
  BY <1>1, Inductive, PTL

\* A result has one entry for each repetition of each task under each condition,
\* also for those that could not run because their preparation failed.
THEOREM PairsAreRecorded == Spec => []EveryPairRecorded
<1>1. IInv => EveryPairRecorded
  BY DEF IInv, ResultOK
<1> QED
  BY <1>1, Inductive, PTL

\* Whatever fails or is interrupted, an evaluation finds in its state directories
\* only what it wrote itself or what a process that was left behind writes.
THEOREM StateIsOwn == Spec => []OwnState
<1>1. IInv => OwnState
  BY DEF IInv, StateOK
<1> QED
  BY <1>1, Inductive, PTL

\* Where no process was left behind, an evaluation that ended has removed its state
\* directories, unless the removal failed or was interrupted, or a second exception
\* came.
THEOREM StateRemoved == Spec => []StateIsRemoved
<1>1. IInv => StateIsRemoved
  BY DEF IInv, StateOK, FlowOK, TypeOK, Removed, StateIsRemoved
<1> QED
  BY <1>1, Inductive, PTL

=============================================================================
