--------------------------- MODULE EvaluationRun ---------------------------
(***************************************************************************)
(* codegraph_harness.evaluation: run_evaluation, one evaluation after      *)
(* another into one output directory.                                      *)
(*                                                                         *)
(* An evaluation prepares each condition in a state directory of its own,  *)
(* runs every repetition of every task under every condition in a shuffled *)
(* order, removes the state directories and writes result.json.  A command *)
(* has a time limit; when it ends, only the process the runner started is  *)
(* known to be gone: what that process started may go on writing.  An      *)
(* exception or an interrupt may come at any step and runs the finally     *)
(* clause, which removes the state directories unless that was begun.      *)
(***************************************************************************)
EXTENDS Naturals, FiniteSets

CONSTANTS
  Conditions, Tasks,
  Repetitions,
  Steps,            \* number of prepare commands of each condition
  McpConfigs,       \* conditions with an mcp_config
  MaxEvaluations,   \* bound on the evaluations
  MaxStrays,        \* bound on the commands that leave a process behind
  None, Torn

Evaluations == 1..MaxEvaluations

Pairs == [condition : Conditions, task : Tasks, repetition : 1..Repetitions]

VARIABLES
  pc,         \* "idle", "prepare", "run", "cleanup", "remove" or "report"
  number,     \* evaluations started so far
  storing,    \* store_raw_artifacts
  status,     \* preparation_status
  step,       \* prepare commands that have succeeded
  schedule,   \* pairs still to be run
  record,     \* the status in the `runs` entry of each pair
  armed,      \* the cleanup knows the state directory
  raised,     \* exceptions on their way out: one, or a second one in finally
  cleanup,    \* the outcome of the removal
  state,      \* the directory `state` of the output directory
  raw,        \* the output directory holds raw artifacts
  report,     \* result.json
  stray       \* commands that left a process behind

vars == <<pc, number, storing, status, step, schedule, record, armed, raised,
          cleanup, state, raw, report, stray>>

-----------------------------------------------------------------------------
\* Which evaluations wrote into a condition's directory, and the configuration
\* files that were put there.
State == [there : BOOLEAN, by : [Conditions -> SUBSET Evaluations],
          mcp : SUBSET McpConfigs]

NoState == [there |-> FALSE, by |-> [c \in Conditions |-> {}], mcp |-> {}]

Report == [status : {"completed", "completed_with_failures"},
           cleanup : {"succeeded", "failed"}]

Stray == [condition : Conditions, by : Evaluations]

ASSUME EvaluationAssumption ==
  /\ Conditions # {} /\ Tasks # {}
  /\ Repetitions \in Nat \ {0}
  /\ Steps \in [Conditions -> Nat]
  /\ McpConfigs \subseteq Conditions
  /\ MaxEvaluations \in Nat /\ MaxStrays \in Nat
  /\ None \notin Report /\ Torn \notin Report /\ None # Torn

Init ==
  /\ pc = "idle"
  /\ number = 0
  /\ storing = FALSE
  /\ status = [c \in Conditions |-> "pending"]
  /\ step = [c \in Conditions |-> 0]
  /\ schedule = {}
  /\ record = [p \in Pairs |-> "none"]
  /\ armed = FALSE /\ raised = 0
  /\ cleanup = "none"
  /\ state = NoState
  /\ raw = FALSE
  /\ report = None
  /\ stray = {}

-----------------------------------------------------------------------------
(* The beginning.                                                          *)

\* Faulty variant of OutputAccepted: only an earlier result is in the way.
NoResultYet == report = None

\* "output_dir must not exist or must be an empty directory".
OutputAccepted == ~state.there /\ ~raw /\ report = None

Start ==
  /\ pc = "idle" /\ number < MaxEvaluations
  /\ OutputAccepted
  /\ pc' = "prepare"
  /\ number' = number + 1
  /\ storing' \in BOOLEAN
  /\ status' = [c \in Conditions |-> "pending"]
  /\ step' = [c \in Conditions |-> 0]
  /\ schedule' = Pairs
  /\ record' = [p \in Pairs |-> "none"]
  /\ armed' = TRUE /\ raised' = 0
  /\ cleanup' = "none"
  /\ UNCHANGED <<state, raw, report, stray>>

\* The user makes room for the next evaluation.
EmptyOutput ==
  /\ pc = "idle"
  /\ state' = NoState /\ raw' = FALSE /\ report' = None
  /\ UNCHANGED <<pc, number, storing, status, step, schedule, record, armed,
                 raised, cleanup, stray>>

-----------------------------------------------------------------------------
(* Preparation.                                                            *)

Unfinished(c) == status[c] = "succeeded" /\ step[c] < Steps[c]

\* The conditions come in the order of the configuration, which is any order.
OpenCondition(c) ==
  /\ pc = "prepare" /\ status[c] = "pending"
  /\ \A d \in Conditions : ~Unfinished(d)
  /\ state' = [state EXCEPT !.there = TRUE, !.mcp = @ \cup ({c} \cap McpConfigs)]
  /\ status' = [status EXCEPT ![c] = IF Steps[c] = 0 THEN "not_required"
                                                     ELSE "succeeded"]
  /\ UNCHANGED <<pc, number, storing, step, schedule, record, armed, raised,
                 cleanup, raw, report, stray>>

\* A command of condition c ran: it wrote into its state directory, or not; its
\* output is kept if that was asked for; it may leave a process behind.
Command(c) ==
  /\ state' \in {state, [state EXCEPT !.there = TRUE, !.by[c] = @ \cup {number}]}
  /\ raw' = (raw \/ storing)
  /\ \/ UNCHANGED stray
     \/ /\ Cardinality(stray) < MaxStrays
        /\ stray' = stray \cup {[condition |-> c, by |-> number]}
  /\ UNCHANGED <<number, storing, armed, raised, cleanup, report>>

PrepareStep(c) ==
  /\ pc = "prepare" /\ Unfinished(c)
  /\ \/ step' = [step EXCEPT ![c] = @ + 1] /\ UNCHANGED status
     \/ status' = [status EXCEPT ![c] = "failed"] /\ UNCHANGED step
  /\ Command(c)
  /\ UNCHANGED <<pc, schedule, record>>

FinishPreparation ==
  /\ pc = "prepare" /\ pc' = "run"
  /\ \A c \in Conditions : status[c] # "pending" /\ ~Unfinished(c)
  /\ UNCHANGED <<number, storing, status, step, schedule, record, armed, raised,
                 cleanup, state, raw, report, stray>>

-----------------------------------------------------------------------------
(* The runs, in the shuffled order: any pair may be next.                  *)

\* Faulty variant of Blocked: the pair is passed over.
SkipsBlocked(p) == UNCHANGED record

Blocked(p) == record' = [record EXCEPT ![p] = "blocked"]

BlockPair(p) ==
  /\ pc = "run" /\ p \in schedule
  /\ status[p.condition] = "failed"
  /\ schedule' = schedule \ {p}
  /\ Blocked(p)
  /\ UNCHANGED <<pc, number, storing, status, step, armed, raised, cleanup,
                 state, raw, report, stray>>

RunPair(p) ==
  /\ pc = "run" /\ p \in schedule
  /\ status[p.condition] # "failed"
  /\ schedule' = schedule \ {p}
  /\ \E s \in {"succeeded", "failed"} : record' = [record EXCEPT ![p] = s]
  /\ Command(p.condition)
  /\ UNCHANGED <<pc, status, step>>

FinishRuns ==
  /\ pc = "run" /\ schedule = {}
  /\ pc' = "cleanup"
  /\ UNCHANGED <<number, storing, status, step, schedule, record, armed, raised,
                 cleanup, state, raw, report, stray>>

-----------------------------------------------------------------------------
(* _StateCleanup.cleanup, called once after the runs and once in finally.  *)

\* The path is forgotten before it is removed.
Disarm ==
  /\ pc = "cleanup"
  /\ armed' = FALSE
  /\ pc' = IF armed THEN "remove" ELSE "idle"
  /\ UNCHANGED <<number, storing, status, step, schedule, record, raised, cleanup,
                 state, raw, report, stray>>

\* What a removal that did not come to its end may leave.
Remains == {s \in [there : {TRUE}, by : [Conditions -> SUBSET Evaluations],
                   mcp : SUBSET McpConfigs] :
              /\ \A c \in Conditions : s.by[c] \in {{}, state.by[c]}
              /\ s.mcp \subseteq state.mcp}

\* shutil.rmtree; an OSError is the status "failed".  Before Python 3.13 a file
\* that vanishes after it was listed ends the removal with FileNotFoundError,
\* which is passed over as "succeeded": only a process that was left behind can
\* take away a file here.
RemoveState ==
  /\ pc = "remove"
  /\ \/ state' = NoState /\ cleanup' = "succeeded"
     \/ /\ state.there
        /\ state' \in Remains
        /\ cleanup' = "failed" \/ (stray # {} /\ cleanup' = "succeeded")
  /\ pc' = IF raised = 0 THEN "report" ELSE "idle"
  /\ UNCHANGED <<number, storing, status, step, schedule, record, armed, raised,
                 raw, report, stray>>

-----------------------------------------------------------------------------
(* The result, and the ways out.                                           *)

\* Faulty variant of AllSucceeded: a blocked pair does not count as failed.
NoneFailed == \A p \in Pairs : record[p] # "failed"

AllSucceeded == \A p \in Pairs : record[p] \in {"none", "succeeded"}

ReportStatus ==
  IF AllSucceeded /\ cleanup = "succeeded" THEN "completed"
                                           ELSE "completed_with_failures"

\* cleanup in finally finds nothing to do.
WriteReport ==
  /\ pc = "report" /\ pc' = "idle"
  /\ report' = [status |-> ReportStatus, cleanup |-> cleanup]
  /\ UNCHANGED <<number, storing, status, step, schedule, record, armed, raised,
                 cleanup, state, raw, stray>>

\* Faulty variant of Unwind: the cleanup is not in a finally clause.
UnwindsWithoutCleanup == pc' = "idle"

\* A second exception ends the finally clause too.
Unwind == pc' = IF raised = 0 THEN "cleanup" ELSE "idle"

\* An interrupt, or an exception of a step itself (an artifact that cannot be
\* written).  A file that is being written is torn, a removal stops half way.
Interrupt ==
  /\ pc # "idle"
  /\ Unwind
  /\ raised' = raised + 1
  /\ state' \in IF pc = "remove" THEN {state, NoState} \cup (IF state.there THEN Remains ELSE {})
                ELSE {state}
  /\ report' \in IF pc = "report" THEN {None, Torn} ELSE {report}
  /\ UNCHANGED <<number, storing, status, step, schedule, record, armed, cleanup,
                 raw, stray>>

\* A process that a command left behind writes where it was started to write.
StrayWrites(d) ==
  /\ d \in stray
  /\ state' = [state EXCEPT !.there = TRUE, !.by[d.condition] = @ \cup {d.by}]
  /\ UNCHANGED <<pc, number, storing, status, step, schedule, record, armed,
                 raised, cleanup, raw, report, stray>>

Next ==
  \/ Start \/ EmptyOutput
  \/ \E c \in Conditions : OpenCondition(c) \/ PrepareStep(c)
  \/ FinishPreparation
  \/ \E p \in Pairs : BlockPair(p) \/ RunPair(p)
  \/ FinishRuns \/ Disarm \/ RemoveState \/ WriteReport
  \/ Interrupt
  \/ \E d \in Stray : StrayWrites(d)

Spec == Init /\ [][Next]_vars

-----------------------------------------------------------------------------
TypeOK ==
  /\ pc \in {"idle", "prepare", "run", "cleanup", "remove", "report"}
  /\ number \in 0..MaxEvaluations
  /\ storing \in BOOLEAN
  /\ status \in [Conditions -> {"pending", "not_required", "succeeded", "failed"}]
  /\ step \in [Conditions -> Nat]
  /\ schedule \subseteq Pairs
  /\ record \in [Pairs -> {"none", "blocked", "succeeded", "failed"}]
  /\ armed \in BOOLEAN /\ raised \in 0..2
  /\ cleanup \in {"none", "succeeded", "failed"}
  /\ state \in State
  /\ raw \in BOOLEAN
  /\ report \in Report \cup {None, Torn}
  /\ stray \subseteq Stray

\* A result that says "completed" was written by an evaluation in which every
\* condition was prepared to its last command and every repetition of every task
\* ran and succeeded under it.
CompletedMeansAllRan ==
  report # None /\ report # Torn /\ report.status = "completed" =>
    /\ \A p \in Pairs : record[p] = "succeeded"
    /\ \A c \in Conditions : step[c] = Steps[c]

\* The repetitions of a task are summarized whole: a result has an entry for
\* every pair, and the blocked ones are those whose preparation failed.
EveryPairRecorded ==
  report # None /\ report # Torn =>
    \A p \in Pairs : /\ record[p] # "none"
                     /\ record[p] = "blocked" <=> status[p.condition] = "failed"

\* An evaluation that ended, with a result or with one exception at any step,
\* and whose removal did not fail, has left nothing in the state directories if
\* no command ever left a process behind.  If one did, anything may be left, of
\* the other conditions too, and the result still says "succeeded".
StateIsRemoved ==
  pc = "idle" /\ raised < 2 /\ (armed \/ cleanup = "succeeded") /\ stray = {} =>
    /\ state.mcp = {}
    /\ \A c \in Conditions : state.by[c] = {}

\* What an evaluation finds in a condition's state directory was written by a
\* command of that condition in this evaluation, or by a process that an
\* earlier command of that condition left behind: leftovers of a failed
\* cleanup are never measured as a warm cache.
OwnState ==
  pc \in {"prepare", "run"} =>
    \A c \in Conditions : \A n \in state.by[c] :
      n = number \/ [condition |-> c, by |-> n] \in stray

=============================================================================
