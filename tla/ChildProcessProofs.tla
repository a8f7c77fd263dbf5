-------------------------- MODULE ChildProcessProofs --------------------------
(* The process group is torn down, however many descendants there are.         *)
EXTENDS ChildProcess, TLAPS

\* Before the start, and after a start that failed, there is no descendant.
StartOK ==
  /\ pc = "start" => child = "none"
  /\ child = "none" => alive = {}

\* Once the group was killed nothing can start another member of it: the child
\* has ended, and what is left out of the group cannot put a process into it.
KilledOK ==
  pc \in {"drain", "returned"} => child # "running" /\ alive \cap grouped = {}

IInv == TypeOK /\ StartOK /\ KilledOK

LEMMA InitEstablishes == Init => IInv
BY DEF Init, IInv, TypeOK, StartOK, KilledOK

\* What a kill of the group leaves: no member of it, whatever ran before.
LEMMA TerminateKills ==
  ASSUME IInv, Terminate
  PROVE  /\ child' # "running" /\ alive' \cap grouped' = {}
         /\ child = "none" <=> child' = "none"
         /\ child' \in {"none", "running", "exited", "killed"}
         /\ fresh' = fresh /\ grouped' = grouped /\ holding' = holding
         /\ alive' \subseteq alive
BY DEF IInv, TypeOK, Terminate

LEMMA GatewayPreserves ==
  ASSUME IInv, Gateway
  PROVE  IInv'
<1> USE DEF IInv, TypeOK, StartOK, KilledOK
<1>1. CASE Start
  BY <1>1 DEF Start, tree
<1>2. CASE Wait
  BY <1>2 DEF Wait, tree
<1>3. CASE SelectDone
  BY <1>3 DEF SelectDone, tree
<1>4. CASE SelectExpired
  BY <1>4, TerminateKills DEF SelectExpired
<1>5. CASE Teardown
  BY <1>5, TerminateKills DEF Teardown
<1>6. CASE Close
  BY <1>6, TerminateKills DEF Close
<1>7. CASE Drain
  BY <1>7 DEF Drain, tree
<1>8. QED
  BY <1>1, <1>2, <1>3, <1>4, <1>5, <1>6, <1>7 DEF Gateway

\* A process started after the kill is started by one outside the group, and is
\* outside it too.
LEMMA SpawnPreserves ==
  ASSUME IInv, NEW d \in Descendants, NEW inGroup \in BOOLEAN, NEW holds \in BOOLEAN,
         Spawn(d, inGroup, holds)
  PROVE  IInv'
<1> USE DEF IInv, TypeOK, StartOK, KilledOK, Spawn
<1>1. TypeOK'
  OBVIOUS
<1>2. child # "none"
  OBVIOUS
<1>3. ASSUME pc \in {"drain", "returned"}
      PROVE  alive' \cap grouped' = {}
  <2>1. PICK parent \in alive : inGroup => parent \in grouped
    BY <1>3
  <2>2. ~inGroup
    BY <1>3, <2>1
  <2>3. grouped' = grouped /\ d \notin grouped
    BY <2>2
  <2>4. QED
    BY <1>3, <2>3
<1>4. QED
  BY <1>1, <1>2, <1>3

LEMMA StepPreserves == IInv /\ [Next]_vars => IInv'
<1> SUFFICES ASSUME IInv, [Next]_vars
             PROVE  IInv'
  OBVIOUS
<1>1. CASE Gateway
  BY <1>1, GatewayPreserves
<1>2. CASE Expire
  BY <1>2 DEF Expire, tree, IInv, TypeOK, StartOK, KilledOK
<1>3. CASE Exit
  BY <1>3 DEF Exit, tree, IInv, TypeOK, StartOK, KilledOK
<1>4. ASSUME NEW d \in Descendants, End(d)
      PROVE  IInv'
  BY <1>4 DEF End, IInv, TypeOK, StartOK, KilledOK
<1>5. CASE UNCHANGED vars
  BY <1>5 DEF vars, IInv, TypeOK, StartOK, KilledOK
<1>6. QED
  BY <1>1, <1>2, <1>3, <1>4, <1>5, SpawnPreserves DEF Next

THEOREM Inductive == Spec => []IInv
BY InitEstablishes, StepPreserves, PTL DEF Spec

\* Type correctness, for any number of descendants.
THEOREM TypeCorrect == Spec => []TypeOK
<1>1. IInv => TypeOK
  BY DEF IInv
<1>2. QED
  BY <1>1, Inductive, PTL

\* RunChildCommand and Close return only after the child has ended and its
\* process group is empty, however many processes were started into the group
\* and however late: no descendant survives in the group.
THEOREM GroupEnds == Spec => []GroupTornDown
<1>1. IInv => GroupTornDown
  BY DEF IInv, KilledOK, GroupTornDown
<1>2. QED
  BY <1>1, Inductive, PTL

=============================================================================
