--------------------------- MODULE RegisterProofs ---------------------------
(* IndexStore implements ActiveIndex: the pointer file and the manifest     *)
(* files, written and read one at a time, behave as one atomic register.    *)
EXTENDS IndexStoreProofs

Identities == [id : Identity, pin : Pins]

\* The abstract verdict of a server that is at none of the comparison's labels.
LEMMA QuietVerdict ==
  ASSUME NEW s, pc[s] \notin {"current", "load", "call"}
  PROVE  Verdict(s) = "none"
  BY DEF Verdict

LEMMA DemandTyped ==
  ASSUME TypeOK, NEW s \in Servers
  PROVE  Demand(s) \in Identities
  BY StoreAssumption DEF TypeOK, Demand, Identities, Procs

\* A step that changes neither the active index nor what a server compares is
\* a stutter of the register.
LEMMA SameView ==
  ASSUME Active' = Active,
         \A s \in Servers : Demand(s)' = Demand(s) /\ Verdict(s)' = Verdict(s)
  PROVE  UNCHANGED Register!activeVars
  <1>1. [s \in Servers |-> Demand(s)]' = [s \in Servers |-> Demand(s)]
    OBVIOUS
  <1>2. [s \in Servers |-> Verdict(s)]' = [s \in Servers |-> Verdict(s)]
    OBVIOUS
  <1> QED
    BY <1>1, <1>2 DEF Register!activeVars

\* A server that ends a comparison, or gives up, withdraws it.
LEMMA WithdrawView ==
  ASSUME NEW s \in Servers, Active' = Active, Demand(s)' \in Identities,
         Verdict(s)' = "none",
         \A q \in Servers \ {s} : Demand(q)' = Demand(q) /\ Verdict(q)' = Verdict(q)
  PROVE  Register!Withdraw(s)
  <1>1. [q \in Servers |-> Demand(q)]' =
          [[q \in Servers |-> Demand(q)] EXCEPT ![s] = Demand(s)']
    OBVIOUS
  <1>2. [q \in Servers |-> Verdict(q)]' =
          [[q \in Servers |-> Verdict(q)] EXCEPT ![s] = "none"]
    OBVIOUS
  <1> QED
    BY <1>1, <1>2 DEF Register!Withdraw, Identities

\* The active index is that of the manifest `current` names, and changes with
\* neither another generation's manifest nor anything else.
LEMMA SameActive ==
  ASSUME current' = current, current # 0 => manifest'[current] = manifest[current]
  PROVE  Active' = Active
  BY DEF Active

\* What a server's comparison looks like depends on its own state and on the
\* manifest it is about to read.
LEMMA SameComparison ==
  ASSUME NEW s \in Servers, pc'[s] = pc[s], want'[s] = want[s],
         pointer'[s] = pointer[s],
         pc[s] = "load" => manifest'[pointer[s]] = manifest[pointer[s]]
  PROVE  Demand(s)' = Demand(s) /\ Verdict(s)' = Verdict(s)
  <1>1. pc[s] = "load" => Fresh(s, pointer[s])' = Fresh(s, pointer[s])
    BY DEF Fresh
  <1> QED
    BY <1>1 DEF Demand, Verdict

-----------------------------------------------------------------------------
(* Each step of the files is a step of the register or a stutter.          *)

\* A step of one process that writes no manifest a server could be reading.
LEMMA OthersKeepView ==
  ASSUME TypeOK, NEW p \in Procs,
         \A s \in Servers \ {p} :
           pc'[s] = pc[s] /\ want'[s] = want[s] /\ pointer'[s] = pointer[s],
         UNCHANGED <<manifest, current>>
  PROVE  /\ Active' = Active
         /\ \A s \in Servers \ {p} : Demand(s)' = Demand(s) /\ Verdict(s)' = Verdict(s)
  BY SameActive, SameComparison

LEMMA LeaveView ==
  ASSUME TypeOK, TypeOK', NEW p \in Procs, Leave(p) \/ Refuse(p)
  PROVE  UNCHANGED Register!activeVars \/ \E s \in Servers : Register!Withdraw(s)
  <1>1. /\ \A s \in Servers \ {p} :
             pc'[s] = pc[s] /\ want'[s] = want[s] /\ pointer'[s] = pointer[s]
        /\ UNCHANGED <<manifest, current>>
    BY DEF Leave, Refuse, AnswerUnavailable, Goto, TypeOK, Procs, storeVars
  <1>2. pc'[p] \in {"idle", "ready"}
    BY DEF Leave, Refuse, AnswerUnavailable, Goto, TypeOK
  <1>3. /\ Active' = Active
        /\ \A s \in Servers \ {p} : Demand(s)' = Demand(s) /\ Verdict(s)' = Verdict(s)
    BY <1>1, OthersKeepView
  <1>4. CASE p \notin Servers
    BY <1>3, <1>4, SameView
  <1>5. CASE p \in Servers
    <2>1. Verdict(p)' = "none"
      BY <1>2 DEF Verdict
    <2>2. Demand(p)' \in Identities
      BY <1>5, StoreAssumption DEF TypeOK, Demand, Identities, Procs
    <2> QED
      BY <1>3, <1>5, <2>1, <2>2, WithdrawView
  <1> QED
    BY <1>4, <1>5

\* A process that takes a step outside the comparison: nothing to see.
LEMMA QuietView ==
  ASSUME TypeOK, NEW p \in Procs,
         \A s \in Servers \ {p} :
           pc'[s] = pc[s] /\ want'[s] = want[s] /\ pointer'[s] = pointer[s],
         UNCHANGED <<manifest, current>>,
         p \in Servers => /\ want'[p] = want[p]
                          /\ pc[p] \notin {"current", "load", "call"}
                          /\ pc'[p] \notin {"current", "load", "call"}
  PROVE  UNCHANGED Register!activeVars
  <1>1. /\ Active' = Active
        /\ \A s \in Servers \ {p} : Demand(s)' = Demand(s) /\ Verdict(s)' = Verdict(s)
    BY OthersKeepView
  <1>2. p \in Servers => Demand(p)' = Demand(p) /\ Verdict(p)' = Verdict(p)
    BY DEF Demand, Verdict
  <1> QED
    BY <1>1, <1>2, SameView

LEMMA ObserveView ==
  ASSUME TypeOK, TypeOK', NEW p \in Procs, Observe(p)
  PROVE  [Register!Next]_Register!activeVars
  <1> USE DEF Goto, KeepAllButSeen, storeVars
  <1>1. CASE Leave(p) \/ Refuse(p)
    BY <1>1, LeaveView DEF Register!Next
  <1>2. CASE \/ ReadHead(p) \/ ReadIndexEntries(p) \/ ReadHeadEntries(p)
             \/ WalkWorkingTree(p) /\ ObservedClean(p)
    <2>1. /\ \A s \in Servers \ {p} : pc'[s] = pc[s]
          /\ pc[p] \notin {"current", "load", "call"}
          /\ pc'[p] \notin {"current", "load", "call"}
          /\ UNCHANGED <<manifest, current, want, pointer>>
      BY <1>2 DEF ReadHead, ReadIndexEntries, ReadHeadEntries, WalkWorkingTree,
                  TypeOK, Procs
    <2> QED
      BY <2>1, QuietView
  <1>3. CASE HashFiles(p) /\ AcceptedFiles(p)
    <2>1. /\ \A s \in Servers \ {p} :
               pc'[s] = pc[s] /\ want'[s] = want[s] /\ pointer'[s] = pointer[s]
          /\ pc[p] = "files"
          /\ UNCHANGED <<manifest, current, pointer>>
      BY <1>3 DEF HashFiles, TypeOK, Procs
    <2>2. CASE p \notin Servers
      BY <2>1, <2>2, QuietView
    <2>3. CASE p \in Servers
      <3>1. pc'[p] = "current"
        BY <1>3, <2>3, StoreAssumption DEF HashFiles, TypeOK
      <3>2. Verdict(p) = "none" /\ Verdict(p)' = "asked"
        BY <2>1, <3>1 DEF Verdict
      <3>3. Demand(p)' \in Identities
        BY <2>3, StoreAssumption DEF TypeOK, Demand, Identities, Procs
      <3>4. /\ Active' = Active
            /\ \A s \in Servers \ {p} : Demand(s)' = Demand(s) /\ Verdict(s)' = Verdict(s)
        BY <2>1, OthersKeepView
      <3>5. [q \in Servers |-> Demand(q)]' =
              [[q \in Servers |-> Demand(q)] EXCEPT ![p] = Demand(p)']
        BY <3>4
      <3>6. [q \in Servers |-> Verdict(q)]' =
              [[q \in Servers |-> Verdict(q)] EXCEPT ![p] = "asked"]
        BY <3>2, <3>4
      <3>7. [q \in Servers |-> Verdict(q)][p] = "none"
        BY <2>3, <3>2
      <3>8. Register!Ask(p)
        BY <3>3, <3>4, <3>5, <3>6, <3>7 DEF Register!Ask, Identities
      <3> QED
        BY <2>3, <3>8 DEF Register!Next
    <2> QED
      BY <2>2, <2>3
  <1>4. \/ Leave(p) \/ Refuse(p)
        \/ ReadHead(p) \/ ReadIndexEntries(p) \/ ReadHeadEntries(p)
        \/ WalkWorkingTree(p) /\ ObservedClean(p)
        \/ HashFiles(p) /\ AcceptedFiles(p)
    BY DEF Observe, WalkWorkingTree, HashFiles
  <1> QED
    BY <1>1, <1>2, <1>3, <1>4, Zenon

LEMMA BuildView ==
  ASSUME IInv, TypeOK', NEW b \in Builders, Build(b) \/ AbortBuild(b)
  PROVE  [Register!Next]_Register!activeVars
  <1> USE DEF Goto, KeepAllButStore
  <1>1. b \in Procs /\ b \notin Servers /\ TypeOK
    BY StoreAssumption DEF Procs, IInv
  <1>2. CASE Leave(b)
    BY <1>1, <1>2, LeaveView DEF Register!Next
  <1>3. CASE AcquireIndexLock(b) \/ IndexRepository(b) \/ IndexCounts(b)
    <2>1. CASE Leave(b)
      BY <1>2, <2>1
    <2>2. CASE ~Leave(b)
      <3>1. /\ \A s \in Servers : pc'[s] = pc[s]
            /\ UNCHANGED <<manifest, current, want, pointer>>
        BY <1>1, <1>3, <2>2
           DEF AcquireIndexLock, IndexRepository, IndexCounts, storeVars, TypeOK, Procs
      <3> QED
        BY <1>1, <3>1, QuietView
    <2> QED
      BY <2>1, <2>2
  <1>4. CASE InstallManifest(b)
    <2>1. /\ \A s \in Servers : pc'[s] = pc[s]
          /\ \A g \in Generations \ {gen[b]} : manifest'[g] = manifest[g]
          /\ UNCHANGED <<current, want, pointer>>
          /\ pc[b] = "manifest"
      BY <1>1, <1>4 DEF InstallManifest, TypeOK, Procs
    <2>2. manifest[gen[b]] = None
      BY <2>1 DEF IInv, BuildOK
    <2>3. gen[b] \in Generations /\ current < gen[b]
      BY <2>1, WrittenGeneration
    <2>4. Active' = Active
      <3>1. current # 0 => current \in Generations \ {gen[b]}
        BY <1>1, <2>3, StoreAssumption DEF TypeOK, Generations
      <3> QED
        BY <2>1, <3>1, SameActive
    <2>5. ASSUME NEW s \in Servers PROVE Demand(s)' = Demand(s) /\ Verdict(s)' = Verdict(s)
      <3>1. pc[s] = "load" => manifest'[pointer[s]] = manifest[pointer[s]]
        <4> SUFFICES ASSUME pc[s] = "load"
                     PROVE  manifest'[pointer[s]] = manifest[pointer[s]]
          OBVIOUS
        <4>1. manifest[pointer[s]] # None /\ pointer[s] # 0
          BY DEF IInv, ServerOK, HeldOK
        <4>2. pointer[s] \in Generations \ {gen[b]}
          BY <1>1, <2>2, <4>1, StoreAssumption DEF TypeOK, Generations
        <4> QED
          BY <2>1, <4>2
      <3> QED
        BY <2>1, <3>1, SameComparison
    <2> QED
      BY <2>4, <2>5, SameView
  <1>5. CASE InstallPointer(b)
    <2>1. /\ \A s \in Servers : pc'[s] = pc[s]
          /\ UNCHANGED <<manifest, want, pointer>>
          /\ pc[b] = "pointer" /\ current' = gen[b]
      BY <1>1, <1>5 DEF InstallPointer, TypeOK, Procs
    <2>2. gen[b] \in Generations /\ current < gen[b] /\ manifest[gen[b]] # None
      BY <2>1, WrittenGeneration DEF IInv, BuildOK
    <2>3. ASSUME NEW s \in Servers PROVE Demand(s)' = Demand(s) /\ Verdict(s)' = Verdict(s)
      BY <2>1, SameComparison
    <2>4. manifest[gen[b]].id \in Identity /\ manifest[gen[b]].pin \in Pins
      BY <1>1, <2>2 DEF TypeOK, Manifest
    <2>5. Active' = [gen |-> gen[b],
                     id |-> [id |-> manifest[gen[b]].id, pin |-> manifest[gen[b]].pin]]
      BY <2>1, <2>2 DEF Active, Generations
    <2>6. Active' \in Register!Index
      BY <2>2, <2>4, <2>5 DEF Register!Index, Generations
    <2>7. Active'.gen = gen[b] /\ Active.gen = current
      BY <2>5 DEF Active
    <2>8. /\ [s \in Servers |-> Demand(s)]' = [s \in Servers |-> Demand(s)]
          /\ [s \in Servers |-> Verdict(s)]' = [s \in Servers |-> Verdict(s)]
      BY <2>3
    <2>9. Active'.gen > Active.gen
      BY <1>1, <2>2, <2>7, StoreAssumption DEF TypeOK, Generations
    <2>10. Register!Activate
      BY <2>6, <2>8, <2>9 DEF Register!Activate
    <2> QED
      BY <2>10 DEF Register!Next
  <1>6. \/ Leave(b) \/ InstallManifest(b) \/ InstallPointer(b)
        \/ AcquireIndexLock(b) \/ IndexRepository(b) \/ IndexCounts(b)
    BY DEF Build, AbortBuild, FinishBuild
  <1> QED
    BY <1>2, <1>3, <1>4, <1>5, <1>6, Zenon

LEMMA ServeView ==
  ASSUME IInv, TypeOK', NEW s \in Servers,
         ReceiveCall(s) \/ Serve(s) \/ StopServer(s)
  PROVE  [Register!Next]_Register!activeVars
  <1> USE DEF Goto, storeVars
  <1>1. s \in Procs /\ TypeOK
    BY DEF Procs, IInv
  <1>2. CASE Leave(s) \/ Refuse(s)
    BY <1>1, <1>2, LeaveView DEF Register!Next
  <1>3. CASE ReceiveCall(s)
    <2>1. /\ \A q \in Servers \ {s} : pc'[q] = pc[q] /\ pointer'[q] = pointer[q]
          /\ pc[s] = "ready" /\ pc'[s] = "head"
          /\ UNCHANGED <<manifest, current, want>>
      BY <1>1, <1>3 DEF ReceiveCall, TypeOK
    <2> QED
      BY <1>1, <2>1, QuietView
  <1>4. CASE LoadPointer(s) /\ current # 0
    <2>1. /\ \A q \in Servers \ {s} : pc'[q] = pc[q] /\ pointer'[q] = pointer[q]
          /\ pc[s] = "current" /\ pc'[s] = "load" /\ pointer'[s] = current
          /\ UNCHANGED <<manifest, current, want>>
      <3>1. /\ pc[s] = "current"
            /\ pc' = [pc EXCEPT ![s] = "load"]
            /\ pointer' = [pointer EXCEPT ![s] = current]
            /\ UNCHANGED <<manifest, current, want>>
        BY <1>4 DEF LoadPointer
      <3> QED
        BY <1>1, <3>1 DEF TypeOK
    <2>2. /\ Active' = Active
          /\ \A q \in Servers \ {s} : Demand(q)' = Demand(q) /\ Verdict(q)' = Verdict(q)
      BY <1>1, <2>1, OthersKeepView
    <2>3. Demand(s)' = Demand(s)
      BY <2>1 DEF Demand
    <2>4. Verdict(s) = "asked"
      BY <2>1 DEF Verdict
    <2>5. Verdict(s)' = IF Fresh(s, current) THEN "match" ELSE "mismatch"
      <3>1. Fresh(s, pointer[s])' <=> Fresh(s, current)
        BY <2>1 DEF Fresh
      <3>2. pc'[s] = "load"
        BY <2>1
      <3> QED
        BY <3>1, <3>2 DEF Verdict
    <2>6. Fresh(s, current) <=> Active \in Register!Index /\ Active.id = Demand(s)
      <3>1. current \in Generations /\ manifest[current] # None
        BY <1>1, <1>4, StoreAssumption DEF IInv, TypeOK, StoreOK, Generations
      <3>2. /\ manifest[current] \in Manifest
            /\ manifest[current].generation = current
        BY <1>1, <3>1, StoreAssumption DEF IInv, TypeOK, StoreOK
      <3>3. PICK id \in Identity, pin \in Pins :
              manifest[current] = [generation |-> current, id |-> id, pin |-> pin]
        BY <3>2 DEF Manifest
      <3>4. Active = [gen |-> current, id |-> [id |-> id, pin |-> pin]]
        BY <1>4, <3>3 DEF Active
      <3>5. Active \in Register!Index
        BY <3>1, <3>4 DEF Register!Index, Generations
      <3>6. Active.id = [id |-> id, pin |-> pin]
        BY <3>4
      <3>7. [id |-> id, pin |-> pin] = Demand(s) <=> id = want[s] /\ pin = PinOf[s]
        BY DEF Demand
      <3>8. Fresh(s, current) <=> id = want[s] /\ pin = PinOf[s]
        BY <3>3 DEF Fresh
      <3> QED
        BY <3>5, <3>6, <3>7, <3>8
    <2>7. [q \in Servers |-> Demand(q)]' = [q \in Servers |-> Demand(q)]
      BY <2>2, <2>3
    <2>8. [q \in Servers |-> Verdict(q)]' =
            [[q \in Servers |-> Verdict(q)] EXCEPT ![s] = Verdict(s)']
      BY <2>2
    <2>9. /\ [q \in Servers |-> Demand(q)][s] = Demand(s)
          /\ [q \in Servers |-> Verdict(q)][s] = "asked"
      BY <2>4
    <2>10. Register!Decide(s)
      BY <2>2, <2>5, <2>6, <2>7, <2>8, <2>9 DEF Register!Decide
    <2> QED
      BY <2>10 DEF Register!Next
  <1>5. CASE LoadManifest(s) /\ Fresh(s, pointer[s])
    <2>1. /\ \A q \in Servers \ {s} : pc'[q] = pc[q]
          /\ pc[s] = "load" /\ pc'[s] \in {"call", "ready"}
          /\ UNCHANGED <<manifest, current, want, pointer>>
      <3>1. /\ pc[s] = "load"
            /\ \/ pc' = [pc EXCEPT ![s] = "call"]
               \/ pc' = [pc EXCEPT ![s] = "ready"]
            /\ UNCHANGED <<manifest, current, want, pointer>>
        BY <1>5 DEF LoadManifest
      <3>2. \A q \in Servers \ {s} : pc'[q] = pc[q]
        BY <1>1, <3>1 DEF TypeOK, Procs
      <3>3. pc'[s] \in {"call", "ready"}
        BY <1>1, <3>1 DEF TypeOK
      <3> QED
        BY <3>1, <3>2, <3>3
    <2>2. /\ Active' = Active
          /\ \A q \in Servers \ {s} : Demand(q)' = Demand(q) /\ Verdict(q)' = Verdict(q)
      BY <1>1, <2>1, OthersKeepView
    <2>3. Demand(s)' = Demand(s) /\ Demand(s) \in Identities
      BY <1>1, <2>1, DemandTyped DEF Demand
    <2>4. CASE pc'[s] = "call"
      <3>1. Verdict(s) = "match" /\ Verdict(s)' = "match"
        BY <1>5, <2>1, <2>4 DEF Verdict
      <3> QED
        BY <2>2, <2>3, <3>1, SameView
    <2>5. CASE pc'[s] = "ready"
      <3>1. Verdict(s)' = "none"
        BY <2>5 DEF Verdict
      <3>2. Register!Withdraw(s)
        BY <2>2, <2>3, <3>1, WithdrawView
      <3> QED
        BY <3>2 DEF Register!Next
    <2> QED
      BY <2>1, <2>4, <2>5
  <1>6. CASE AnswerFromGraph(s)
    <2>1. /\ \A q \in Servers \ {s} : pc'[q] = pc[q] /\ pointer'[q] = pointer[q]
          /\ pc'[s] = "ready"
          /\ UNCHANGED <<manifest, current, want>>
      BY <1>1, <1>6 DEF AnswerFromGraph, TypeOK
    <2>2. /\ Active' = Active
          /\ \A q \in Servers \ {s} : Demand(q)' = Demand(q) /\ Verdict(q)' = Verdict(q)
      BY <1>1, <2>1, OthersKeepView
    <2>3. Demand(s)' = Demand(s) /\ Demand(s) \in Identities
      BY <1>1, <2>1, DemandTyped DEF Demand
    <2>4. Verdict(s)' = "none"
      BY <2>1 DEF Verdict
    <2>5. Register!Withdraw(s)
      BY <2>2, <2>3, <2>4, WithdrawView
    <2> QED
      BY <2>5 DEF Register!Next
  <1>7. \/ Leave(s) \/ Refuse(s)
        \/ ReceiveCall(s)
        \/ LoadPointer(s) /\ current # 0
        \/ LoadManifest(s) /\ Fresh(s, pointer[s])
        \/ AnswerFromGraph(s)
    BY DEF Serve, LoadPointer, LoadManifest, StopServer
  <1> QED
    BY <1>2, <1>3, <1>4, <1>5, <1>6, <1>7, Zenon

LEMMA NextView ==
  ASSUME IInv, TypeOK', [Next]_vars
  PROVE  [Register!Next]_Register!activeVars
  <1>1. TypeOK
    BY DEF IInv
  <1>2. CASE EditRepository \/ UNCHANGED vars
    <2>1. UNCHANGED <<manifest, current, pc, want, pointer>>
      BY <1>2 DEF EditRepository, storeVars, vars
    <2>2. Active' = Active
      BY <2>1, SameActive
    <2>3. \A s \in Servers : Demand(s)' = Demand(s) /\ Verdict(s)' = Verdict(s)
      BY <2>1, SameComparison
    <2> QED
      BY <2>2, <2>3, SameView
  <1>3. ASSUME NEW p \in Procs, Start(p) PROVE [Register!Next]_Register!activeVars
    <2>1. /\ \A q \in Servers \ {p} : pc'[q] = pc[q]
          /\ pc[p] = "idle" /\ pc'[p] = "head"
          /\ UNCHANGED <<manifest, current, want, pointer>>
      BY <1>1, <1>3 DEF Start, Goto, storeVars, TypeOK, Procs
    <2> QED
      BY <1>1, <2>1, QuietView
  <1>4. ASSUME NEW p \in Procs, Observe(p) PROVE [Register!Next]_Register!activeVars
    BY <1>1, <1>4, ObserveView
  <1>5. ASSUME NEW b \in Builders, Build(b) \/ AbortBuild(b)
        PROVE  [Register!Next]_Register!activeVars
    BY <1>5, BuildView
  <1>6. ASSUME NEW s \in Servers, ReceiveCall(s) \/ Serve(s) \/ StopServer(s)
        PROVE  [Register!Next]_Register!activeVars
    BY <1>6, ServeView
  <1>8. ASSUME NEW p \in Procs, CheckFails(p)
        PROVE  [Register!Next]_Register!activeVars
    <2>1. UNCHANGED Register!activeVars \/ \E s \in Servers : Register!Withdraw(s)
      BY <1>1, <1>8, LeaveView DEF CheckFails
    <2> QED
      BY <2>1 DEF Register!Next
  <1>7. \/ EditRepository \/ UNCHANGED vars
        \/ \E p \in Procs : Start(p) \/ Observe(p) \/ CheckFails(p)
        \/ \E b \in Builders : Build(b) \/ AbortBuild(b)
        \/ \E s \in Servers : ReceiveCall(s) \/ Serve(s) \/ StopServer(s)
    BY DEF Next
  <1> QED
    BY <1>2, <1>3, <1>4, <1>5, <1>6, <1>7, <1>8, Zenon

LEMMA InitView == Init => Register!Init
  <1> SUFFICES ASSUME Init PROVE Register!Init
    OBVIOUS
  <1>1. Active = [gen |-> 0]
    BY DEF Init, Active
  <1>2. ASSUME NEW s \in Servers PROVE Demand(s) \in Identities /\ Verdict(s) = "none"
    <2>1. pc[s] = "idle"
      BY DEF Init, Procs
    <2> QED
      BY <2>1, InitTypeOK, DemandTyped, QuietVerdict
  <1> QED
    BY <1>1, <1>2 DEF Register!Init, Register!NoIndex, Identities

\* Every behaviour of builds and servers over the files is a behaviour of the
\* atomic register: a comparison that reads two files at two moments, with
\* builds in between, is decided by the index active when it read the pointer.
THEOREM FilesAreRegister == Spec => ImplementsRegister
  <1>1. IInv /\ IInv' /\ [Next]_vars => [Register!Next]_Register!activeVars
    BY NextView DEF IInv
  <1> QED
    BY <1>1, InitView, Inductive, PTL DEF Spec, ImplementsRegister, Register!Spec
=============================================================================
