-------------------------- MODULE IndexStoreProofs --------------------------
(* Theorems about IndexStore for every number of builds, servers, commits,  *)
(* contents, edits and generations.                                         *)
EXTENDS IndexStore, TLAPS

-----------------------------------------------------------------------------
(* Type correctness.                                                       *)

\* A process past the lock or past its startup has a generation, and a server
\* that is about to read a manifest has read a pointer.
HeldOK ==
  /\ \A p \in Procs : pc[p] \in Locked \cup {"ready", "call"} => gen[p] # 0
  /\ \A s \in Servers : pc[s] = "load" => pointer[s] # 0

LEMMA NullsTyped ==
  /\ NoIdentity \in Identity
  /\ NothingSeen \in Sighting
  /\ NoAnswer \in Answer
  /\ Unavailable \in Answer
  /\ {"idle", "lock", "current", "load", "ready", "call"} \subseteq Label
  /\ Observing \subseteq Label
  /\ Locked \subseteq Label
  BY StoreAssumption DEF NoIdentity, Identity, NothingSeen, Sighting, NoAnswer,
     Unavailable, Answer, Graph, Label

LEMMA InitTypeOK == Init => TypeOK
  <1> SUFFICES ASSUME Init PROVE TypeOK
    OBVIOUS
  <1>1. PICK c \in Commits : repo = [head |-> c, index |-> TreeOf[c],
                                     work |-> TreeOf[c], extra |-> FALSE]
    BY DEF Init
  <1>2. repo \in Repository
    BY <1>1, StoreAssumption DEF Repository
  <1> QED
    BY <1>2, NullsTyped, StoreAssumption DEF Init, TypeOK, Graph

LEMMA LeaveTypeOK ==
  ASSUME TypeOK, NEW p \in Procs, Leave(p)
  PROVE  TypeOK'
  BY NullsTyped, StoreAssumption DEF Leave, Goto, TypeOK

LEMMA RefuseTypeOK ==
  ASSUME TypeOK, NEW p \in Procs, Refuse(p)
  PROVE  TypeOK'
  <1>1. CASE Serving(p)
    <2>1. p \in Servers /\ AnswerUnavailable(p)
      BY <1>1 DEF Refuse, Serving
    <2>2. NothingSeen \in Sighting /\ Unavailable \in Answer /\ "ready" \in Label
      BY NullsTyped
    <2> QED
      BY <2>1, <2>2, StoreAssumption DEF AnswerUnavailable, Goto, TypeOK, storeVars
  <1>2. CASE ~Serving(p)
    BY <1>2, LeaveTypeOK DEF Refuse
  <1> QED
    BY <1>1, <1>2

LEMMA ObserveTypeOK ==
  ASSUME TypeOK, NEW p \in Procs, Observe(p)
  PROVE  TypeOK'
  <1>1. /\ repo.head \in Commits
        /\ repo.index \in Contents
        /\ repo.work \in Contents
        /\ seen[p] \in Sighting
    BY DEF TypeOK, Repository
  <1>2. Observing \subseteq Label
    BY NullsTyped
  <1>3. CASE ReadHead(p)
    <2>1. [seen[p] EXCEPT !.head = repo.head] \in Sighting
      BY <1>1 DEF Sighting
    <2> QED
      BY <1>2, <1>3, <2>1 DEF ReadHead, Goto, KeepAllButSeen, storeVars, Observing, TypeOK
  <1>4. CASE ReadIndexEntries(p)
    <2>1. [seen[p] EXCEPT !.index = repo.index] \in Sighting
      BY <1>1 DEF Sighting
    <2> QED
      BY <1>2, <1>4, <2>1
         DEF ReadIndexEntries, Goto, KeepAllButSeen, storeVars, Observing, TypeOK
  <1>5. CASE ReadHeadEntries(p)
    <2>1. [head |-> seen[p].head, index |-> None,
           dirty |-> seen[p].index # TreeOf[repo.head]] \in Sighting
      BY <1>1 DEF Sighting
    <2> QED
      BY <1>2, <1>5, <2>1
         DEF ReadHeadEntries, Goto, KeepAllButSeen, storeVars, Observing, TypeOK
  <1>6. CASE WalkWorkingTree(p)
    <2>1. CASE ObservedClean(p)
      BY <1>2, <1>6, <2>1
         DEF WalkWorkingTree, Goto, KeepAllButSeen, storeVars, Observing, TypeOK
    <2>2. CASE ~ObservedClean(p)
      BY <1>6, <2>2, RefuseTypeOK DEF WalkWorkingTree
    <2> QED
      BY <2>1, <2>2
  <1>7. CASE HashFiles(p)
    <2>1. CASE AcceptedFiles(p)
      <3>1. [head |-> seen[p].head, files |-> repo.work] \in Identity
        BY <1>1 DEF Identity, Sighting
      <3>2. (IF p \in Builders THEN "lock" ELSE "current") \in Label
        BY NullsTyped
      <3> QED
        BY <1>7, <2>1, <3>1, <3>2, NullsTyped DEF HashFiles, Goto, storeVars, TypeOK
    <2>2. CASE ~AcceptedFiles(p)
      BY <1>7, <2>2, RefuseTypeOK DEF HashFiles
    <2> QED
      BY <2>1, <2>2
  <1> QED
    BY <1>3, <1>4, <1>5, <1>6, <1>7 DEF Observe

LEMMA BuildTypeOK ==
  ASSUME TypeOK, NEW b \in Builders, Build(b)
  PROVE  TypeOK'
  <1>1. b \in Procs /\ Locked \subseteq Label
    BY NullsTyped DEF Procs
  <1> USE <1>1, StoreAssumption DEF Goto, KeepAllButStore, storeVars
  <1>2. CASE AcquireIndexLock(b)
    <2>1. CASE lock = None
      <3>1. newest + 1 \in 0..MaxGen
        BY <1>2, <2>1 DEF AcquireIndexLock, TypeOK
      <3> QED
        BY <1>2, <2>1, <3>1 DEF AcquireIndexLock, Locked, TypeOK
    <2>2. CASE lock # None
      BY <1>2, <2>2, LeaveTypeOK DEF AcquireIndexLock
    <2> QED
      BY <2>1, <2>2
  <1>3. CASE IndexRepository(b)
    <2>1. PICK result \in {repo.work, Partial} :
            graph' = [graph EXCEPT ![gen[b]] = result]
      BY <1>3 DEF IndexRepository
    <2>2. result \in Graph
      BY DEF TypeOK, Repository, Graph
    <2> QED
      BY <1>3, <2>1, <2>2 DEF IndexRepository, Locked, TypeOK
  <1>4. CASE IndexCounts(b)
    BY <1>4, LeaveTypeOK DEF IndexCounts, Locked, TypeOK
  <1>5. CASE InstallManifest(b)
    <2> DEFINE m == [generation |-> gen[b], id |-> want[b], pin |-> PinOf[b]]
    <2>1. gen[b] \in Generations => m \in Manifest
      BY DEF TypeOK, Manifest
    <2> HIDE DEF m
    <2>2. manifest' \in [Generations -> Manifest \cup {None}]
      BY <1>5, <2>1 DEF InstallManifest, TypeOK, m
    <2> QED
      BY <1>5, <2>2 DEF InstallManifest, Locked, TypeOK
  <1>6. CASE InstallPointer(b)
    BY <1>6 DEF InstallPointer, Locked, TypeOK
  <1>7. CASE FinishBuild(b)
    BY <1>7, LeaveTypeOK DEF FinishBuild
  <1> QED
    BY <1>2, <1>3, <1>4, <1>5, <1>6, <1>7 DEF Build

LEMMA ServeTypeOK ==
  ASSUME TypeOK, HeldOK, NEW s \in Servers, ReceiveCall(s) \/ Serve(s)
  PROVE  TypeOK'
  <1>1. s \in Procs
    BY DEF Procs
  <1> USE <1>1, NullsTyped, StoreAssumption DEF Goto, storeVars
  <1>2. CASE LoadPointer(s)
    BY <1>2, RefuseTypeOK DEF LoadPointer, TypeOK
  <1>3. CASE LoadManifest(s)
    <2>1. CASE Fresh(s, pointer[s])
      BY <1>3, <2>1 DEF LoadManifest, TypeOK
    <2>2. CASE ~Fresh(s, pointer[s])
      BY <1>3, <2>2, RefuseTypeOK DEF LoadManifest
    <2> QED
      BY <2>1, <2>2
  <1>4. CASE ReceiveCall(s)
    <2>1. [NoAnswer EXCEPT !.since = edits] \in Answer
      BY DEF TypeOK, NoAnswer, Answer, Graph
    <2> QED
      BY <1>4, <2>1 DEF ReceiveCall, Observing, TypeOK
  <1>5. CASE AnswerFromGraph(s)
    <2> DEFINE a == [kind |-> "usable", since |-> answer[s].since,
                     gen |-> gen[s],
                     graph |-> graph[gen[s]], files |-> want[s].files]
    <2>1. gen[s] \in Generations
      BY <1>1, <1>5 DEF AnswerFromGraph, HeldOK, TypeOK, Generations
    <2>2. a \in Answer
      BY <2>1 DEF TypeOK, Answer, Identity, Generations
    <2>3. Unavailable \in Answer /\ "ready" \in Label
      OBVIOUS
    <2> HIDE DEF a
    <2>4. answer' \in [Servers -> Answer]
      BY <1>5, <2>2, <2>3 DEF AnswerFromGraph, TypeOK, a
    <2> QED
      BY <1>5, <2>3, <2>4 DEF AnswerFromGraph, TypeOK
  <1> QED
    BY <1>2, <1>3, <1>4, <1>5 DEF Serve

LEMMA NextTypeOK == TypeOK /\ HeldOK /\ [Next]_vars => TypeOK'
  <1> SUFFICES ASSUME TypeOK, HeldOK, [Next]_vars PROVE TypeOK'
    OBVIOUS
  <1>1. CASE EditRepository
    <2>1. repo' \in Repository
      BY <1>1 DEF EditRepository, TypeOK, Repository
    <2>2. edits' \in 0..MaxEdits
      BY <1>1, StoreAssumption DEF EditRepository, EditAllowed, TypeOK
    <2> QED
      BY <1>1, <2>1, <2>2 DEF EditRepository, TypeOK, storeVars
  <1>2. ASSUME NEW p \in Procs, Start(p) PROVE TypeOK'
    BY <1>2, NullsTyped DEF Start, Goto, storeVars, Observing, TypeOK
  <1>3. ASSUME NEW p \in Procs, Observe(p) PROVE TypeOK'
    BY <1>3, ObserveTypeOK
  <1>4. ASSUME NEW b \in Builders, Build(b) PROVE TypeOK'
    BY <1>4, BuildTypeOK
  <1>5. ASSUME NEW b \in Builders, AbortBuild(b) PROVE TypeOK'
    BY <1>5, LeaveTypeOK DEF AbortBuild, Procs
  <1>6. ASSUME NEW s \in Servers, ReceiveCall(s) \/ Serve(s) PROVE TypeOK'
    BY <1>6, ServeTypeOK
  <1>7. ASSUME NEW s \in Servers, StopServer(s) PROVE TypeOK'
    BY <1>7, LeaveTypeOK DEF StopServer, Procs
  <1>8. CASE UNCHANGED vars
    BY <1>8 DEF vars, TypeOK
  <1>9. ASSUME NEW p \in Procs, CheckFails(p) PROVE TypeOK'
    BY <1>9, RefuseTypeOK DEF CheckFails
  <1> QED
    BY <1>1, <1>2, <1>3, <1>4, <1>5, <1>6, <1>7, <1>8, <1>9 DEF Next

-----------------------------------------------------------------------------
(* The inductive invariant: who holds the lock, what its generation holds,  *)
(* what the pointer names, and what each server has compared.              *)

LockOK == \A b \in Builders : pc[b] \in Locked <=> lock = b

BuildOK ==
  \A b \in Builders :
    /\ pc[b] \in Locked => gen[b] = newest
    /\ pc[b] \in Locked \ {"unlock"} => current < gen[b]
    /\ pc[b] = "unlock" => current = gen[b]
    /\ pc[b] \in {"backend", "counts", "manifest"} => manifest[gen[b]] = None
    /\ pc[b] = "counts" => graph[gen[b]] \in Contents \cup {Partial}
    /\ pc[b] \in {"manifest", "pointer"} => graph[gen[b]] \in Contents
    /\ pc[b] = "pointer" => manifest[gen[b]] # None

StoreOK ==
  /\ current <= newest
  /\ current # 0 => manifest[current] # None
  /\ \A g \in Generations :
       /\ g > newest => manifest[g] = None
       /\ manifest[g] # None => /\ manifest[g].generation = g
                                /\ graph[g] \in Contents

ServerOK ==
  \A s \in Servers :
    /\ gen[s] # 0 => Fresh(s, gen[s])
    /\ gen[s] # 0 /\ pc[s] = "files" => seen[s].head = want[s].head
    /\ pc[s] = "load" => manifest[pointer[s]] # None
    /\ answer[s].kind = "usable" => /\ pc[s] = "ready"
                                    /\ answer[s].gen = gen[s]
                                    /\ answer[s].files = want[s].files
                                    /\ answer[s].graph = graph[gen[s]]

IInv == TypeOK /\ HeldOK /\ LockOK /\ BuildOK /\ StoreOK /\ ServerOK

\* While no edit happens during a build, what a build recorded is still what
\* the working tree holds, and every manifest records what its graph holds.
ContentOK ==
  /\ \A b \in Builders :
       /\ pc[b] \in {"lock"} \cup (Locked \ {"unlock"}) => want[b].files = repo.work
       /\ pc[b] \in {"counts", "manifest", "pointer"} =>
            graph[gen[b]] \in {Partial, want[b].files}
  /\ \A g \in Generations : manifest[g] # None => graph[g] = manifest[g].id.files

\* What a server's reads have established while nothing was edited since the
\* call it works on came in.
Unedited(s) ==
  /\ answer[s].since <= edits
  /\ gen[s] # 0 /\ answer[s].since = edits =>
       /\ pc[s] \in Observing \ {"head"} => seen[s].head = repo.head
       /\ pc[s] = "tree" => seen[s].index = repo.index
       /\ pc[s] = "walk" /\ ~seen[s].dirty => repo.index = TreeOf[repo.head]
       /\ pc[s] \in {"files", "current", "load", "call"}
            \/ answer[s].kind = "usable" =>
            /\ repo.head = want[s].head
            /\ repo.index = TreeOf[repo.head]
            /\ ~repo.extra
       /\ pc[s] \in {"current", "load", "call"} \/ answer[s].kind = "usable" =>
            repo.work = want[s].files

UneditedOK == \A s \in Servers : Unedited(s)

LEMMA InitIInv == Init => IInv
  <1> SUFFICES ASSUME Init PROVE IInv
    OBVIOUS
  <1>1. TypeOK
    BY InitTypeOK
  <1>2. HeldOK /\ LockOK /\ BuildOK
    BY StoreAssumption DEF Init, HeldOK, LockOK, BuildOK, Locked, Procs
  <1>3. StoreOK
    BY StoreAssumption DEF Init, StoreOK
  <1>4. ServerOK
    BY DEF Init, ServerOK, NoAnswer, Procs
  <1> QED
    BY <1>1, <1>2, <1>3, <1>4 DEF IInv

LEMMA LeaveIInv ==
  ASSUME IInv, NEW p \in Procs, Leave(p)
  PROVE  HeldOK' /\ LockOK' /\ BuildOK' /\ StoreOK' /\ ServerOK'
  <1> USE DEF IInv, TypeOK
  <1>1. /\ pc' = [pc EXCEPT ![p] = "idle"]
        /\ gen' = [gen EXCEPT ![p] = 0]
        /\ want' = [want EXCEPT ![p] = NoIdentity]
        /\ seen' = [seen EXCEPT ![p] = NothingSeen]
        /\ lock' = IF lock = p THEN None ELSE lock
        /\ pointer' = [s \in Servers |-> IF s = p THEN 0 ELSE pointer[s]]
        /\ answer' = [s \in Servers |-> IF s = p THEN NoAnswer ELSE answer[s]]
        /\ UNCHANGED <<manifest, graph, current, newest>>
    BY DEF Leave, Goto
  <1>2. HeldOK'
    BY <1>1 DEF HeldOK, Locked, Procs
  <1>3. LockOK'
    BY <1>1, StoreAssumption DEF LockOK, Locked, Procs
  <1>4. BuildOK'
    BY <1>1 DEF BuildOK, Locked, Procs
  <1>5. StoreOK'
    BY <1>1 DEF StoreOK
  <1>6. ServerOK'
    BY <1>1 DEF ServerOK, Fresh, NoAnswer, Procs
  <1> QED
    BY <1>2, <1>3, <1>4, <1>5, <1>6

LEMMA RefuseIInv ==
  ASSUME IInv, NEW p \in Procs, Refuse(p), pc[p] \notin Locked
  PROVE  HeldOK' /\ LockOK' /\ BuildOK' /\ StoreOK' /\ ServerOK'
  <1>1. CASE ~Serving(p)
    BY <1>1, LeaveIInv DEF Refuse
  <1>2. CASE Serving(p)
    <2> USE DEF IInv, TypeOK
    <2>1. /\ p \in Servers /\ gen[p] # 0 /\ p \notin Builders
          /\ pc' = [pc EXCEPT ![p] = "ready"]
          /\ seen' = [seen EXCEPT ![p] = NothingSeen]
          /\ pointer' = [pointer EXCEPT ![p] = 0]
          /\ answer' = [answer EXCEPT ![p] = Unavailable]
          /\ UNCHANGED <<manifest, graph, current, newest, lock, want, gen>>
      BY <1>2, StoreAssumption DEF Refuse, Serving, AnswerUnavailable, Goto, storeVars
    <2>2. HeldOK'
      BY <2>1 DEF HeldOK, Locked, Procs
    <2>3. LockOK' /\ BuildOK' /\ StoreOK'
      BY <2>1, SMTT(20) DEF LockOK, BuildOK, StoreOK, Locked, Procs
    <2>4. ServerOK'
      BY <2>1, SMTT(20) DEF ServerOK, Fresh, NoAnswer, Unavailable, Procs
    <2> QED
      BY <2>2, <2>3, <2>4
  <1> QED
    BY <1>1, <1>2

\* A step of a process that stays outside the lock and changes no file.
LEMMA QuietIInv ==
  ASSUME IInv, NEW p \in Procs, NEW label \in Label,
         pc' = [pc EXCEPT ![p] = label], pc[p] \notin Locked,
         label \notin Locked \cup {"load", "ready", "call"},
         p \in Servers /\ gen[p] # 0 /\ label = "files" => seen'[p].head = want'[p].head,
         \A q \in Procs \ {p} : seen'[q] = seen[q] /\ want'[q] = want[q],
         p \in Servers /\ gen[p] # 0 => want'[p] = want[p],
         p \in Servers => answer[p].kind # "usable",
         UNCHANGED <<storeVars, gen, pointer, answer>>
  PROVE  HeldOK' /\ LockOK' /\ BuildOK' /\ StoreOK' /\ ServerOK'
  <1> USE DEF IInv, TypeOK, storeVars
  <1>1. HeldOK' /\ LockOK' /\ BuildOK'
    BY DEF HeldOK, LockOK, BuildOK, Locked, Procs
  <1>2. StoreOK'
    BY DEF StoreOK
  <1>3. ServerOK'
    <2> SUFFICES ASSUME NEW s \in Servers
                 PROVE  /\ gen'[s] # 0 => Fresh(s, gen[s])'
                        /\ gen'[s] # 0 /\ pc'[s] = "files" => seen'[s].head = want'[s].head
                        /\ pc'[s] = "load" => manifest'[pointer'[s]] # None
                        /\ answer'[s].kind = "usable" => /\ pc'[s] = "ready"
                                                         /\ answer'[s].gen = gen'[s]
                                                         /\ answer'[s].files = want'[s].files
                                                         /\ answer'[s].graph = graph'[gen'[s]]
      BY DEF ServerOK, Fresh
    <2>1. CASE s = p
      BY <2>1 DEF ServerOK, Fresh, Procs
    <2>2. CASE s # p
      BY <2>2 DEF ServerOK, Fresh, Procs
    <2> QED
      BY <2>1, <2>2
  <1> QED
    BY <1>1, <1>2, <1>3

LEMMA ObserveIInv ==
  ASSUME IInv, NEW p \in Procs, Observe(p)
  PROVE  HeldOK' /\ LockOK' /\ BuildOK' /\ StoreOK' /\ ServerOK'
  <1>1. pc[p] \in Observing
    BY DEF Observe, ReadHead, ReadIndexEntries, ReadHeadEntries, WalkWorkingTree,
           HashFiles, Observing
  <1>2. pc[p] \notin Locked /\ (p \in Servers => answer[p].kind # "usable")
    BY <1>1 DEF Observing, Locked, IInv, ServerOK
  <1>3. Observing \subseteq Label /\ Observing \cap Locked = {}
    BY DEF Label, Observing, Locked
  <1> USE <1>2, <1>3 DEF Goto, KeepAllButSeen, Observing, Locked
  <1>4. CASE ReadHead(p)
    BY <1>4, QuietIInv DEF ReadHead, IInv, TypeOK
  <1>5. CASE ReadIndexEntries(p)
    BY <1>5, QuietIInv DEF ReadIndexEntries, IInv, TypeOK
  <1>6. CASE ReadHeadEntries(p)
    BY <1>6, QuietIInv DEF ReadHeadEntries, IInv, TypeOK
  <1>7. CASE WalkWorkingTree(p)
    <2>1. CASE ObservedClean(p)
      <3>1. gen[p] # 0 /\ p \in Servers => seen[p].head = want[p].head
        BY <2>1 DEF ObservedClean, Serving
      <3> QED
        BY <1>7, <2>1, <3>1, QuietIInv DEF WalkWorkingTree, IInv, TypeOK
    <2>2. CASE ~ObservedClean(p)
      BY <1>7, <2>2, RefuseIInv DEF WalkWorkingTree
    <2> QED
      BY <2>1, <2>2
  <1>8. CASE HashFiles(p)
    <2>1. CASE AcceptedFiles(p)
      <3>1. gen[p] # 0 /\ p \in Servers => want'[p] = want[p]
        BY <1>8, <2>1 DEF HashFiles, AcceptedFiles, Serving, IInv, TypeOK, ServerOK, Identity
      <3> QED
        BY <1>8, <2>1, <3>1, QuietIInv DEF HashFiles, IInv, TypeOK, Label
    <2>2. CASE ~AcceptedFiles(p)
      BY <1>8, <2>2, RefuseIInv DEF HashFiles
    <2> QED
      BY <2>1, <2>2
  <1> QED
    BY <1>4, <1>5, <1>6, <1>7, <1>8 DEF Observe

LEMMA LoadedManifest ==
  ASSUME IInv, NEW s \in Servers, gen[s] # 0
  PROVE  gen[s] \in Generations /\ manifest[gen[s]] \in Manifest
  <1>1. gen[s] \in Generations /\ want[s] \in Identity /\ PinOf[s] \in Pins
    BY StoreAssumption DEF IInv, TypeOK, Procs, Generations
  <1>2. manifest[gen[s]] = [generation |-> gen[s], id |-> want[s], pin |-> PinOf[s]]
    BY DEF IInv, ServerOK, Fresh
  <1> QED
    BY <1>1, <1>2 DEF Manifest

LEMMA BuildIInv ==
  ASSUME IInv, NEW b \in Builders, Build(b)
  PROVE  HeldOK' /\ LockOK' /\ BuildOK' /\ StoreOK' /\ ServerOK'
  <1>1. b \in Procs /\ b \notin Servers /\ b # None
    BY StoreAssumption DEF Procs
  <1>2. pc[b] \in Locked => gen[b] \in Generations /\ lock = b
    BY <1>1 DEF IInv, HeldOK, LockOK, TypeOK, Generations
  <1> USE <1>1 DEF IInv, TypeOK, Goto, KeepAllButStore, storeVars
  <1>3. CASE AcquireIndexLock(b)
    <2>1. CASE lock = None
      <3>1. /\ pc[b] = "lock"
            /\ pc' = [pc EXCEPT ![b] = "backend"]
            /\ lock' = b
            /\ newest' = newest + 1 /\ newest < MaxGen
            /\ gen' = [gen EXCEPT ![b] = newest + 1]
            /\ UNCHANGED <<manifest, graph, current, seen, want, pointer, answer>>
        BY <1>3, <2>1 DEF AcquireIndexLock
      <3>2. newest + 1 \in Generations
        BY <3>1, StoreAssumption DEF Generations
      <3>3. HeldOK' /\ LockOK'
        BY <2>1, <3>1, StoreAssumption DEF HeldOK, LockOK, Locked, Procs
      <3>4. BuildOK' /\ StoreOK'
        BY <2>1, <3>1, <3>2, StoreAssumption
           DEF LockOK, BuildOK, StoreOK, Locked, Procs, Generations
      <3>5. ServerOK'
        BY <3>1 DEF ServerOK, Fresh
      <3> QED
        BY <3>3, <3>4, <3>5
    <2>2. CASE lock # None
      BY <1>3, <2>2, LeaveIInv DEF AcquireIndexLock
    <2> QED
      BY <2>1, <2>2
  <1>4. CASE IndexRepository(b)
    <2>1. PICK result \in {repo.work, Partial} :
            graph' = [graph EXCEPT ![gen[b]] = result]
      BY <1>4 DEF IndexRepository
    <2>2. /\ pc[b] = "backend"
          /\ pc' = [pc EXCEPT ![b] = "counts"]
          /\ UNCHANGED <<manifest, current, newest, lock, gen, seen, want, pointer, answer>>
      BY <1>4 DEF IndexRepository
    <2>3. manifest[gen[b]] = None /\ gen[b] \in Generations
      BY <1>2, <2>2 DEF BuildOK, Locked
    <2>4. HeldOK' /\ LockOK'
      BY <2>2 DEF HeldOK, LockOK, Locked, Procs
    <2>5. BuildOK'
      BY <1>2, <2>1, <2>2 DEF LockOK, BuildOK, Locked, Repository
    <2>6. StoreOK'
      BY <2>1, <2>2, <2>3 DEF StoreOK
    <2>7. ServerOK'
      <3> SUFFICES ASSUME NEW s \in Servers, answer[s].kind = "usable"
                   PROVE  answer[s].graph = graph'[gen[s]]
        BY <2>2 DEF ServerOK, Fresh, Procs
      <3>1. gen[s] # 0 /\ manifest[gen[s]] # None
        BY LoadedManifest, StoreAssumption DEF ServerOK, HeldOK, Procs
      <3> QED
        BY <2>1, <2>3, <3>1 DEF ServerOK, Procs, Generations
    <2> QED
      BY <2>4, <2>5, <2>6, <2>7
  <1>5. CASE IndexCounts(b)
    <2>1. CASE graph[gen[b]] # Partial
      <3>1. /\ pc[b] = "counts"
            /\ pc' = [pc EXCEPT ![b] = "manifest"]
            /\ UNCHANGED <<manifest, graph, current, newest, lock, gen, seen, want, pointer, answer>>
        BY <1>5, <2>1 DEF IndexCounts
      <3>2. HeldOK' /\ LockOK' /\ StoreOK' /\ ServerOK'
        BY <3>1 DEF HeldOK, LockOK, StoreOK, ServerOK, Fresh, Locked, Procs
      <3>3. BuildOK'
        BY <1>2, <2>1, <3>1 DEF BuildOK, Locked, Graph
      <3> QED
        BY <3>2, <3>3
    <2>2. CASE graph[gen[b]] = Partial
      BY <1>5, <2>2, LeaveIInv DEF IndexCounts
    <2> QED
      BY <2>1, <2>2
  <1>6. CASE InstallManifest(b)
    <2> DEFINE m == [generation |-> gen[b], id |-> want[b], pin |-> PinOf[b]]
    <2>1. /\ pc[b] = "manifest"
          /\ pc' = [pc EXCEPT ![b] = "pointer"]
          /\ manifest' = [manifest EXCEPT ![gen[b]] = m]
          /\ UNCHANGED <<graph, current, newest, lock, gen, seen, want, pointer, answer>>
      BY <1>6 DEF InstallManifest
    <2>2. /\ gen[b] \in Generations
          /\ manifest[gen[b]] = None
          /\ graph[gen[b]] \in Contents
          /\ m.generation = gen[b]
      BY <1>2, <2>1 DEF BuildOK, Locked
    <2>3. m \in Manifest /\ m # None
      BY <2>2, StoreAssumption DEF Manifest
    <2> HIDE DEF m
    <2>4. HeldOK' /\ LockOK'
      BY <2>1 DEF HeldOK, LockOK, Locked, Procs
    <2>5. BuildOK'
      BY <1>2, <2>1, <2>2, <2>3 DEF LockOK, BuildOK, Locked
    <2>6. gen[b] = newest
      BY <2>1 DEF BuildOK, Locked
    <2>7. StoreOK'
      BY <2>1, <2>2, <2>3, <2>6 DEF StoreOK, Generations
    <2>8. ServerOK'
      <3>1. \A s \in Servers : /\ gen[s] # 0 => gen[s] # gen[b]
                               /\ pc[s] = "load" => pointer[s] \in Generations
        <4> SUFFICES ASSUME NEW s \in Servers
                     PROVE  /\ gen[s] # 0 => gen[s] # gen[b]
                            /\ pc[s] = "load" => pointer[s] \in Generations
          OBVIOUS
        <4>1. gen[s] # 0 => manifest[gen[s]] # None
          BY LoadedManifest, StoreAssumption
        <4> QED
          BY <2>2, <4>1 DEF HeldOK, Generations
      <3> QED
        BY <2>1, <2>2, <2>3, <3>1 DEF ServerOK, Fresh, Procs
    <2> QED
      BY <2>4, <2>5, <2>7, <2>8
  <1>7. CASE InstallPointer(b)
    <2>1. /\ pc[b] = "pointer"
          /\ pc' = [pc EXCEPT ![b] = "unlock"]
          /\ current' = gen[b]
          /\ UNCHANGED <<manifest, graph, newest, lock, gen, seen, want, pointer, answer>>
      BY <1>7 DEF InstallPointer
    <2>2. HeldOK' /\ LockOK'
      BY <2>1 DEF HeldOK, LockOK, Locked, Procs
    <2>3. BuildOK'
      BY <1>2, <2>1 DEF LockOK, BuildOK, Locked
    <2>4. StoreOK'
      BY <1>2, <2>1 DEF BuildOK, StoreOK, Locked
    <2>5. ServerOK'
      BY <2>1 DEF ServerOK, Fresh, Procs
    <2> QED
      BY <2>2, <2>3, <2>4, <2>5
  <1>8. CASE FinishBuild(b)
    BY <1>8, LeaveIInv DEF FinishBuild
  <1> QED
    BY <1>3, <1>4, <1>5, <1>6, <1>7, <1>8 DEF Build

LEMMA ServeIInv ==
  ASSUME IInv, NEW s \in Servers, ReceiveCall(s) \/ Serve(s)
  PROVE  HeldOK' /\ LockOK' /\ BuildOK' /\ StoreOK' /\ ServerOK'
  <1>1. s \in Procs /\ s \notin Builders
    BY StoreAssumption DEF Procs
  <1> USE <1>1 DEF IInv, TypeOK, Goto, storeVars
  <1>2. CASE LoadPointer(s)
    <2>1. CASE current # 0
      <3>1. /\ pc[s] = "current"
            /\ pc' = [pc EXCEPT ![s] = "load"]
            /\ pointer' = [pointer EXCEPT ![s] = current]
            /\ UNCHANGED <<manifest, graph, current, newest, lock, gen, seen, want, answer>>
        BY <1>2, <2>1 DEF LoadPointer
      <3>2. HeldOK' /\ LockOK' /\ BuildOK' /\ StoreOK'
        BY <2>1, <3>1 DEF HeldOK, LockOK, BuildOK, StoreOK, Locked, Procs
      <3>3. ServerOK'
        BY <2>1, <3>1, SMTT(20) DEF ServerOK, StoreOK, Fresh, Procs
      <3> QED
        BY <3>2, <3>3
    <2>2. CASE current = 0
      BY <1>2, <2>2, RefuseIInv DEF LoadPointer, Locked
    <2> QED
      BY <2>1, <2>2
  <1>3. CASE LoadManifest(s)
    <2>1. CASE Fresh(s, pointer[s])
      <3>1. /\ pc[s] = "load"
            /\ pointer[s] # 0
            /\ UNCHANGED <<manifest, graph, current, newest, lock, seen, want, pointer, answer>>
            /\ \/ /\ gen[s] # 0
                  /\ pc' = [pc EXCEPT ![s] = "call"] /\ gen' = gen
               \/ /\ pc' = [pc EXCEPT ![s] = "ready"]
                  /\ gen' = [gen EXCEPT ![s] = pointer[s]]
        BY <1>3, <2>1 DEF LoadManifest, HeldOK, Serving
      <3>2. HeldOK' /\ LockOK' /\ BuildOK' /\ StoreOK'
        BY <3>1 DEF HeldOK, LockOK, BuildOK, StoreOK, Locked, Procs
      <3>3. ServerOK'
        <4>1. \A q \in Servers \ {s} : /\ pc'[q] = pc[q] /\ gen'[q] = gen[q]
                                       /\ answer'[q] = answer[q]
          BY <3>1 DEF Procs
        <4>2. gen'[s] # 0 => /\ gen'[s] = gen[s] \/ gen'[s] = pointer[s]
                            /\ manifest[gen'[s]] = [generation |-> gen'[s],
                                                    id |-> want[s], pin |-> PinOf[s]]
          <5>1. gen'[s] = gen[s] \/ gen'[s] = pointer[s]
            BY <3>1
          <5>2. gen[s] # 0 => Fresh(s, gen[s])
            BY DEF ServerOK
          <5> QED
            BY <2>1, <5>1, <5>2 DEF Fresh
        <4>3. answer[s].kind # "usable"
          BY <3>1 DEF ServerOK
        <4> QED
          BY <3>1, <4>1, <4>2, <4>3 DEF ServerOK, Fresh
      <3> QED
        BY <3>2, <3>3
    <2>2. CASE ~Fresh(s, pointer[s])
      BY <1>3, <2>2, RefuseIInv DEF LoadManifest, Locked
    <2> QED
      BY <2>1, <2>2
  <1>4. CASE ReceiveCall(s)
    <2>1. /\ pc[s] = "ready"
          /\ pc' = [pc EXCEPT ![s] = "head"]
          /\ answer' = [answer EXCEPT ![s] = [NoAnswer EXCEPT !.since = edits]]
          /\ pointer' = [pointer EXCEPT ![s] = 0]
          /\ UNCHANGED <<manifest, graph, current, newest, lock, gen, seen, want>>
      BY <1>4 DEF ReceiveCall
    <2>2. HeldOK' /\ LockOK' /\ BuildOK' /\ StoreOK'
      BY <2>1 DEF HeldOK, LockOK, BuildOK, StoreOK, Locked, Procs
    <2>3. ServerOK'
      BY <2>1 DEF ServerOK, Fresh, NoAnswer, Procs
    <2> QED
      BY <2>2, <2>3
  <1>5. CASE AnswerFromGraph(s)
    <2>1. /\ pc[s] = "call"
          /\ pc' = [pc EXCEPT ![s] = "ready"]
          /\ pointer' = [pointer EXCEPT ![s] = 0]
          /\ UNCHANGED <<manifest, graph, current, newest, lock, gen, seen, want>>
          /\ \/ answer' = [answer EXCEPT ![s] =
                             [kind |-> "usable", since |-> answer[s].since,
                              gen |-> gen[s],
                              graph |-> graph[gen[s]], files |-> want[s].files]]
             \/ answer' = [answer EXCEPT ![s] = Unavailable]
      BY <1>5 DEF AnswerFromGraph
    <2>2. HeldOK' /\ LockOK' /\ BuildOK' /\ StoreOK'
      BY <2>1 DEF HeldOK, LockOK, BuildOK, StoreOK, Locked, Procs
    <2>3. ServerOK'
      <3>1. \A q \in Servers \ {s} : pc'[q] = pc[q] /\ answer'[q] = answer[q]
        BY <2>1
      <3>2. answer'[s].kind = "usable" => /\ answer'[s].gen = gen[s]
                                          /\ answer'[s].files = want[s].files
                                          /\ answer'[s].graph = graph[gen[s]]
        BY <2>1 DEF Unavailable, NoAnswer
      <3> QED
        <4> SUFFICES ASSUME NEW q \in Servers
                     PROVE  /\ gen[q] # 0 => Fresh(q, gen[q])
                            /\ pc'[q] \notin {"files", "load"} \/ q # s
                            /\ answer'[q].kind = "usable" =>
                                 /\ pc'[q] = "ready"
                                 /\ answer'[q].gen = gen[q]
                                 /\ answer'[q].files = want[q].files
                                 /\ answer'[q].graph = graph[gen[q]]
          BY <2>1, <3>1 DEF ServerOK, Fresh
        <4> QED
          BY <2>1, <3>1, <3>2 DEF ServerOK
    <2> QED
      BY <2>2, <2>3
  <1> QED
    BY <1>2, <1>3, <1>4, <1>5 DEF Serve

LEMMA UnchangedIInv ==
  ASSUME IInv, UNCHANGED <<manifest, graph, current, newest, lock>>,
         UNCHANGED <<pc, seen, want, gen, pointer, answer>>
  PROVE  HeldOK' /\ LockOK' /\ BuildOK' /\ StoreOK' /\ ServerOK'
  <1>1. HeldOK'
    BY DEF IInv, HeldOK
  <1>2. LockOK' /\ BuildOK' /\ StoreOK'
    BY DEF IInv, LockOK, BuildOK, StoreOK
  <1>3. ServerOK'
    BY DEF IInv, ServerOK, Fresh
  <1> QED
    BY <1>1, <1>2, <1>3

LEMMA NextIInv == IInv /\ [Next]_vars => IInv'
  <1> SUFFICES ASSUME IInv, [Next]_vars PROVE IInv'
    OBVIOUS
  <1> DEFINE Rest == HeldOK /\ LockOK /\ BuildOK /\ StoreOK /\ ServerOK
  <1>1. TypeOK'
    BY NextTypeOK DEF IInv
  <1>2. CASE EditRepository
    <2>1. /\ UNCHANGED <<manifest, graph, current, newest, lock>>
          /\ UNCHANGED <<pc, seen, want, gen, pointer, answer>>
      BY <1>2 DEF EditRepository, storeVars
    <2> QED
      BY <1>1, <2>1, UnchangedIInv DEF IInv
  <1>3. ASSUME NEW p \in Procs, Start(p) PROVE Rest'
    <2>1. /\ pc[p] = "idle"
          /\ pc' = [pc EXCEPT ![p] = "head"]
          /\ UNCHANGED <<storeVars, seen, want, gen, pointer, answer>>
      BY <1>3 DEF Start, Goto
    <2>2. "head" \in Label /\ pc[p] \notin Locked
      BY <2>1 DEF Label, Observing, Locked
    <2>3. p \in Servers => answer[p].kind # "usable"
      BY <2>1 DEF IInv, ServerOK
    <2> QED
      BY <2>1, <2>2, <2>3, QuietIInv DEF Locked
  <1>4. ASSUME NEW p \in Procs, Observe(p) PROVE Rest'
    BY <1>4, ObserveIInv
  <1>5. ASSUME NEW b \in Builders, Build(b) PROVE Rest'
    BY <1>5, BuildIInv
  <1>6. ASSUME NEW b \in Builders, AbortBuild(b) PROVE Rest'
    BY <1>6, LeaveIInv DEF AbortBuild, Procs
  <1>7. ASSUME NEW s \in Servers, ReceiveCall(s) \/ Serve(s) PROVE Rest'
    BY <1>7, ServeIInv
  <1>8. ASSUME NEW s \in Servers, StopServer(s) PROVE Rest'
    BY <1>8, LeaveIInv DEF StopServer, Procs
  <1>9. CASE UNCHANGED vars
    <2>1. /\ UNCHANGED <<manifest, graph, current, newest, lock>>
          /\ UNCHANGED <<pc, seen, want, gen, pointer, answer>>
      BY <1>9 DEF vars
    <2> QED
      BY <1>1, <2>1, UnchangedIInv DEF IInv
  <1>10. ASSUME NEW p \in Procs, CheckFails(p) PROVE Rest'
    BY <1>10, RefuseIInv DEF CheckFails, Observing, Locked
  <1> QED
    BY <1>1, <1>2, <1>3, <1>4, <1>5, <1>6, <1>7, <1>8, <1>9, <1>10 DEF Next, IInv

-----------------------------------------------------------------------------
(* The content a build recorded, while nobody edits during builds.         *)

LEMMA InitContentOK == Init => ContentOK
  BY DEF Init, ContentOK, Locked, Procs

\* A step that writes no file and takes no build forward.
LEMMA NextContentOK ==
  ASSUME EditsDuringBuild = FALSE, IInv, ContentOK, [Next]_vars
  PROVE  ContentOK'
  <1> USE DEF IInv, TypeOK
  <1> DEFINE Past == {"lock"} \cup Locked
  <1>1. ASSUME NEW p \in Procs, Leave(p) PROVE ContentOK'
    <2>1. /\ pc' = [pc EXCEPT ![p] = "idle"]
          /\ gen' = [gen EXCEPT ![p] = 0]
          /\ want' = [want EXCEPT ![p] = NoIdentity]
          /\ UNCHANGED <<repo, manifest, graph>>
      BY <1>1 DEF Leave, Goto
    <2>2. \A b \in Builders : pc'[b] = pc[b] \/ pc'[b] \notin Past
      BY <2>1 DEF Procs, Locked
    <2>3. \A b \in Builders : pc'[b] = pc[b] /\ pc'[b] \in Past =>
                                want'[b] = want[b] /\ gen'[b] = gen[b]
      BY <2>1 DEF Procs, Locked
    <2> QED
      BY <2>1, <2>2, <2>3 DEF ContentOK, Locked
  <1>2. CASE EditRepository
    <2>1. \A b \in Builders : pc[b] = "idle"
      BY <1>2 DEF EditRepository, EditAllowed
    <2> QED
      BY <1>2, <2>1 DEF EditRepository, storeVars, ContentOK, Locked
  <1>3. ASSUME NEW p \in Procs, Start(p) PROVE ContentOK'
    BY <1>3 DEF Start, Goto, storeVars, ContentOK, Locked, Procs
  <1>4. ASSUME NEW p \in Procs, Refuse(p) PROVE ContentOK'
    <2>1. CASE Serving(p)
      <3>1. p \in Servers /\ AnswerUnavailable(p)
        BY <1>4, <2>1 DEF Refuse, Serving
      <3> QED
        BY <3>1, StoreAssumption
           DEF AnswerUnavailable, Goto, storeVars, ContentOK, Locked, Procs
    <2>2. CASE ~Serving(p)
      BY <1>1, <1>4, <2>2 DEF Refuse
    <2> QED
      BY <2>1, <2>2
  <1>5. ASSUME NEW p \in Procs, Observe(p) PROVE ContentOK'
    <2> USE DEF Goto, KeepAllButSeen, storeVars
    <2>1. CASE ReadHead(p) \/ ReadIndexEntries(p) \/ ReadHeadEntries(p)
      BY <2>1 DEF ReadHead, ReadIndexEntries, ReadHeadEntries, ContentOK, Locked, Procs
    <2>2. CASE WalkWorkingTree(p)
      <3>1. CASE ObservedClean(p)
        BY <2>2, <3>1 DEF WalkWorkingTree, ContentOK, Locked, Procs
      <3>2. CASE ~ObservedClean(p)
        BY <1>4, <2>2, <3>2 DEF WalkWorkingTree
      <3> QED
        BY <3>1, <3>2
    <2>3. CASE HashFiles(p)
      <3>1. CASE AcceptedFiles(p)
        <4>1. /\ want' = [want EXCEPT ![p] = [head |-> seen[p].head, files |-> repo.work]]
              /\ \/ pc' = [pc EXCEPT ![p] = "lock"]
                 \/ pc' = [pc EXCEPT ![p] = "current"]
              /\ UNCHANGED <<repo, manifest, graph, gen>>
          BY <2>3, <3>1 DEF HashFiles
        <4>2. \A b \in Builders : pc'[b] \in Past =>
                \/ b # p /\ pc'[b] = pc[b] /\ want'[b] = want[b]
                \/ b = p /\ pc'[b] = "lock" /\ want'[b].files = repo.work
          BY <4>1 DEF Procs, Locked
        <4> QED
          BY <4>1, <4>2 DEF ContentOK, Locked
      <3>2. CASE ~AcceptedFiles(p)
        BY <1>4, <2>3, <3>2 DEF HashFiles
      <3> QED
        BY <3>1, <3>2
    <2> QED
      BY <1>5, <2>1, <2>2, <2>3 DEF Observe
  <1>6. ASSUME NEW b \in Builders, Build(b) PROVE ContentOK'
    <2>1. b \in Procs
      BY DEF Procs
    <2>2. pc[b] \in Locked => /\ gen[b] \in Generations
                              /\ \A q \in Builders \ {b} : pc[q] \notin Locked
      BY <2>1, StoreAssumption DEF HeldOK, LockOK, Generations, Procs
    <2> USE <2>1 DEF Goto, KeepAllButStore, storeVars
    <2>3. CASE AcquireIndexLock(b)
      <3>1. CASE lock = None
        <4>1. /\ pc[b] = "lock"
              /\ pc' = [pc EXCEPT ![b] = "backend"]
              /\ gen' = [gen EXCEPT ![b] = newest + 1]
              /\ UNCHANGED <<repo, manifest, graph, want>>
          BY <2>3, <3>1 DEF AcquireIndexLock
        <4>2. \A q \in Builders : pc[q] \notin Locked
          BY <3>1, StoreAssumption DEF LockOK, Procs
        <4>3. \A q \in Builders : /\ pc'[q] \in {"lock"} \cup Locked => pc[q] = "lock"
                                  /\ pc'[q] \notin {"counts", "manifest", "pointer"}
          BY <4>1, <4>2 DEF Locked, Procs
        <4> QED
          <5>1. \A q \in Builders :
                  pc'[q] \in {"lock"} \cup (Locked \ {"unlock"}) => want'[q].files = repo'.work
            BY <4>1, <4>3 DEF ContentOK
          <5>2. \A g \in Generations :
                  manifest'[g] # None => graph'[g] = manifest'[g].id.files
            BY <4>1 DEF ContentOK
          <5>3. \A q \in Builders : pc'[q] \in {"counts", "manifest", "pointer"} =>
                                    graph'[gen'[q]] \in {Partial, want'[q].files}
            BY <4>3
          <5> QED
            BY <5>1, <5>2, <5>3, Zenon DEF ContentOK
      <3>2. CASE lock # None
        BY <1>1, <2>3, <3>2 DEF AcquireIndexLock
      <3> QED
        BY <3>1, <3>2
    <2>4. CASE IndexRepository(b)
      <3>1. PICK result \in {repo.work, Partial} :
              graph' = [graph EXCEPT ![gen[b]] = result]
        BY <2>4 DEF IndexRepository
      <3>2. /\ pc[b] = "backend"
            /\ pc' = [pc EXCEPT ![b] = "counts"]
            /\ UNCHANGED <<repo, manifest, gen, want>>
        BY <2>4 DEF IndexRepository
      <3>3. /\ manifest[gen[b]] = None
            /\ want[b].files = repo.work
        BY <3>2 DEF BuildOK, ContentOK, Locked
      <3> QED
        BY <2>2, <3>1, <3>2, <3>3 DEF ContentOK, Locked
    <2>5. CASE IndexCounts(b)
      <3>1. CASE graph[gen[b]] # Partial
        <4>1. /\ pc[b] = "counts"
              /\ pc' = [pc EXCEPT ![b] = "manifest"]
              /\ UNCHANGED <<repo, manifest, graph, gen, want>>
          BY <2>5, <3>1 DEF IndexCounts
        <4>2. \A q \in Builders :
                /\ pc'[q] \in {"lock"} \cup (Locked \ {"unlock"}) =>
                     pc[q] \in {"lock"} \cup (Locked \ {"unlock"})
                /\ pc'[q] \in {"counts", "manifest", "pointer"} =>
                     pc[q] \in {"counts", "manifest", "pointer"}
          BY <4>1 DEF Locked, Procs
        <4> QED
          BY <4>1, <4>2 DEF ContentOK
      <3>2. CASE graph[gen[b]] = Partial
        BY <1>1, <2>5, <3>2 DEF IndexCounts
      <3> QED
        BY <3>1, <3>2
    <2>6. CASE InstallManifest(b)
      <3> DEFINE m == [generation |-> gen[b], id |-> want[b], pin |-> PinOf[b]]
      <3>1. /\ pc[b] = "manifest"
            /\ pc' = [pc EXCEPT ![b] = "pointer"]
            /\ manifest' = [manifest EXCEPT ![gen[b]] = m]
            /\ m.id = want[b]
            /\ UNCHANGED <<repo, graph, gen, want>>
        BY <2>6 DEF InstallManifest
      <3>2. graph[gen[b]] = want[b].files
        BY <3>1, StoreAssumption DEF BuildOK, ContentOK
      <3> HIDE DEF m
      <3> QED
        BY <2>2, <3>1, <3>2 DEF ContentOK, Locked
    <2>7. CASE InstallPointer(b)
      BY <2>7 DEF InstallPointer, ContentOK, Locked
    <2>8. CASE FinishBuild(b)
      BY <1>1, <2>8 DEF FinishBuild
    <2> QED
      BY <1>6, <2>3, <2>4, <2>5, <2>6, <2>7, <2>8 DEF Build
  <1>7. ASSUME NEW s \in Servers, ReceiveCall(s) \/ Serve(s) PROVE ContentOK'
    <2>1. s \in Procs /\ s \notin Builders
      BY StoreAssumption DEF Procs
    <2>2. CASE UNCHANGED <<repo, manifest, graph, want>> /\ \A b \in Builders :
                 pc'[b] = pc[b] /\ gen'[b] = gen[b]
      BY <2>2 DEF ContentOK, Locked
    <2>3. CASE Refuse(s)
      BY <1>4, <2>1, <2>3
    <2>4. Refuse(s) \/ (UNCHANGED <<repo, manifest, graph, want>> /\ \A b \in Builders :
                          pc'[b] = pc[b] /\ gen'[b] = gen[b])
      BY <1>7, <2>1 DEF Serve, LoadPointer, LoadManifest, ReceiveCall, AnswerFromGraph,
                        Goto, storeVars, Procs
    <2> QED
      BY <2>2, <2>3, <2>4
  <1>8. CASE UNCHANGED vars
    BY <1>8 DEF vars, ContentOK
  <1>9. ASSUME NEW p \in Procs, CheckFails(p) PROVE ContentOK'
    BY <1>4, <1>9 DEF CheckFails
  <1> QED
    BY <1>1, <1>2, <1>3, <1>5, <1>6, <1>7, <1>8, <1>9
       DEF Next, AbortBuild, StopServer, Procs

-----------------------------------------------------------------------------
(* What a usable answer says of the working tree.                          *)

\* A step that concerns no server's own state keeps what the server knows, and
\* an edit makes the call it works on older than the last edit.
LEMMA OthersUnedited ==
  ASSUME TypeOK, NEW s \in Servers, Unedited(s),
         pc'[s] = pc[s], seen'[s] = seen[s], want'[s] = want[s], gen'[s] = gen[s],
         answer'[s] = answer[s],
         UNCHANGED <<repo, edits>> \/ edits' = edits + 1
  PROVE  Unedited(s)'
  <1>1. answer[s].since \in Nat /\ edits \in Nat
    BY StoreAssumption DEF TypeOK, Answer
  <1>2. CASE UNCHANGED <<repo, edits>>
    BY <1>2 DEF Unedited
  <1>3. CASE edits' = edits + 1
    BY <1>1, <1>3 DEF Unedited
  <1> QED
    BY <1>2, <1>3

LEMMA LeaveUnedited ==
  ASSUME TypeOK, NEW s \in Servers, Leave(s)
  PROVE  Unedited(s)'
  <1>1. /\ gen'[s] = 0
        /\ answer'[s] = NoAnswer
        /\ edits' = edits
    BY DEF Leave, TypeOK, Procs
  <1> QED
    BY <1>1, StoreAssumption DEF Unedited, NoAnswer, TypeOK

LEMMA RefuseUnedited ==
  ASSUME TypeOK, NEW s \in Servers, Refuse(s)
  PROVE  Unedited(s)'
  <1>1. CASE Serving(s)
    <2>1. /\ pc'[s] = "ready"
          /\ answer'[s] = Unavailable
          /\ edits' = edits
      BY <1>1 DEF Refuse, AnswerUnavailable, Goto, TypeOK, Procs
    <2>2. Unavailable.since = 0 /\ Unavailable.kind = "unavailable"
      BY DEF Unavailable, NoAnswer
    <2> QED
      BY <2>1, <2>2, StoreAssumption DEF Unedited, TypeOK, Observing
  <1>2. CASE ~Serving(s)
    BY <1>2, LeaveUnedited DEF Refuse
  <1> QED
    BY <1>1, <1>2

LEMMA ObserveUnedited ==
  ASSUME IInv, NEW s \in Servers, Unedited(s), Observe(s)
  PROVE  Unedited(s)'
  <1> USE DEF IInv, TypeOK
  <1>1. s \in Procs /\ s \notin Builders
    BY StoreAssumption DEF Procs
  <1>2. answer[s].kind # "usable"
    BY DEF ServerOK, Observe, ReadHead, ReadIndexEntries, ReadHeadEntries,
           WalkWorkingTree, HashFiles, Observing
  <1> USE <1>1 DEF Goto, KeepAllButSeen, storeVars, Observing
  <1>3. CASE ReadHead(s)
    <2>1. /\ pc'[s] = "index" /\ seen'[s].head = repo.head
          /\ UNCHANGED <<repo, edits, want, gen, answer>>
      BY <1>3 DEF ReadHead, Sighting
    <2> QED
      BY <1>2, <2>1 DEF Unedited
  <1>4. CASE ReadIndexEntries(s)
    <2>1. /\ pc[s] = "index" /\ pc'[s] = "tree"
          /\ seen'[s].head = seen[s].head /\ seen'[s].index = repo.index
          /\ UNCHANGED <<repo, edits, want, gen, answer>>
      BY <1>4 DEF ReadIndexEntries, Sighting
    <2> QED
      BY <1>2, <2>1 DEF Unedited
  <1>5. CASE ReadHeadEntries(s)
    <2>1. /\ pc[s] = "tree" /\ pc'[s] = "walk"
          /\ seen'[s].head = seen[s].head
          /\ seen'[s].dirty = (seen[s].index # TreeOf[repo.head])
          /\ UNCHANGED <<repo, edits, want, gen, answer>>
      BY <1>5 DEF ReadHeadEntries
    <2> QED
      BY <1>2, <2>1 DEF Unedited
  <1>6. CASE WalkWorkingTree(s)
    <2>1. CASE ObservedClean(s)
      <3>1. /\ pc[s] = "walk" /\ pc'[s] = "files"
            /\ ~seen[s].dirty /\ ~repo.extra
            /\ gen[s] # 0 => seen[s].head = want[s].head
            /\ UNCHANGED <<repo, edits, seen, want, gen, answer>>
        BY <1>6, <2>1 DEF WalkWorkingTree, ObservedClean, Serving
      <3> QED
        BY <1>2, <3>1 DEF Unedited
    <2>2. CASE ~ObservedClean(s)
      BY <1>6, <2>2, RefuseUnedited DEF WalkWorkingTree
    <2> QED
      BY <2>1, <2>2
  <1>7. CASE HashFiles(s)
    <2>1. CASE AcceptedFiles(s)
      <3>1. /\ pc[s] = "files" /\ pc'[s] = "current"
            /\ want'[s].head = seen[s].head /\ want'[s].files = repo.work
            /\ UNCHANGED <<repo, edits, gen, answer>>
        BY <1>7, <2>1 DEF HashFiles
      <3>2. gen[s] # 0 => seen[s].head = want[s].head
        BY <3>1 DEF ServerOK
      <3> QED
        BY <1>2, <3>1, <3>2 DEF Unedited
    <2>2. CASE ~AcceptedFiles(s)
      BY <1>7, <2>2, RefuseUnedited DEF HashFiles
    <2> QED
      BY <2>1, <2>2
  <1> QED
    BY <1>3, <1>4, <1>5, <1>6, <1>7 DEF Observe

LEMMA ServeUnedited ==
  ASSUME IInv, NEW s \in Servers, Unedited(s), ReceiveCall(s) \/ Serve(s)
  PROVE  Unedited(s)'
  <1> USE DEF IInv, TypeOK
  <1>1. s \in Procs /\ s \notin Builders
    BY StoreAssumption DEF Procs
  <1>2. edits \in Nat /\ NoAnswer.since = 0 /\ NoAnswer.kind = "none"
    BY StoreAssumption DEF NoAnswer
  <1> USE <1>1, <1>2 DEF Goto, storeVars, Observing
  <1>3. CASE ReceiveCall(s)
    <2>1. /\ pc'[s] = "head"
          /\ answer'[s].since = edits /\ answer'[s].kind = "none"
          /\ UNCHANGED edits
      BY <1>3 DEF ReceiveCall, NoAnswer
    <2> QED
      BY <2>1 DEF Unedited
  <1>4. CASE LoadPointer(s)
    <2>1. CASE current # 0
      <3>1. /\ pc[s] = "current" /\ pc'[s] = "load"
            /\ answer[s].kind # "usable"
            /\ UNCHANGED <<repo, edits, seen, want, gen, answer>>
        BY <1>4, <2>1 DEF LoadPointer, ServerOK
      <3> QED
        BY <3>1 DEF Unedited
    <2>2. CASE current = 0
      BY <1>4, <2>2, RefuseUnedited DEF LoadPointer
    <2> QED
      BY <2>1, <2>2
  <1>5. CASE LoadManifest(s)
    <2>1. CASE Fresh(s, pointer[s]) /\ gen[s] # 0
      <3>1. /\ pc[s] = "load" /\ pc'[s] = "call"
            /\ answer[s].kind # "usable"
            /\ UNCHANGED <<repo, edits, seen, want, gen, answer>>
        BY <1>5, <2>1 DEF LoadManifest, Serving, ServerOK
      <3> QED
        BY <3>1 DEF Unedited
    <2>2. CASE Fresh(s, pointer[s]) /\ gen[s] = 0
      <3>1. /\ pc[s] = "load" /\ pc'[s] = "ready"
            /\ answer[s].kind # "usable"
            /\ UNCHANGED <<repo, edits, answer>>
        BY <1>5, <2>2 DEF LoadManifest, Serving, ServerOK
      <3> QED
        BY <3>1 DEF Unedited
    <2>3. CASE ~Fresh(s, pointer[s])
      BY <1>5, <2>3, RefuseUnedited DEF LoadManifest
    <2> QED
      BY <2>1, <2>2, <2>3
  <1>6. CASE AnswerFromGraph(s)
    <2>1. /\ pc[s] = "call" /\ pc'[s] = "ready"
          /\ UNCHANGED <<repo, edits, want, gen>>
      BY <1>6 DEF AnswerFromGraph
    <2>2. \/ answer'[s].since = answer[s].since /\ answer'[s].kind = "usable"
          \/ answer'[s] = Unavailable
      BY <1>6 DEF AnswerFromGraph
    <2>3. Unavailable.since = 0 /\ Unavailable.kind = "unavailable"
      BY DEF Unavailable, NoAnswer
    <2> QED
      BY <2>1, <2>2, <2>3 DEF Unedited
  <1> QED
    BY <1>3, <1>4, <1>5, <1>6 DEF Serve

LEMMA NextUneditedOK ==
  ASSUME IInv, UneditedOK, [Next]_vars
  PROVE  UneditedOK'
  <1> SUFFICES ASSUME NEW s \in Servers PROVE Unedited(s)'
    BY DEF UneditedOK
  <1>1. TypeOK /\ Unedited(s) /\ s \in Procs /\ s \notin Builders
    BY StoreAssumption DEF IInv, UneditedOK, Procs
  <1> DEFINE Apart == /\ pc'[s] = pc[s] /\ seen'[s] = seen[s] /\ want'[s] = want[s]
                      /\ gen'[s] = gen[s] /\ answer'[s] = answer[s]
                      /\ UNCHANGED <<repo, edits>> \/ edits' = edits + 1
  <1>2. CASE Apart
    BY <1>1, <1>2, OthersUnedited
  <1>3. CASE EditRepository \/ UNCHANGED vars
    BY <1>2, <1>3 DEF EditRepository, vars
  <1>4. ASSUME NEW p \in Procs, p # s, Leave(p) \/ Refuse(p) PROVE Apart
    BY <1>1, <1>4 DEF Leave, Refuse, AnswerUnavailable, Serving, Goto, TypeOK
  <1>5. ASSUME NEW p \in Procs, Start(p) PROVE Unedited(s)'
    <2>1. CASE p # s
      BY <1>1, <1>2, <1>5, <2>1 DEF Start, Goto, storeVars, TypeOK
    <2>2. CASE p = s
      <3>1. /\ pc'[s] = "head" /\ answer[s].kind # "usable"
            /\ UNCHANGED <<edits, answer>>
        BY <1>1, <1>5, <2>2 DEF Start, Goto, IInv, TypeOK, ServerOK
      <3> QED
        BY <1>1, <3>1 DEF Unedited, Observing
    <2> QED
      BY <2>1, <2>2
  <1>6. ASSUME NEW p \in Procs, Observe(p) PROVE Unedited(s)'
    <2>1. CASE p # s
      <3>1. Refuse(p) \/ Apart
        BY <1>1, <1>6, <2>1
           DEF Observe, ReadHead, ReadIndexEntries, ReadHeadEntries, WalkWorkingTree,
               HashFiles, Goto, KeepAllButSeen, storeVars, TypeOK
      <3> QED
        BY <1>2, <1>4, <2>1, <3>1
    <2> QED
      BY <1>1, <1>6, <2>1, ObserveUnedited
  <1>7. ASSUME NEW b \in Builders, Build(b) \/ AbortBuild(b) PROVE Unedited(s)'
    <2>1. b \in Procs /\ b # s
      BY <1>1 DEF Procs
    <2>2. Leave(b) \/ Apart
      BY <1>1, <1>7, <2>1
         DEF Build, AbortBuild, AcquireIndexLock, IndexRepository, IndexCounts,
             InstallManifest, InstallPointer, FinishBuild, Goto, KeepAllButStore, TypeOK
    <2> QED
      BY <1>2, <1>4, <2>1, <2>2
  <1>8. ASSUME NEW q \in Servers, ReceiveCall(q) \/ Serve(q) \/ StopServer(q)
        PROVE  Unedited(s)'
    <2>1. CASE q # s
      <3>1. q \in Procs
        BY DEF Procs
      <3>2. Leave(q) \/ Refuse(q) \/ Apart
        BY <1>1, <1>8, <2>1
           DEF ReceiveCall, Serve, StopServer, LoadPointer, LoadManifest,
               AnswerFromGraph, Goto, storeVars, TypeOK
      <3> QED
        BY <1>2, <1>4, <2>1, <3>1, <3>2
    <2> QED
      BY <1>1, <1>8, <2>1, ServeUnedited, LeaveUnedited DEF StopServer
  <1>9. ASSUME NEW p \in Procs, CheckFails(p) PROVE Unedited(s)'
    <2>1. Refuse(p)
      BY <1>9 DEF CheckFails
    <2>2. CASE p # s
      BY <1>2, <1>4, <2>1, <2>2
    <2> QED
      BY <1>1, <2>1, <2>2, RefuseUnedited
  <1> QED
    BY <1>3, <1>5, <1>6, <1>7, <1>8, <1>9 DEF Next

LEMMA InitUneditedOK == Init => UneditedOK
  BY DEF Init, UneditedOK, Unedited, NoAnswer, Procs, Observing

-----------------------------------------------------------------------------
(* The theorems.                                                           *)

\* The three steps that write the state directory, and who takes them.
LEMMA StoreSteps ==
  ASSUME IInv, [Next]_vars
  PROVE  \/ UNCHANGED <<manifest, graph, current>>
         \/ \E b \in Builders : IndexRepository(b) \/ InstallManifest(b) \/ InstallPointer(b)
  <1> USE DEF storeVars, KeepAllButSeen, KeepAllButStore, Goto
  <1>1. ASSUME NEW p \in Procs, Leave(p) \/ Refuse(p) \/ Start(p)
        PROVE  UNCHANGED <<manifest, graph, current>>
    BY <1>1 DEF Leave, Refuse, AnswerUnavailable, Start
  <1>2. ASSUME NEW p \in Procs, Observe(p) PROVE UNCHANGED <<manifest, graph, current>>
    BY <1>1, <1>2 DEF Observe, ReadHead, ReadIndexEntries, ReadHeadEntries,
                      WalkWorkingTree, HashFiles
  <1>3. ASSUME NEW s \in Servers, ReceiveCall(s) \/ Serve(s) \/ StopServer(s)
        PROVE  UNCHANGED <<manifest, graph, current>>
    BY <1>1, <1>3 DEF ReceiveCall, Serve, LoadPointer, LoadManifest, AnswerFromGraph,
                      StopServer, Procs
  <1>4. ASSUME NEW b \in Builders, Build(b) \/ AbortBuild(b)
        PROVE  \/ UNCHANGED <<manifest, graph, current>>
               \/ IndexRepository(b) \/ InstallManifest(b) \/ InstallPointer(b)
    BY <1>1, <1>4 DEF Build, AbortBuild, AcquireIndexLock, IndexCounts, FinishBuild, Procs
  <1>5. ASSUME NEW p \in Procs, CheckFails(p) PROVE UNCHANGED <<manifest, graph, current>>
    BY <1>1, <1>5 DEF CheckFails
  <1> QED
    BY <1>1, <1>2, <1>3, <1>4, <1>5 DEF Next, EditRepository, vars

\* The generation a build writes to is not activated before its pointer is.
LEMMA WrittenGeneration ==
  ASSUME IInv, NEW b \in Builders, pc[b] \in {"backend", "manifest", "pointer"}
  PROVE  gen[b] \in Generations /\ current < gen[b]
  BY StoreAssumption DEF IInv, TypeOK, HeldOK, BuildOK, Locked, Procs, Generations

\* Every reachable state satisfies the inductive invariant.
THEOREM Inductive == Spec => []IInv
  <1>1. Init => IInv
    BY InitIInv
  <1>2. IInv /\ [Next]_vars => IInv'
    BY NextIInv
  <1> QED
    BY <1>1, <1>2, PTL DEF Spec

\* The state directory and the processes keep their types, whatever fails.
THEOREM TypeCorrect == Spec => []TypeOK
  <1>1. IInv => TypeOK
    BY DEF IInv
  <1> QED
    BY <1>1, Inductive, PTL

\* However a build ends, the lock is not left behind with it.
THEOREM LockGivenUp == Spec => []LockIsGivenUp
  <1>1. IInv => LockIsGivenUp
    BY DEF IInv, TypeOK, LockOK, LockIsGivenUp
  <1> QED
    BY <1>1, Inductive, PTL

\* `current` never names an unfinished generation, whichever build step fails.
THEOREM CompleteCurrent == Spec => []CurrentIsComplete
  <1>1. IInv => CurrentIsComplete
    BY StoreAssumption DEF IInv, TypeOK, StoreOK, CurrentIsComplete, Generations
  <1> QED
    BY <1>1, Inductive, PTL

\* However many builds compete for the lock, `current` only moves forward.
THEOREM ForwardActivation == Spec => ActivationMovesForward
  <1>1. IInv /\ [Next]_vars => [current' # current => current' > current]_vars
    <2> SUFFICES ASSUME IInv, [Next]_vars, current' # current PROVE current' > current
      OBVIOUS
    <2>1. PICK b \in Builders : InstallPointer(b)
      BY StoreSteps DEF IndexRepository, InstallManifest
    <2>2. pc[b] = "pointer" /\ current' = gen[b]
      BY <2>1 DEF InstallPointer
    <2>3. gen[b] \in Generations /\ current < gen[b]
      BY <2>2, WrittenGeneration
    <2> QED
      BY <2>2, <2>3, StoreAssumption DEF IInv, TypeOK, Generations
  <1> QED
    BY <1>1, Inductive, PTL DEF Spec, ActivationMovesForward

\* No build, however it ends, changes a generation that has been activated.
THEOREM ImmutableActivated == Spec => ActivatedIsImmutable
  <1>1. IInv /\ [Next]_vars =>
          [current # 0 => /\ current' # 0
                          /\ \A g \in 1..current : /\ manifest'[g] = manifest[g]
                                                   /\ graph'[g] = graph[g]]_vars
    <2> DEFINE Kept == current # 0 =>
                         /\ current' # 0
                         /\ \A g \in 1..current : /\ manifest'[g] = manifest[g]
                                                  /\ graph'[g] = graph[g]
    <2> SUFFICES ASSUME IInv, [Next]_vars PROVE Kept
      OBVIOUS
    <2>1. CASE UNCHANGED <<manifest, graph, current>>
      BY <2>1
    <2>2. ASSUME NEW b \in Builders,
                 IndexRepository(b) \/ InstallManifest(b) \/ InstallPointer(b)
          PROVE  Kept
      <3>1. gen[b] \in Generations /\ current < gen[b]
        BY <2>2, WrittenGeneration DEF IndexRepository, InstallManifest, InstallPointer
      <3>2. \A g \in 1..current : g # gen[b] /\ g \in Generations
        BY <3>1, StoreAssumption DEF IInv, TypeOK, Generations
      <3>3. CASE IndexRepository(b)
        BY <3>1, <3>2, <3>3 DEF IndexRepository, IInv, TypeOK
      <3>4. CASE InstallManifest(b)
        BY <3>1, <3>2, <3>4 DEF InstallManifest, IInv, TypeOK
      <3>5. CASE InstallPointer(b)
        BY <3>1, <3>5 DEF InstallPointer, Generations
      <3> QED
        BY <2>2, <3>3, <3>4, <3>5
    <2> QED
      BY <2>1, <2>2, StoreSteps
  <1> QED
    BY <1>1, Inductive, PTL DEF Spec, ActivatedIsImmutable

\* Every usable answer comes from a finished generation whose manifest records
\* the identity the server demands, whatever is built while it serves.
THEOREM IdentifiedAnswers == Spec => []AnswerHasIdentity
  <1>1. IInv => AnswerHasIdentity
    <2> SUFFICES ASSUME IInv, NEW s \in Servers, answer[s].kind = "usable"
                 PROVE  /\ manifest[answer[s].gen] =
                             [generation |-> answer[s].gen, id |-> want[s], pin |-> PinOf[s]]
                        /\ answer[s].files = want[s].files
                        /\ answer[s].graph \in Contents
      BY DEF AnswerHasIdentity
    <2>1. /\ pc[s] = "ready" /\ answer[s].gen = gen[s]
          /\ answer[s].files = want[s].files /\ answer[s].graph = graph[gen[s]]
      BY DEF IInv, ServerOK
    <2>2. gen[s] # 0
      BY <2>1 DEF IInv, HeldOK, Procs
    <2>3. gen[s] \in Generations /\ manifest[gen[s]] \in Manifest
      BY <2>2, LoadedManifest
    <2>4. graph[gen[s]] \in Contents
      BY <2>3, StoreAssumption DEF IInv, StoreOK
    <2> QED
      BY <2>1, <2>2, <2>4 DEF IInv, ServerOK, Fresh
  <1> QED
    BY <1>1, Inductive, PTL

\* If nobody edits the repository while a build runs, every usable answer comes
\* from a graph of the content that its check found in the working tree.
THEOREM MatchingAnswers ==
  ASSUME EditsDuringBuild = FALSE
  PROVE  Spec => []AnswerMatchesWorkingTree
  <1>1. Init => IInv /\ ContentOK
    BY InitIInv, InitContentOK
  <1>2. IInv /\ ContentOK /\ [Next]_vars => (IInv /\ ContentOK)'
    BY NextIInv, NextContentOK
  <1>3. IInv /\ ContentOK => AnswerMatchesWorkingTree
    <2> SUFFICES ASSUME IInv, ContentOK, NEW s \in Servers, answer[s].kind = "usable"
                 PROVE  answer[s].graph = answer[s].files
      BY DEF AnswerMatchesWorkingTree
    <2>1. /\ pc[s] = "ready"
          /\ answer[s].files = want[s].files /\ answer[s].graph = graph[gen[s]]
      BY DEF IInv, ServerOK
    <2>2. gen[s] # 0
      BY <2>1 DEF IInv, HeldOK, Procs
    <2>3. gen[s] \in Generations /\ manifest[gen[s]] \in Manifest
      BY <2>2, LoadedManifest
    <2>4. manifest[gen[s]] = [generation |-> gen[s], id |-> want[s], pin |-> PinOf[s]]
      BY <2>2 DEF IInv, ServerOK, Fresh
    <2>5. manifest[gen[s]].id = want[s]
      BY <2>4
    <2> QED
      BY <2>1, <2>3, <2>5, StoreAssumption DEF ContentOK
  <1> QED
    BY <1>1, <1>2, <1>3, PTL DEF Spec

\* When nothing was edited since a call came in, a usable answer implies that
\* the repository is clean and at the demanded commit and content.
THEOREM UneditedAnswers == Spec => []UsableMeansUnedited
  <1>1. Init => IInv /\ UneditedOK
    BY InitIInv, InitUneditedOK
  <1>2. IInv /\ UneditedOK /\ [Next]_vars => (IInv /\ UneditedOK)'
    BY NextIInv, NextUneditedOK
  <1>3. IInv /\ UneditedOK => UsableMeansUnedited
    <2> SUFFICES ASSUME IInv, UneditedOK, NEW s \in Servers,
                        answer[s].kind = "usable", answer[s].since = edits
                 PROVE  /\ repo.head = want[s].head
                        /\ repo.index = TreeOf[repo.head]
                        /\ repo.work = want[s].files
                        /\ ~repo.extra
      BY DEF UsableMeansUnedited
    <2>1. gen[s] # 0
      BY DEF IInv, ServerOK, HeldOK, Procs
    <2> QED
      BY <2>1 DEF UneditedOK, Unedited
  <1> QED
    BY <1>1, <1>2, <1>3, PTL DEF Spec

=============================================================================
