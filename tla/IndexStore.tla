----------------------------- MODULE IndexStore -----------------------------
(***************************************************************************)
(* The index life cycle of codegraph-gateway: `index build` and `serve`    *)
(* processes that share one repository and one state directory.            *)
(*                                                                         *)
(* A build observes the repository through several Git commands, takes the *)
(* exclusive index lock, has the backend index the working tree into a new *)
(* generation, records a manifest from what it observed at the start and   *)
(* renames the `current` pointer.  A server makes the same observation,    *)
(* loads the manifest `current` names, starts the backend on that          *)
(* generation's graph, and repeats observation and load before every tool  *)
(* call.  The repository is edited meanwhile by people who run neither.    *)
(*                                                                         *)
(* Contents stands for the bytes of the tracked files: a commit's tree,    *)
(* the staged entries and the working files are each one member of it, and *)
(* a file manifest hash is the content it hashes.                          *)
(***************************************************************************)
EXTENDS Naturals

CONSTANTS
  Builders,           \* `codegraph-gateway index build` processes
  Servers,            \* `codegraph-gateway serve` processes
  Commits, Contents,
  TreeOf,             \* the content each commit records
  Approved,           \* contents in the compiled fixture allowlist
  Pins, PinOf,        \* backend, gateway and config hashes a process is pinned to
  EditsDuringBuild,   \* may the repository change while a build runs?
  MaxEdits,           \* bound on the edits of the repository
  MaxGen,             \* bound on the generations built
  None, Partial

Procs == Builders \cup Servers

Generations == 1..MaxGen

VARIABLES
  repo,       \* HEAD, staged entries, working files, and whether extra files exist
  edits,      \* number of edits so far
  manifest,   \* generations/<gen>/index-manifest.json
  graph,      \* what generations/<gen>/cache holds a graph of
  current,    \* the generation the `current` pointer file names, 0 when absent
  newest,     \* the last generation name taken from the clock
  lock,       \* holder of .index.lock
  pc,         \* where each process is
  seen,       \* what its Git commands returned so far
  want,       \* the identity it recorded or demands: commit and file manifest
  gen,        \* a build's new generation, or the one a server loaded
  pointer,    \* the generation a server read from `current`
  answer      \* the call each server works on (since which edit) or its answer

vars == <<repo, edits, manifest, graph, current, newest, lock,
          pc, seen, want, gen, pointer, answer>>

storeVars == <<manifest, graph, current, newest, lock>>

-----------------------------------------------------------------------------
Repository == [head : Commits, index : Contents, work : Contents, extra : BOOLEAN]

\* A commit and a file manifest; None where nothing was observed yet.
Identity == [head : Commits \cup {None}, files : Contents \cup {None}]

NoIdentity == [head |-> None, files |-> None]

Manifest == [generation : Generations, id : Identity, pin : Pins]

\* What a generation's cache holds: nothing, an incomplete graph, a whole one.
Graph == Contents \cup {None, Partial}

Sighting == [head : Commits \cup {None}, index : Contents \cup {None},
             dirty : BOOLEAN]

NothingSeen == [head |-> None, index |-> None, dirty |-> FALSE]

Answer == [kind : {"none", "unavailable", "usable"}, since : 0..MaxEdits,
           gen : 0..MaxGen, graph : Graph, files : Contents \cup {None}]

NoAnswer == [kind |-> "none", since |-> 0, gen |-> 0, graph |-> None,
             files |-> None]

Unavailable == [NoAnswer EXCEPT !.kind = "unavailable"]

Observing == {"head", "index", "tree", "walk", "files"}

Locked == {"backend", "counts", "manifest", "pointer", "unlock"}

Label == {"idle", "lock", "current", "load", "ready", "call"}
           \cup Observing \cup Locked

ASSUME StoreAssumption ==
  /\ Builders \cap Servers = {}
  /\ TreeOf \in [Commits -> Contents]
  /\ Approved \subseteq Contents
  /\ PinOf \in [Procs -> Pins]
  /\ EditsDuringBuild \in BOOLEAN
  /\ MaxEdits \in Nat
  /\ MaxGen \in Nat
  /\ None \notin Contents /\ None \notin Commits /\ None \notin Procs
  /\ None \notin Manifest
  /\ Partial \notin Contents /\ Partial # None

Init ==
  /\ \E c \in Commits : repo = [head |-> c, index |-> TreeOf[c],
                                work |-> TreeOf[c], extra |-> FALSE]
  /\ edits = 0
  /\ manifest = [g \in Generations |-> None]
  /\ graph = [g \in Generations |-> None]
  /\ current = 0
  /\ newest = 0
  /\ lock = None
  /\ pc = [p \in Procs |-> "idle"]
  /\ seen = [p \in Procs |-> NothingSeen]
  /\ want = [p \in Procs |-> NoIdentity]
  /\ gen = [p \in Procs |-> 0]
  /\ pointer = [s \in Servers |-> 0]
  /\ answer = [s \in Servers |-> NoAnswer]

-----------------------------------------------------------------------------
(* The environment: any component of the repository may change.            *)

EditAllowed ==
  /\ edits < MaxEdits
  /\ EditsDuringBuild \/ \A b \in Builders : pc[b] = "idle"

EditRepository ==
  /\ EditAllowed
  /\ edits' = edits + 1
  /\ \/ \E c \in Commits : repo' = [repo EXCEPT !.head = c]
     \/ \E x \in Contents : repo' = [repo EXCEPT !.index = x]
     \/ \E x \in Contents : repo' = [repo EXCEPT !.work = x]
     \/ repo' = [repo EXCEPT !.extra = ~repo.extra]
  /\ UNCHANGED <<storeVars, pc, seen, want, gen, pointer, answer>>

-----------------------------------------------------------------------------
(* Observation: gitState and gitFileManifest, one Git command at a time.   *)

Goto(p, label) == pc' = [pc EXCEPT ![p] = label]

Serving(s) == s \in Servers /\ gen[s] # 0

\* Faulty variant of Leave: a lock file that nobody removes.
KeepsLock(p) ==
  /\ Goto(p, "idle")
  /\ seen' = [seen EXCEPT ![p] = NothingSeen]
  /\ want' = [want EXCEPT ![p] = NoIdentity]
  /\ gen' = [gen EXCEPT ![p] = 0]
  /\ pointer' = [s \in Servers |-> IF s = p THEN 0 ELSE pointer[s]]
  /\ answer' = [s \in Servers |-> IF s = p THEN NoAnswer ELSE answer[s]]
  /\ UNCHANGED <<repo, edits, storeVars>>

\* Leaving a build or a server that has not loaded a manifest, by an error
\* return or a crash: the lock is released (deferred Close, or by the kernel).
Leave(p) ==
  /\ Goto(p, "idle")
  /\ seen' = [seen EXCEPT ![p] = NothingSeen]
  /\ want' = [want EXCEPT ![p] = NoIdentity]
  /\ gen' = [gen EXCEPT ![p] = 0]
  /\ pointer' = [s \in Servers |-> IF s = p THEN 0 ELSE pointer[s]]
  /\ lock' = IF lock = p THEN None ELSE lock
  /\ answer' = [s \in Servers |-> IF s = p THEN NoAnswer ELSE answer[s]]
  /\ UNCHANGED <<repo, edits, manifest, graph, current, newest>>

\* The freshness checker returned an error: the tool call is answered with
\* the unavailable payload and the server waits for the next request.
AnswerUnavailable(s) ==
  /\ Goto(s, "ready")
  /\ seen' = [seen EXCEPT ![s] = NothingSeen]
  /\ pointer' = [pointer EXCEPT ![s] = 0]
  /\ answer' = [answer EXCEPT ![s] = Unavailable]
  /\ UNCHANGED <<repo, edits, storeVars, want, gen>>

Refuse(p) == IF Serving(p) THEN AnswerUnavailable(p) ELSE Leave(p)

\* What an observation leaves alone.
KeepAllButSeen ==
  UNCHANGED <<repo, edits, storeVars, want, gen, pointer, answer>>

ReadHead(p) ==
  /\ pc[p] = "head"
  /\ seen' = [seen EXCEPT ![p].head = repo.head]
  /\ Goto(p, "index")
  /\ KeepAllButSeen

ReadIndexEntries(p) ==
  /\ pc[p] = "index"
  /\ seen' = [seen EXCEPT ![p].index = repo.index]
  /\ Goto(p, "tree")
  /\ KeepAllButSeen

ReadHeadEntries(p) ==
  /\ pc[p] = "tree"
  /\ seen' = [seen EXCEPT ![p] = [head |-> seen[p].head, index |-> None,
                                  dirty |-> seen[p].index # TreeOf[repo.head]]]
  /\ Goto(p, "walk")
  /\ KeepAllButSeen

\* Faulty variant of ObservedClean: untracked files are not looked for.
IgnoresExtraFiles(p) ==
  ~seen[p].dirty /\ (Serving(p) => seen[p].head = want[p].head)

\* A serving process also compares the commit before it hashes the files.
ObservedClean(p) ==
  /\ ~seen[p].dirty /\ ~repo.extra
  /\ Serving(p) => seen[p].head = want[p].head

WalkWorkingTree(p) ==
  /\ pc[p] = "walk"
  /\ IF ObservedClean(p) THEN Goto(p, "files") /\ UNCHANGED seen /\ KeepAllButSeen
                         ELSE Refuse(p)

\* Faulty variant of AcceptedFiles: a server forgets what it compared at startup.
AcceptsAnyApproved(p) == repo.work \in Approved

AcceptedFiles(p) ==
  IF Serving(p) THEN repo.work = want[p].files ELSE repo.work \in Approved

HashFiles(p) ==
  /\ pc[p] = "files"
  /\ IF AcceptedFiles(p)
       THEN /\ want' = [want EXCEPT ![p] = [head |-> seen[p].head,
                                            files |-> repo.work]]
            /\ seen' = [seen EXCEPT ![p] = NothingSeen]
            /\ Goto(p, IF p \in Builders THEN "lock" ELSE "current")
            /\ UNCHANGED <<repo, edits, storeVars, gen, pointer, answer>>
       ELSE Refuse(p)

Observe(p) ==
  \/ ReadHead(p)
  \/ ReadIndexEntries(p)
  \/ ReadHeadEntries(p)
  \/ WalkWorkingTree(p)
  \/ HashFiles(p)

\* A Git command, a file that cannot be read, or the state directory fails.
CheckFails(p) == pc[p] \in Observing \cup {"current", "load"} /\ Refuse(p)

\* Both commands first validate their pinned hashes, which change no state.
Start(p) ==
  /\ pc[p] = "idle"
  /\ Goto(p, "head")
  /\ UNCHANGED <<repo, edits, storeVars, seen, want, gen, pointer, answer>>

-----------------------------------------------------------------------------
(* index build after the observation.                                      *)

KeepAllButStore == UNCHANGED <<repo, edits, seen, want, pointer, answer>>

\* Faulty variants of AcquireIndexLock: the lock is not looked at; a build
\* writes into the generation that the last one wrote.
WithoutLock(b) ==
  /\ pc[b] = "lock" /\ newest < MaxGen
  /\ lock' = b
  /\ newest' = newest + 1
  /\ gen' = [gen EXCEPT ![b] = newest + 1]
  /\ Goto(b, "backend")
  /\ KeepAllButStore
  /\ UNCHANGED <<manifest, graph, current>>

ReusesGeneration(b) ==
  /\ pc[b] = "lock" /\ lock = None /\ MaxGen > 0
  /\ lock' = b
  /\ newest' = 1
  /\ gen' = [gen EXCEPT ![b] = 1]
  /\ Goto(b, "backend")
  /\ KeepAllButStore
  /\ UNCHANGED <<manifest, graph, current>>

\* flock is tried once; the generation is the wall clock in nanoseconds, so a
\* new name.  A second build is refused while the lock is held.
AcquireIndexLock(b) ==
  /\ pc[b] = "lock"
  /\ lock = None => newest < MaxGen
  /\ IF lock = None
       THEN /\ lock' = b
            /\ newest' = newest + 1
            /\ gen' = [gen EXCEPT ![b] = newest + 1]
            /\ Goto(b, "backend")
            /\ KeepAllButStore
            /\ UNCHANGED <<manifest, graph, current>>
       ELSE Leave(b)

\* The backend reads the working files as they are now.  It may skip some.
IndexRepository(b) ==
  /\ pc[b] = "backend"
  /\ \E result \in {repo.work, Partial} :
       graph' = [graph EXCEPT ![gen[b]] = result]
  /\ Goto(b, "counts")
  /\ KeepAllButStore
  /\ UNCHANGED <<manifest, current, newest, lock, gen>>

\* Faulty variant of IndexCounts: skipped and incomplete files are not counted.
TrustsBackend(b) ==
  /\ pc[b] = "counts"
  /\ Goto(b, "manifest")
  /\ KeepAllButStore
  /\ UNCHANGED <<storeVars, gen>>

IndexCounts(b) ==
  /\ pc[b] = "counts"
  /\ IF graph[gen[b]] # Partial
       THEN /\ Goto(b, "manifest")
            /\ KeepAllButStore
            /\ UNCHANGED <<storeVars, gen>>
       ELSE Leave(b)

\* Faulty variant of InstallManifest: one manifest, rewritten in place.
RewritesManifest(b) ==
  /\ pc[b] = "manifest"
  /\ manifest' = [manifest EXCEPT ![IF current = 0 THEN gen[b] ELSE current] =
                    [generation |-> gen[b], id |-> want[b], pin |-> PinOf[b]]]
  /\ Goto(b, "pointer")
  /\ KeepAllButStore
  /\ UNCHANGED <<graph, current, newest, lock, gen>>

\* WriteManifestAtomic writes a synced temporary file and renames it ...
InstallManifest(b) ==
  /\ pc[b] = "manifest"
  /\ manifest' = [manifest EXCEPT ![gen[b]] =
                    [generation |-> gen[b], id |-> want[b], pin |-> PinOf[b]]]
  /\ Goto(b, "pointer")
  /\ KeepAllButStore
  /\ UNCHANGED <<graph, current, newest, lock, gen>>

\* Faulty variant of InstallPointer: the generation's name is taken again.
NamesGenerationAgain(b) ==
  /\ pc[b] = "pointer"
  /\ current' = newest + 1
  /\ Goto(b, "unlock")
  /\ KeepAllButStore
  /\ UNCHANGED <<manifest, graph, newest, lock, gen>>

\* ... and renames the pointer into place; that file is not synced, which the
\* death of a process cannot show.
InstallPointer(b) ==
  /\ pc[b] = "pointer"
  /\ current' = gen[b]
  /\ Goto(b, "unlock")
  /\ KeepAllButStore
  /\ UNCHANGED <<manifest, graph, newest, lock, gen>>

FinishBuild(b) == pc[b] = "unlock" /\ Leave(b)

\* An error return, or a crash, anywhere in a build.
AbortBuild(b) == pc[b] # "idle" /\ Leave(b)

Build(b) ==
  \/ AcquireIndexLock(b)
  \/ IndexRepository(b)
  \/ IndexCounts(b)
  \/ InstallManifest(b)
  \/ InstallPointer(b)
  \/ FinishBuild(b)

-----------------------------------------------------------------------------
(* serve: LoadFreshManifest, then tool calls.                              *)

LoadPointer(s) ==
  /\ pc[s] = "current"
  /\ IF current # 0
       THEN /\ pointer' = [pointer EXCEPT ![s] = current]
            /\ Goto(s, "load")
            /\ UNCHANGED <<repo, edits, storeVars, seen, want, gen, answer>>
       ELSE Refuse(s)

\* Faulty variant of Fresh: a comparison that misses a field.
IgnoresPins(s, g) ==
  manifest[g] # None /\ manifest[g].generation = g /\ manifest[g].id = want[s]

Fresh(s, g) ==
  manifest[g] = [generation |-> g, id |-> want[s], pin |-> PinOf[s]]

\* At startup the server keeps the generation it loaded; a check before a
\* tool call loads the manifest again and drops it.
LoadManifest(s) ==
  /\ pc[s] = "load"
  /\ IF Fresh(s, pointer[s])
       THEN /\ IF Serving(s)
                 THEN Goto(s, "call") /\ UNCHANGED gen
                 ELSE /\ Goto(s, "ready")
                      /\ gen' = [gen EXCEPT ![s] = pointer[s]]
            /\ UNCHANGED <<repo, edits, storeVars, seen, want, pointer, answer>>
       ELSE Refuse(s)

ReceiveCall(s) ==
  /\ pc[s] = "ready"
  /\ Goto(s, "head")
  /\ answer' = [answer EXCEPT ![s] = [NoAnswer EXCEPT !.since = edits]]
  /\ pointer' = [pointer EXCEPT ![s] = 0]
  /\ UNCHANGED <<repo, edits, storeVars, seen, want, gen>>

\* The backend process holds the graph of the generation loaded at startup.
AnswerFromGraph(s) ==
  /\ pc[s] = "call"
  /\ \/ answer' = [answer EXCEPT ![s] =
                     [kind |-> "usable", since |-> answer[s].since,
                      gen |-> gen[s], graph |-> graph[gen[s]],
                      files |-> want[s].files]]
     \/ answer' = [answer EXCEPT ![s] = Unavailable]
  /\ Goto(s, "ready")
  /\ pointer' = [pointer EXCEPT ![s] = 0]
  /\ UNCHANGED <<repo, edits, storeVars, seen, want, gen>>

Serve(s) ==
  \/ LoadPointer(s)
  \/ LoadManifest(s)
  \/ AnswerFromGraph(s)

\* stdin closed, a startup error, or a crash.
StopServer(s) == pc[s] # "idle" /\ Leave(s)

-----------------------------------------------------------------------------
Next ==
  \/ EditRepository
  \/ \E p \in Procs : Start(p) \/ Observe(p) \/ CheckFails(p)
  \/ \E b \in Builders : Build(b) \/ AbortBuild(b)
  \/ \E s \in Servers : ReceiveCall(s) \/ Serve(s) \/ StopServer(s)

Spec == Init /\ [][Next]_vars

-----------------------------------------------------------------------------
(* Properties.                                                             *)

TypeOK ==
  /\ repo \in Repository
  /\ edits \in 0..MaxEdits
  /\ manifest \in [Generations -> Manifest \cup {None}]
  /\ graph \in [Generations -> Graph]
  /\ current \in 0..MaxGen
  /\ newest \in 0..MaxGen
  /\ lock \in Builders \cup {None}
  /\ pc \in [Procs -> Label]
  /\ seen \in [Procs -> Sighting]
  /\ want \in [Procs -> Identity]
  /\ gen \in [Procs -> 0..MaxGen]
  /\ pointer \in [Servers -> 0..MaxGen]
  /\ answer \in [Servers -> Answer]

\* The pointer names a generation whose manifest is installed, records that
\* generation and was written for a graph the backend finished: a build that
\* fails or dies at any step leaves no pointer to an unfinished generation.
CurrentIsComplete ==
  current # 0 => /\ manifest[current] # None
                 /\ manifest[current].generation = current
                 /\ graph[current] \in Contents

\* Two builds never hold a generation at once, so `current` only moves to a
\* newer one: a slow build cannot replace the result of a later one.
ActivationMovesForward == [][current' # current => current' > current]_vars

\* Once a generation has been activated, no build changes its manifest or its
\* graph, although later builds fail at any step ("later failures leave the
\* previous generation unchanged").
ActivatedIsImmutable ==
  [][current # 0 => /\ current' # 0
                    /\ \A g \in 1..current : /\ manifest'[g] = manifest[g]
                                             /\ graph'[g] = graph[g]]_vars

\* A usable answer comes from a generation whose manifest records exactly the
\* commit and files the server demands and the pins it runs with, and whose
\* graph is finished, although the check before the answer loaded the manifest
\* of whatever generation was current by then.
AnswerHasIdentity ==
  \A s \in Servers :
    answer[s].kind = "usable" =>
      /\ manifest[answer[s].gen] = [generation |-> answer[s].gen, id |-> want[s],
                                    pin |-> PinOf[s]]
      /\ answer[s].files = want[s].files
      /\ answer[s].graph \in Contents

\* The graph behind a usable answer was built from the very content that the
\* check before this answer found in the working tree.
AnswerMatchesWorkingTree ==
  \A s \in Servers : answer[s].kind = "usable" => answer[s].graph = answer[s].files

\* When nothing was edited since a call came in, a usable answer means that
\* the repository is at the demanded commit, staged and working files are that
\* commit's and the demanded files, and no extra file exists: five reads at
\* five moments miss no edit made before the call.
UsableMeansUnedited ==
  \A s \in Servers :
    answer[s].kind = "usable" /\ answer[s].since = edits =>
      /\ repo.head = want[s].head
      /\ repo.index = TreeOf[repo.head]
      /\ repo.work = want[s].files
      /\ ~repo.extra

\* The lock is in the hands of a build that still works on its generation:
\* whichever step fails, and when the process dies, it is given up, and no later
\* build is refused because of a build that is over.
LockIsGivenUp == lock # None => pc[lock] \in Locked

-----------------------------------------------------------------------------
(* The files of the state directory, read and written step by step,        *)
(* implement a register that is replaced atomically.                       *)

Verdict(s) ==
  CASE pc[s] = "current" -> "asked"
    [] pc[s] = "load"    -> IF Fresh(s, pointer[s]) THEN "match" ELSE "mismatch"
    [] pc[s] = "call"    -> "match"
    [] OTHER             -> "none"

Demand(s) == [id |-> want[s], pin |-> PinOf[s]]

Active ==
  IF current = 0 THEN [gen |-> 0]
  ELSE [gen |-> current,
        id |-> [id |-> manifest[current].id, pin |-> manifest[current].pin]]

Register == INSTANCE ActiveIndex WITH
  Identities <- [id : Identity, pin : Pins],
  active <- Active,
  asked <- [s \in Servers |-> Demand(s)],
  verdict <- [s \in Servers |-> Verdict(s)]

\* Pointer and manifest are two files, read at two moments, while builds
\* replace them: every comparison still agrees with the index that was active
\* at the moment the pointer was read.
ImplementsRegister == Register!Spec

=============================================================================
