# A TLA+ verification project for the CodeGraph harness

The repository is a small distribution around a vendor code-graph backend: a Go
gateway (`codegraph-gateway`) that builds and serves an index of a Git
repository to MCP clients, installers that place the gateway and its
registrations on a machine, and Python tooling (`codegraph-harness`) that
builds the bundles and runs the evaluation. This directory holds TLA+ models of
the parts with state, concurrency or failure handling, TLC configurations that
check them, and proofs that `tlapm` checks.

## 1. Inventory

### Components that are modelled

| Component | State | Operations | Module |
| --- | --- | --- | --- |
| Index life cycle (`gateway/cmd/codegraph-gateway/main.go`, `index_lock_*.go`, `internal/gateway/manifest.go`, `types.go`) | `generations/<g>/index-manifest.json`, `generations/<g>/cache`, `current`, `.index.lock`; the repository itself; per process: what was observed, demanded and loaded | `index build`, `serve` startup, the freshness check before each tool call, a tool call | `IndexStore`, abstract `ActiveIndex` |
| Backend channel (`internal/gateway/cbm.go`) | mutex, stdin/stdout pipes and their 1 MiB reader, the child | `StartCBM`, `rpc`, `notify`, `Close` | `CbmChannel` |
| Child supervision (`internal/gateway/process*.go`) | the child, its process group, `Wait`'s goroutine and channel, the caller's context | `RunChildCommand`, `Close`, `Terminate` | `ChildProcess` |
| macOS installer (`installers/macos/*.sh`) | version directories, Rule, skill, runtime, marketplace, plugin, two client registrations, the receipt directory `state/current`, the shell's flags | `install.sh` with rollback, reinstallation, `uninstall.sh` | `MacInstaller` |
| Evaluation runner (`codegraph_harness/evaluation.py`) | the output directory (`state/<condition>`, `raw`, `result.json`), preparation status, schedule, run entries, `_StateCleanup` | `run_evaluation`: prepare, run, clean up, write the result, unwind | `EvaluationRun` |
| Conditions, client processes and metrics (`evaluation.py`) | the condition and task from their files, `mcp.json`, the child with its arguments, environment and input, the stream it writes, the run entries, the summary | validation, rendering, `_environment`, `_run_process`, `_normalize_client_output`, `_evaluate_oracle`, the medians | `ClientRun` |
| Bundle builder (`codegraph_harness/bundle.py`) | the repository and the vendor directory, which people edit; the output path, temporary files; per build: profile, what is added so far, the answer | `build_bundle`: load the profile, walk, read, verify, add, generate, write, replace, read back | `Bundle` |

### Components that are not modelled (yet)

| Component | Why / plan |
| --- | --- |
| MCP tool server (`server.go`): argument validation, path normalisation, output limit | `IndexStore` has its order freshness check, backend call, answer. The pure functions are planned as operators in `ToolServer`. |
| Backend response parsing, repository root resolution, `index status`, `fixture` | pure or read-only; no state to lose |
| Windows child process, lock and installer | same interfaces and same design as the modelled ones; `WindowsInstaller` and a job-object variant of `ChildProcess` are planned |
| CLI, doctor, adapter rendering, contracts, skills, documents | no state, or no behaviour |

### How the parts interact

`index build` and `serve` are separate processes. They share the state directory
and the repository and nothing else: the lock file is the only
synchronisation, and only between builds. A server talks to one child over two
pipes (`CbmChannel`); a build runs the same backend binary as a command
(`ChildProcess.RunChildCommand`). The installers write what the clients start:
the runtime, and the registrations that name it. The installers and the gateway
meet only in the pinned hashes (`Pins` in `IndexStore`): after an upgrade, builder
and server may be pinned to different ones. The bundle builder is run by people or
jobs that may share an output path; the installers unpack what it wrote and check it
against its own `SHA256SUMS`. The evaluation starts clients as processes and knows
them by an exit, a time limit and the lines on their standard output.

### What is hard

* People edit the repository while five Git commands observe it, and while the
  backend indexes it. Observations are used long after they were made.
* A build fails or dies between any two file operations; a second build and any
  number of readers run at the same time.
* One request id for all requests; only the order of the lines in a pipe ties an
  answer to its question, and calls are cancelled, children die, `Close` runs
  concurrently.
* A process tree grows while it is being killed, and holds pipes.
* Thirty commands under a shell trap; each may fail, a signal may come in any of
  them, and the next run starts from whatever is left.
* An evaluation measures tools by the state they leave between two commands, and
  must neither lose a failed step in its summary nor leave that state to the next
  evaluation, although exceptions, interrupts and processes that outlive their
  command may come at any point.
* A bundle is assembled from dozens of files read one after the other, on the
  builder's file system, for file systems that compare names otherwise; builds fail,
  die and overtake each other at one output path.
* What a condition says of itself, what its command does and what a result calls it
  are separate texts. Placeholders are replaced in what was replaced before, in an
  order that differs from process to process. A client is cut off in the middle of a
  line, and its last complete line is not its answer.

`PROJECT.json` lists each hazard at its line with the properties that cover it,
or the reason none does.

### What makes each component correct

* Index life cycle: the pointer never names an unfinished generation; an
  activated generation never changes; activation only moves forward; a usable
  answer comes from a graph whose recorded identity is the demanded one, and
  from the files that were checked, if nothing is edited during a build; a check
  misses no edit made before the call; no build that is over has the lock; and to its
  readers the pair of files is an atomic register.
* Channel: every caller gets the reply to its own request; no reply is left for
  the next call; every call ends, unless a process keeps the pipes of a child that is
  gone.
* Child supervision: nothing of the group runs after the return; a deadline is kept.
* Installer: a failed run leaves everything as it was found, but for what a command
  left half done, what the rollback could not take back, and a marketplace and plugin
  that the run had added again; what the user wrote is never touched; a removal
  without warning removes the files, the runtime, the plugin and the registrations
  that were owned.
* Evaluation runner: a result has an entry for every repetition of every task under
  every condition and says "completed" only if all were prepared, run and
  successful; where no process was left behind, the state directories are removed
  whatever ends an evaluation; no condition works on the leftovers of another
  evaluation.
* Conditions, clients and metrics: the prompt reaches the client on its standard input
  only, as long as no path has `{prompt}` in it; its environment is the declared one; a
  result is named for the client that ran, and for Codex for the settings it ran with;
  numbers and verdicts come from what the client gave whole; and a client that hangs
  does not keep the evaluation from ending, except on Windows a process that outlives a
  killed client.
* Bundle builder: the output path never holds a part of a bundle, or one with paths
  that are not portable or clash; what comes from the vendor directory is what the
  profile declares; a gateway approves the profile's fixtures and no others; a public
  bundle has nothing of others; equal inputs that can be listed give equal bundles; the
  answer is about the bundle that was made.

## 2. Modules and their correspondence to the code

`PROJECT.json` maps every definition to its source lines; this is the outline.

### IndexStore, ActiveIndex

`Contents` stands for "the bytes of all tracked files": a commit's tree, the
staged entries and the working files are each one value of it, and a file
manifest hash is the content it hashes. `repo` has four independent parts:
HEAD, the staged entries, the working files, and whether files exist that Git
does not track. `EditRepository` changes any one of them.

A process observes with one action per Git command (`ReadHead`,
`ReadIndexEntries`, `ReadHeadEntries`, `WalkWorkingTree`, `HashFiles`:
`gitState`, `gitFileManifest`). A build continues with `AcquireIndexLock` (flock
tried once; the generation name is taken from the clock), `IndexRepository` (the
backend reads the working tree as it is *then*, and may skip files),
`IndexCounts`, `InstallManifest`, `InstallPointer`, `FinishBuild`; `AbortBuild` is
an error return or a crash at any point. A server continues with `LoadPointer` and
`LoadManifest` (`LoadFreshManifest`), keeps the generation it loaded, and repeats
observation and load for each `ReceiveCall`; `AnswerFromGraph` is the backend's
answer from the graph *loaded at startup*. `Refuse` is a failed check: at startup
the server ends, during a call it answers "unavailable". `CheckFails` takes this exit
from any of the reads, when a Git command or a file operation fails. A reply to invalid
arguments is an "unavailable" answer too.

`ActiveIndex` is what readers may rely on: a register `active` that is replaced in
one step by a later generation, and a comparison that is decided against the
register at one instant. `Register` in `IndexStore` is the refinement mapping: the
register is the content of the manifest that the pointer names; the comparison
is decided when the *pointer* is read, although the manifest is read later.

### CbmChannel

Requests are numbers (in the code they all carry id 1); `stdin` holds request numbers, 0
for the notification; `stdout` holds what `ReadSlice` can make of a line: a reply, the
two pieces of one that exceeds the buffer, or a line nobody asked for. `Lock`, `Write`,
`Read`, `ReadFails`, `Cancel` are the stages of `rpc`, `Notify` and `CloseAfterFailure`
the rest of `StartCBM`, `Close` the deferred close of `serve`. `Shut` closes the input
and kills the child's group. What has left the group may keep the pipes (`held`,
`Inherit`), and a cancelled call waits for them with the mutex locked: it is "closing"
until `Closed`. The child (`Answer`, `SpeakUnasked`, `Die`) is external: it answers in
order. The command line serves one stdio loop with `context.Background`; several callers
and cancellation are possibilities of the `CBMBackend` interface, which has a mutex and
watches its context for them, and they are modelled because the code is written for
them.

### ChildProcess

The gateway's side is `Start`, the `Wait` goroutine, the two branches of the
`select`, `Teardown`, `Drain`, and `Close`, which enters at the kill. The child and
its descendants start processes that stay in the group or leave it (setsid) and
inherit the pipes or not. `Terminate` is the kill of the group in one system call. `Wait`
returns only when the child has exited *and*
nobody holds the write end of a pipe, because the gateway copies from pipes.

### MacInstaller

The content of a thing is the version that wrote it, `User`, or `Half` where a copy or
a removal stopped half way. Every step of `install.sh` under the trap is an action
(`PlaceRoot` ... `FinishInstall`), with the flag it sets. `FailInstall` is a failing
command (or comparison) with `rollback_partial`. The command may have done its work in
part (`Spoilt`): `cp` truncates its target, and the flag that would make the rollback
restore the file is set only after it; a client may have registered something before it
reports an error. `RolledBack` takes back what the flags say, file by file (`FileAfter`);
its own commands may fail without a word, up to `MaxStuck` of them. `broken` keeps which
things such commands have left, for the properties: it is no variable of the scripts.
`InterruptInstall` is a signal: bash runs the trap after the current command with *that
command's* status, so the rollback happens or not. `uninstall.sh` is the `Drop*` actions,
`StopUninstall` a failure or a signal in it. Between runs `UserChanges` replaces or
removes a thing or a client.

### EvaluationRun

One evaluation after another into one output directory. `Start` is the check of
that directory and `arm`; `OpenCondition` makes a condition's state directory and
its `mcp.json`; `PrepareStep` is one prepare command with its artifacts, `BlockPair`
and `RunPair` are one iteration over the shuffled schedule (any pair may be next);
`Disarm` and `RemoveState` are the two halves of `_StateCleanup.cleanup`, which
forgets its path and then removes it; `RemoveState` may remove all, fail with a part, or
stop at a file that a process left behind has taken away, which `evaluation.py:96-97`
counts as success; `WriteReport` is the summary and
`result.json`. `Command` is what both kinds of command may do: write into the state
directory, or end, by itself or at its time limit, and leave a process behind
(`stray`), because `subprocess.run` kills only the direct child. `Interrupt` is an
exception or a signal at any step; it enters the cleanup of the `finally` clause
(`Unwind`), and a second one ends that too. `state.by` records which evaluations
wrote into each condition's directory: it is how the properties tell a
condition's own state from leftovers.

### ClientRun

`EvaluationRun` treats a command as one step; `ClientRun` looks into it, for one
condition and one task. A text is the set of what it contains: the placeholders, the
prompt, the facts an oracle asks for. `ConditionAccepted` and `TaskAccepted` are the
validation, with one operator for each function of the code; `Rendered` replaces the
placeholders in the order `Order`, each in the result of the one before. `Load` accepts
or refuses and writes `mcp.json`; `StartPrepare`, `EndPrepare` and `FailPrepare` are the
prepare commands, of which one that fails blocks all runs (`Block`); `StartClient`,
`NotStarted`, `Exit` and `TimeOut` are `_run_process`. `windows` is the system the
runner is on: there `subprocess.run` reads the pipes of a killed child to their end
without a limit (`TimeOutWindows`, `Drained`), and `held` says whether a process that
the child started still has them (`Inherit`, `LetGo`). A client appends to `stream` any
lines its kind may write. At `Exit` all of it is read, and after a failure perhaps a
last, torn line; at `TimeOut` any prefix of it. `Normalized` is
`_normalize_client_output`: `Read` picks the lines that parse, `ClaudeOutput` and
`CodexOutput` choose the payload, the last total, the last message and the number of
calls. `Summarize` is the entry in `by_condition`; its median is stated by places
(`Placed`: what a sorted list has at its k-th place), so that no order has to be
constructed. Calls are lines of their own: `split` marks one that has a character in it
at which `str.splitlines` divides (U+2028 and others are legal inside JSON strings).
`told` is no variable of the program: it keeps what a client really reported, for
`MedianOfReported`. One token metric stands for all, which are treated alike.

### Bundle

`tree` and `staged` give each file its content, `Absent` or `Link`; `Edit` changes one
of them between any two reads. `Start` is `_load_profile` (`Accepted`, `Profile` with
its sorted lists), `OpenDirectory`, `ReadListed`, `CloseDirectory` the walk through the
mapped directories, `CheckRequired` the two files looked up after it, `ReadMapped` the
files mapped one by one, `ReadVendor` and `ReadRuntime` the verified files, and
`AddEntry` is `_add_entry`, through which each of them goes. `Bundled` is VERSION,
`profile.json`, the manifest and the sums on top of the entries; `CreateTemporary`,
`WriteArchive`, `Replace` are `_write_zip`, and `ReadBack` reads the file for the answer.
`Fail` is an error or an interrupt at any step, which removes the temporary file if it
can (`Fails`): the `unlink` may fail too. `Crash` is the death of the process, which does
not. `os.walk` says nothing of a directory below a mapped one that it cannot list: a build
is started with a set `unlisted` of such directories, and `OpenDirectory` passes over the
files under them (`Above`). `Key` and `Portable` stand for
`_collision_key` and `_validated_relative_path`, so that the theorems hold whatever
rules of names these implement.

## 3. Runs

| Run | Question | Result |
| --- | --- | --- |
| `store` | Two builds of differently pinned installations, a server, a repository that changes between builds and during checks: all safety properties, among them that a check misses no edit made before the call (`UsableMeansUnedited`) and that no build that is over has the lock (`LockIsGivenUp`), and the refinement of `ActiveIndex` | pass |
| `store_edited_build` | May the repository change *during* a build? | `AnswerMatchesWorkingTree` violated |
| `channel` | Two callers, cancellation, a dying child, a process that keeps its pipes, a concurrent Close | pass |
| `channel_stray` | A reply larger than the buffer, or an unasked line | `OwnAnswer` violated |
| `child` | A growing process tree, a deadline | pass |
| `child_left` | No deadline; the child exits before its descendants | `DescendantsTornDown` violated |
| `mac` | Three runs of the scripts in any order, commands that fail half way and signals at any step, a rollback whose own command fails | pass |
| `mac_signal` | Is an interrupted installation rolled back? | `InterruptRestoresFiles` violated |
| `evaluation` | Two evaluations, failing commands, a process left behind, exceptions and interrupts at any step, removals that fail | pass |
| `bundle` | Two builds for one output path, an edit, a directory that cannot be listed, errors and deaths at any step: is what is there always whole, portably named, declared, and the same for the same inputs? | pass |
| `client_run` | The example conditions and variations of them: does only the declared reach a process, is the result named for what ran, are its numbers the client's, does it end? | pass |
| `client_path` | A repository whose path has `{prompt}` in it | `PromptNotInArgv` violated |

What the violated properties mean (`PROJECT.json`, `findings`):

* `store_edited_build`: a file edited after a build's observation and restored
  after its indexing is indexed with its edited content under the manifest of the
  original; every later freshness check passes. `AnswerMatchesWorkingTree` holds when
  nothing is edited during a build, which is checked (`store`) and proved.
* `channel_stray`: a line that is left behind shifts all later answers by one.
* `child_left`: a descendant that holds the pipe keeps `Wait`, hence the kill, from
  happening; without a deadline nothing else ends it.
* `mac_signal`: after a command that succeeded, the trap sees status 0.
* `client_path`: placeholders are replaced in what was replaced before, in the order of
  a frozenset, and nobody looks into the paths. With `{prompt}` in the path of the
  repository an argument `{repo}` becomes that path and then, in some orders, the
  prompt. `PromptOnlyOnStdin` holds for all other paths, other placeholders in them
  included, which is checked (`client_run`) and proved.

Facts about the code that the models have and no property refuses:

* The check before a call drops the manifest it loads (`main.go:380`): after a rebuild
  of the same content a server goes on answering from the older generation. The
  identity of the two is the same (`AnswerHasIdentity`), only the generation differs.
* A check is five reads: around an edit made *during* it, it may combine old and new
  values that no single state had. `UsableMeansUnedited` speaks of edits made before the
  call.
* A failed installation is not undone in full, although `docs/threat-model.md:17` and
  `docs/offline-distribution.md:35` promise a rollback without exceptions. A file of
  which `cp` wrote a part before it failed stays that way (`install.sh:396-399`: the
  flag comes after the copy). A reinstallation that fails after its marketplace or
  plugin step takes away the marketplace and plugin of the *earlier* installation
  (331-332). The trap is still set while the receipt is swapped, and the rollback does
  not know the receipt: a failure there leaves the new receipt, or none. Commands of the
  rollback fail without a word. `tests/test_installers.py:502` looks at the rollback of
  a first installation only. `FailureRestores` states what does hold, with these
  exceptions named one by one.
* A tool call on a line that `str.splitlines` divides (`evaluation.py:254`) is not
  counted and does not make the telemetry unavailable; `CallsAreCounted` therefore
  leaves such lines out. A call that failed, on the other hand, makes the number of
  all calls unavailable.
* A client that has exited but left a descendant with its standard output is recorded
  as timed out: `subprocess.run` waits for the pipe. `TimeOut` has this case too.
* `oracle_passed` counts runs that failed as well, if their text passes.
* A Claude client gets its servers from `mcp_config`, which nothing looks into
  (`evaluation.py:775-787`): a `claude-baseline` with the gateway and a
  `claude-graph-gateway` without it are accepted. `NamedForWhatRan` therefore speaks of
  settings for Codex only, and of those that the validation sees: one spelled
  `--config=...` is not seen by `_config_overrides`.
* A file that vanishes while `rmtree` is at work, as a process left behind may cause,
  ends the removal with `FileNotFoundError` on Python before 3.13, and that counts as
  success (`evaluation.py:96-97`): other conditions' state and `mcp.json` stay without a
  failure. `StateIsRemoved` speaks of evaluations without such a process.
* `os.walk` has no `onerror` (`bundle.py:443`): a directory below a mapped one that
  cannot be listed makes a smaller bundle and a success. `SameInputsSameBundle` compares
  builds to which the same directories could be listed; `RequiredPresent` holds in any
  case.
* A death between `CreateTemporary` and `Replace`, or an `unlink` that fails
  (`bundle.py:719-724`), leaves the temporary file, and nothing ever removes it. No
  document promises otherwise and no property is about it.

`StateIsRemoved` has a second exception that the code forces: an interrupt *during*
the removal leaves the rest of the state, because `cleanup` has forgotten the path by
then and the second call in `finally` finds nothing to do. `OwnState` shows that
what is left is not measured later: the next evaluation refuses the directory.

Each property of a passing run has a mutant in `PROJECT.json`: a plausible bug in
the mapped code under which TLC finds the property violated. The variants stand in
the modules next to the definition they vary, marked "Faulty variant".

### Bounds

* `store`: two builds, one server, two commits, three contents (one of them not in
  the allowlist), two generations, one edit. Two builds are what the lock must
  keep apart, two generations are needed for a pointer that moves under a reader.
  A server is compared only with the store, so a second one adds nothing but
  interleavings. The one edit may come between any two reads of a check. A commit
  with its tree may be exchanged for the other (`SYMMETRY`): nothing but equality is
  asked of either. The proofs cover all other values.
* `store_edited_build`: one build process that runs again and again, two edits (away
  and back).
* `channel`: two callers and the starter, four requests, two strays: a cancelled,
  a concurrent and a later call are all in reach. Processes that keep the child's pipes
  come and go; for the channel it matters only whether there is one.
* `child`: three descendants, so that a chain of them leaves the group or not.
* `mac`: two versions, three runs (install, reinstall or fail, uninstall), one
  change by the user, one command of a rollback that fails (`MaxStuck`): such commands
  do not act on each other's things; the violation needs one run. The versions
  are symmetric: they are only ever compared for equality.
* `evaluation`: two conditions, one with two prepare commands (the first, the last
  or none fails) and an `mcp_config`, one with neither; one task repeated twice, so
  that a condition's second run finds what its first left; two evaluations, so that
  the second may meet leftovers; one process left behind, which may outlive the
  evaluation. The proofs cover all other values.
* `bundle`: two builders, because a third meets nothing that the second does not; two
  mapped directories, so that one is closed before the next is opened; a file whose name
  differs from another in case, an excluded one, one mapped by name; one directory below
  a mapped one, which can be listed or not; profiles that are public, internal, with
  runtimes, and wrong in one respect each; one edit, which is enough to make any file
  differ between two reads. The proofs cover all other values.
* `client_run`: about 100 conditions, the product's four, a legacy one and a hybrid one,
  each changed in one respect, and combinations of environment and inherited names;
  streams of at most three lines, so that a total, a message and a call come in any
  order, or one of them twice; two runs, so that a median is of two, one or no number.
  In `Order` the prompt comes last, the order in which most is replaced again, and the
  path of the repository has `{state}` in it, that of the harness `{repo}`. Both systems
  the runner may be on are initial states.
* `client_path`: the same with `{prompt}` in the path of the repository.

### Fairness

* `CbmChannel`: a Go mutex starves no goroutine (strong fairness of `Lock`); the
  steps of a goroutine are weakly fair. That the child answers what it has read, or
  dies, is an assumption: `rpc` has no limit of its own and the command line
  passes a context that never ends. A process that keeps the child's pipes has to do
  nothing, and `CallReturns` names it as the exception.
* `ChildProcess`: the gateway's goroutines run, and a context with a deadline
  ends. The child and its descendants owe nothing.
* `ClientRun`: the runner goes on, and a time limit comes to its end (`WF_vars(Runner)`):
  `subprocess.run` is always given a timeout. No client or prepare command has to exit
  or to write, and no process has to let go of a pipe: on Unix the time limit ends the
  command all the same; on Windows it does not, and `EvaluationEnds` says so.
* `IndexStore`, `MacInstaller`, `EvaluationRun` and `Bundle` have safety properties
  only. That a build comes to its end cannot be had: the gateway waits for the backend
  without a limit. What a later build depends on is the lock, and `LockIsGivenUp` is a
  safety property.

## 4. Proofs

`IndexStoreProofs`, `RegisterProofs`, `CbmChannelProofs`, `ChildProcessProofs`,
`MacInstallerProofs`, `EvaluationRunProofs`, `BundleProofs` and `ClientRunProofs` are
checked by `tlapm` for every value of the constants that satisfies the `ASSUME`s of the
modules (`StoreAssumption`, `ChannelAssumption`, `InstallerAssumption`,
`EvaluationAssumption`, `BundleAssumption`, `ClientRunAssumption`, `LinesAssumption`,
`PlainAssumption`). Every safety property of a passing run is stated by one of their
theorems.

* `IndexStoreProofs`. The safety properties are not inductive: they hold because of who
  holds the lock, which generation a holder owns, and which steps it has finished. The
  invariant `IInv` says: a process between lock and unlock holds the lock, and only it
  (`HeldOK`, `LockOK`); its generation is the newest, is not yet named by the pointer
  until the last step, and has the graph and the manifest its step promises (`BuildOK`);
  a manifest that exists records its own generation, has a whole graph and is not newer
  than the last name taken (`StoreOK`); a server's loaded generation carries its
  demanded identity and the pointer it has read names a manifest (`ServerOK`). From it
  follow `TypeCorrect`, `LockGivenUp`, `CompleteCurrent`, `ForwardActivation`,
  `ImmutableActivated`, `IdentifiedAnswers`. `MatchingAnswers` needs the assumption
  `EditsDuringBuild = FALSE` and one more invariant, that a build's files are the
  working files until it ends (`ContentOK`): the violated run shows that the assumption
  is needed. `UneditedAnswers` rests on `UneditedOK`: what was read since the last edit
  is still what the repository holds.
* `RegisterProofs`: `FilesAreRegister`, every step of `IndexStore` is a step of
  `ActiveIndex` or leaves its variables alone. The hard case is `LoadManifest`: the
  manifest named by an *older* pointer still is what it was when the pointer was
  read, because activated generations do not change.
* `CbmChannelProofs`: `OwnAnswers` and `NothingLeft`. The invariant `OwnAnswerInStep`
  is strengthened by `PipesOK`: while no stray was sent, the two pipes together
  hold the request of the one reading holder and nothing else but the
  notification; a cancelled reader, which waits with the mutex locked for the pipes to
  be let go, has closed the channel. `MutexOK` and `StartOK`
  say who is between lock and return, and where the starter is.
* `ChildProcessProofs`: `GroupEnds`, after a return the child and its group have
  ended. The invariant: from the kill on nobody of the group is alive, and only a
  member of the group or a running child can start another member.

* `MacInstallerProofs`: `FailureIsRolledBack`, `RemovalCleans`, `UserContentStays`. At a
  failure the rollback sees flags, kept copies and the disk, and the property compares
  with a disk of many steps ago. The invariant ties the two: what has a flag is the
  installation's own and, unless a copy is kept, was not there before; all else is as it
  was found (`FlagsOK`); which flags a step may find set, and that copies are kept in a
  reinstallation (`ProgressOK`); what an installation accepts to find (`FoundOK`); a
  receipt never names the user's content (`RecordOK`). A failing command spoils one
  thing at most, and that of its own step (`SpoiltIsOneThing`); `RollbackRestores`
  combines the three. For a removal, what the steps so far should have removed is gone
  or a warning was given (`DroppedOK`); `EndOK` keeps both facts after the end.
* `EvaluationRunProofs`: `ResultsAreWhole`, `StateRemoved`, `StateIsOwn`. A result
  is read long after what it speaks of, so the invariant carries the facts from
  step to step: a condition that is neither pending nor failed, once no command is
  due, has run all its prepare commands (`StepsOK`); a pair is in the schedule or has
  its entry, blocked exactly if its preparation failed (`PairsOK`); after the
  preparation no condition is pending (`PhasesOK`); a result was written from
  these records and they have not changed since (`ResultOK`). `StateOK` and `FlowOK`
  say what the state directory may hold at each stage, and that until the removal
  begins the cleanup is armed; a removal that says "succeeded" removed everything
  unless a process was left behind.

* `BundleProofs`: the properties of the published bundle speak of the output path long
  after the build that wrote it is gone, so the invariant has two halves. What a build
  holds (`Holds`): its entries are portable, of different keys, none under a generated
  name; while the vendor files are read, exactly those before `at` are in, with the
  declared digests, and so on for the runtime files, the gateways among which were
  compared with the fixtures. From it `PackedSound` derives that what would be packed is
  sound; a temporary file is then absent, partial or that bundle (`Temporary`), the
  output is sound or absent, and an answer is its own (`Answer`). An edit changes no
  entry that was read, which is why the theorems need no quiet during a build.
  `BundlesAreComplete` and `BundlesAreReproducible` need to know what a build has taken,
  not only what it may hold. `Collected` (theorem `Gathering`) says it for every stage:
  the entries from the repository are those of the directories already walked, of the
  listing so far and of the files mapped one by one, as the repository was at the start,
  less what lies in directories that could not be listed, unless the build was
  disturbed; no two vendor files so far have one target; what is generated is the
  runtime manifest and nothing else. Two builds from the same files then hold the same
  entries, and what is left is that the lists of their profiles are the same after
  sorting: `SortedUnique`, two lists without repetition and with the same elements have
  one sorted form. `Sorted` puts at a place the element that so many others come before,
  so the proof needs no recursion: the number of elements before an element does not
  depend on the list (`Rank` is injective, as the order of strings is).
* `ClientRunProofs`: first `PromptStaysOff`, `DeclaredEnvironment`, `NamedRight`. A
  process is only ever started under an accepted condition, with what that condition
  renders to (`Launched`). That the prompt stays off is a lemma about four replacements
  in any order: a text without prompt and `{prompt}` stays so whatever else is brought
  in, because no path brings these in (`PlainPaths`, the premise of the property); paths
  may have the other placeholders in them, which are replaced again. That two names
  cannot clash follows from the four disjoint sources of names, each distinct in itself.
  Then `CallsCounted`, `PassesOnAnswer`, `MedianIsMiddle`, from a second invariant,
  `Recorded` (theorem `RunsAreRecorded`): every entry is of its type, `told` has the
  tokens of the entries, and the last entry is what `Normalized` makes of a part of the
  stream, which agrees with it line by line and may end in a torn line (`Part`); all of
  the stream if the client succeeded. So a call that was not counted lies after the part
  that was read, behind the turn that made the count available (`CallsCountedWhen`); and
  the text that was judged is the last one in that part (`TextJudged`), of which the
  oracle found something because an accepted task requires something. The median is a
  fact of arithmetic (`MedianMiddle`) over two lemmas that replace the induction: a
  nonempty set of naturals has a least element, hence a finite function a largest value
  (`Largest`), and there is a value at every place of the sorted list (`PlacedExists`).

`TypeOK` of `CbmChannel`, `ChildProcess` and `EvaluationRun` is proved and not run.

Only model-checked: liveness (`CallReturns`, `ReturnsUnlessEscaped`,
`EvaluationEnds`), which the prover does not reach. `ENABLED`, induction over data and
RECURSIVE operators are out of its reach too; no module uses them.

## 5. Assumptions of the models

* The clock that names generations increases; a rename is atomic and is not lost.
* `IndexStore`: the state directory is written by builds only; a hash identifies a
  content.
* `CbmChannel`: the child answers in order, one line for a request unless it strays.
* `MacInstaller`: the user changes things between runs, not during one. Every command
  may fail, and one that fails has done nothing, or for the two files and what a client
  is asked to do, a part or all of its work; moves stay on one file system and are done
  or not done; a version directory counts as there while any of it is. Edits of the
  policy inside a version directory, `--purge-graph-state` and bundle verification are
  left out; an uninstallation leaves version directories. The clients are external: a
  second registration of a name is refused, and a client whose `mcp get` fails passes
  the collision check.
* `EvaluationRun`: a command is one step, and writes only into the state directory of
  its own condition; a process left behind is never known to end, may recreate a
  directory that was removed, and is the only one that takes files away during a
  removal; between evaluations the user may empty the output directory; at most two
  exceptions meet one evaluation, because the second ends the `finally` clause.
* `ClientRun`: the form of fields (types, patterns, required keys) is taken as given;
  redaction and the names of artifacts, and the counts by tool are left out; the host's
  environment does not change during a run. Of the events of Claude only a result has a
  text and tokens (`LinesAssumption`): the code would take the text of another event as
  the final one if there is no result. The prompt's own words are not in a path, a
  condition or the host's environment to begin with (`PlainAssumption`); the code checks
  none of this, and a property of where the prompt goes could not be stated otherwise.
* `Bundle`: a mapped directory is listed at once, when the walk enters it, and which
  directories below it cannot be listed does not change during a build; a file is read
  at once; a digest identifies a content; the temporary file has come into being
  together with its name. The files that a bundle must have lie in mapped directories,
  and the order of strings is a strict one (`BundleAssumption`). A path that is the
  directory of another path is not a collision in the code and not one in the model:
  extraction of such a bundle fails.

## 6. Plan

Written, in this order: `IndexStore` (the core), `ActiveIndex`, `CbmChannel`,
`ChildProcess`, `MacInstaller`, `EvaluationRun`, `Bundle`, `ClientRun`, and the proofs of
all of them. Next:

1. Receipt history in `MacInstaller`: what a reinstallation with fewer options
   forgets, and whether a preserved runtime can be installed over again.
2. `WindowsInstaller`: the try/catch rollback that looks at `$Reinstall` only; the
   job object of `process_windows.go` as a variant of `ChildProcess`.
3. `ToolServer`: path normalisation, argument validation and output limit as
   operators against reference definitions.
4. A clock that moves backwards and renames that are lost, in `IndexStore`.
5. The composition of `EvaluationRun` and `ClientRun`: a command of the first as the
   processes of the second.
