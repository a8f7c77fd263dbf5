----------------------------- MODULE ClientRun -----------------------------
(***************************************************************************)
(* codegraph_harness.evaluation: the repetitions of one task under one     *)
(* condition, from the condition in its JSON file to the medians.          *)
(*                                                                         *)
(* A condition is accepted or refused.  An accepted one is rendered into   *)
(* the arguments and environment of a client process, which gets the       *)
(* prompt on its standard input and writes JSON events, line by line,      *)
(* until it exits or its time is over.  What was read of these lines is    *)
(* normalised into tool calls, tokens and a final text, and the final text *)
(* is judged by the oracle of the task.                                    *)
(*                                                                         *)
(* A text is the set of what it contains, as far as anything depends on    *)
(* it: placeholders, the prompt, facts that an oracle asks for.            *)
(***************************************************************************)
EXTENDS Integers, Sequences, FiniteSets

CONSTANTS
  Conditions,        \* as they may stand in the JSON file
  Tasks,             \* as they may stand in the JSON file
  Prompt,            \* what a task's prompt is recognised by
  Paths,             \* the texts of the repository, state and harness paths
  Order,             \* the order in which the frozenset _PLACEHOLDERS iterates
  Folded,            \* str.casefold, of names of environment variables
  Minimum, Profile,  \* _MINIMUM_ENVIRONMENT_NAMES; the folded profile names
  Host,              \* names in os.environ
  Lines,             \* what each client may write in one line
  MaxLines,          \* bound on the lines of one process
  Repetitions,
  None

Placeholders == {"repo", "state", "prompt", "harness"}

ASSUME ClientRunAssumption ==
  /\ DOMAIN Paths = Placeholders \ {"prompt"}
  /\ Order \in [1..4 -> Placeholders]
  /\ \A i, j \in 1..4 : Order[i] = Order[j] => i = j
  /\ \A m, n \in Minimum : Folded[m] = Folded[n] => m = n
  /\ \A n \in Minimum : Folded[n] \notin Profile
  /\ Repetitions \in Nat \ {0} /\ MaxLines \in Nat
  /\ None \notin Int \cup BOOLEAN
  /\ None \notin {<<client, variant>> : client \in {"claude", "codex"},
                                        variant \in {"baseline", "graph-gateway"}}

\* What the clients write: of Claude's events only a result has a text and tokens, and
\* tokens are whole numbers if they are there.  The code takes what an event has.
ASSUME LinesAssumption ==
  /\ \A client \in {"claude", "codex"} : \A line \in Lines[client] : line.split \in BOOLEAN
  /\ \A line \in Lines["codex"] :
       /\ line.kind \in {"call", "message", "completed"}
       /\ line.kind = "completed" => line.tokens \in Int \cup {None}
  /\ \A line \in Lines["claude"] :
       /\ line.kind \in {"event", "result"}
       /\ line.tokens \in Int \cup {None}
       /\ line.kind = "event" => line.tokens = None /\ line.text = None

\* The prompt's own words are not in a path, a condition or the host's environment to
\* begin with.  The code checks none of this.
ASSUME PlainAssumption ==
  /\ \A p \in DOMAIN Paths : Prompt \notin Paths[p]
  /\ Prompt \notin Placeholders \cup Host
  /\ \A c \in Conditions :
       /\ Prompt \notin c.command.text
       /\ c.mcp # None => Prompt \notin c.mcp
       /\ \A i \in DOMAIN c.prepare : Prompt \notin c.prepare[i]
       /\ \A n \in DOMAIN c.environment : Prompt \notin c.environment[n]

VARIABLES
  pc,        \* "load", "refused", "prepare", "run", "client", "drain" or "done"
  windows,   \* whether the runner is on Windows
  condition, task,
  mcp,       \* the text in mcp.json
  step,      \* prepare commands that have ended well
  child,     \* the process that was started: phase, arguments, environment, input
  held,      \* whether a process that the child started has the child's pipes
  stream,    \* the lines the client wrote
  runs,      \* the entries in `runs`
  told,      \* of each run: the tokens in the last total that was read
  summary    \* the entry of the condition in `by_condition`

vars == <<pc, windows, condition, task, mcp, step, child, held, stream, runs, told, summary>>

given == <<windows, condition, task>>

-----------------------------------------------------------------------------
(* Texts with placeholders.                                                *)

\* "unknown" stands for every other field in braces.
ValidTemplate(text) == "unknown" \notin text

Replaced(text, p, values) ==
  IF p \in text THEN (text \ {p}) \cup values[p] ELSE text

\* The replacements are made one after the other in what was replaced already.
Rendered(text, values) ==
  Replaced(Replaced(Replaced(Replaced(text,
    Order[1], values), Order[2], values), Order[3], values), Order[4], values)

\* Preparation and mcp.json are rendered with an empty prompt.
Replacements(prompt) ==
  [p \in Placeholders |-> IF p = "prompt" THEN prompt ELSE Paths[p]]

-----------------------------------------------------------------------------
(* Which conditions and tasks are accepted.                                *)

Expected(id) ==
  CASE id = "claude-baseline" -> <<"claude", "baseline">>
    [] id = "claude-graph-gateway" -> <<"claude", "graph-gateway">>
    [] id = "codex-baseline" -> <<"codex", "baseline">>
    [] id = "codex-graph-gateway" -> <<"codex", "graph-gateway">>
    [] OTHER -> None

Hybrid(id) == id \in {"graphify-hybrid", "codebase-memory-hybrid"}

Legacy == {"baseline", "graphify-native", "codebase-memory-native",
           "graphify-hybrid", "codebase-memory-hybrid"}

Client(c) ==
  IF c.client # None THEN c.client
  ELSE IF Expected(c.id) # None THEN Expected(c.id)[1] ELSE "claude"

Variant(c) ==
  IF c.variant # None THEN c.variant
  ELSE IF Expected(c.id) # None THEN Expected(c.id)[2] ELSE "legacy-candidate"

\* Faulty variant of VariantAccepted: a product's id is not compared with the
\* client and variant.
AnyVariant(c) ==
  /\ Client(c) \in {"claude", "codex"}
  /\ Variant(c) \in {"baseline", "graph-gateway", "legacy-candidate"}

VariantAccepted(c) ==
  /\ Client(c) \in {"claude", "codex"}
  /\ Variant(c) \in {"baseline", "graph-gateway", "legacy-candidate"}
  /\ Expected(c.id) # None => Expected(c.id) = <<Client(c), Variant(c)>>

\* `bare` stands for the flags that a client must have: bare, strict and not
\* persistent, or ephemeral, strict and reading the prompt from "-".
ClaudeAccepted(c) ==
  IF c.command.executable # "claude" THEN Variant(c) = "legacy-candidate"
  ELSE /\ c.command.bare
       /\ c.command.output \in {"json", "stream-json"}
       /\ c.command.output = "stream-json" => "--verbose" \in c.command.flags
       /\ {"--allowedTools", "--disallowedTools", "--permission-mode", "--tools"}
            \cap c.command.flags = {}
       /\ IF Hybrid(c.id)
            THEN {"--plugin-dir", "--append-system-prompt-file"} \subseteq c.command.flags
            ELSE {"--plugin-dir", "--append-system-prompt-file"} \cap c.command.flags = {}

\* `servers` are the settings under mcp_servers.company_codegraph that follow a
\* -c or --config; "command" names codegraph-gateway, "other command" does not.
Gateway == {"enabled_tools", "required", "approve", "command", "args"}

CodexAccepted(c) ==
  /\ c.command.executable = "codex" /\ c.command.bare
  /\ "read-only" \in c.command.flags
  /\ IF Variant(c) = "baseline" THEN c.command.servers = {}
     ELSE /\ Gateway \subseteq c.command.servers
          /\ "other command" \notin c.command.servers

CommandAccepted(c) ==
  /\ ValidTemplate(c.command.text) /\ "prompt" \notin c.command.text
  /\ IF Client(c) = "codex" THEN CodexAccepted(c) ELSE ClaudeAccepted(c)

\* Nothing is asked of an mcp_config but its texts: it may register any server.
McpAccepted(c) ==
  c.mcp # None => /\ Client(c) = "claude"
                  /\ ValidTemplate(c.mcp) /\ "prompt" \notin c.mcp

PrepareAccepted(c) ==
  \A i \in DOMAIN c.prepare : ValidTemplate(c.prepare[i]) /\ "prompt" \notin c.prepare[i]

\* `foreign`: the command or mcp_config names another graph product.
ProductAccepted(c) == Variant(c) = "graph-gateway" => ~c.foreign

\* Faulty variant of TextsAccepted: it does not look into environment values.
ArgumentsAccepted(c) == CommandAccepted(c) /\ PrepareAccepted(c) /\ McpAccepted(c)

TextsAccepted(c) ==
  /\ CommandAccepted(c) /\ PrepareAccepted(c) /\ McpAccepted(c)
  /\ \A n \in DOMAIN c.environment :
       ValidTemplate(c.environment[n]) /\ "prompt" \notin c.environment[n]

FoldedNames(names) == {Folded[n] : n \in names}

DistinctNames(names) == \A m, n \in names : Folded[m] = Folded[n] => m = n

Reserved == Profile \cup FoldedNames(Minimum)

InheritAccepted(c, names) ==
  /\ DistinctNames(names)
  /\ FoldedNames(names) \cap Reserved = {}
  /\ FoldedNames(names) \cap FoldedNames(DOMAIN c.environment) = {}

\* Faulty variant of NamesAccepted: the spelling of a reserved name matters.
SpelledNamesAccepted(c) ==
  /\ DistinctNames(DOMAIN c.environment)
  /\ DOMAIN c.environment \cap (Profile \cup Minimum) = {}
  /\ InheritAccepted(c, c.prepareNames) /\ InheritAccepted(c, c.commandNames)

NamesAccepted(c) ==
  /\ DistinctNames(DOMAIN c.environment)
  /\ FoldedNames(DOMAIN c.environment) \cap Reserved = {}
  /\ InheritAccepted(c, c.prepareNames) /\ InheritAccepted(c, c.commandNames)

ConditionAccepted(c) ==
  /\ c.id \in Legacy \/ Expected(c.id) # None
  /\ c.allowed = {"public-fixture"} /\ c.timeout > 0
  /\ VariantAccepted(c) /\ TextsAccepted(c) /\ NamesAccepted(c) /\ ProductAccepted(c)

\* Faulty variant of TaskAccepted: an oracle may require nothing.
AnyOracle(t) == t.oracle # None => t.oracle.required \cup t.oracle.forbidden # {}

TaskAccepted(t) == t.oracle # None => t.oracle.required # {}

-----------------------------------------------------------------------------
(* The processes.                                                          *)

Inherited(c, phase) == IF phase = "prepare" THEN c.prepareNames ELSE c.commandNames

\* The host's value of name n is the text {n}.
Environment(c, phase, values) ==
  LET own == DOMAIN c.environment
      host == (Minimum \cup Inherited(c, phase)) \cap Host
  IN [n \in own \cup host |-> IF n \in own THEN Rendered(c.environment[n], values) ELSE {n}]

Process(phase, text, prompt, input) ==
  LET values == Replacements(prompt)
  IN [phase |-> phase, text |-> Rendered(text, values),
      environment |-> Environment(condition, phase, values), input |-> input]

Init ==
  /\ pc = "load"
  /\ condition \in Conditions /\ task \in Tasks
  /\ windows \in BOOLEAN
  /\ mcp = None /\ step = 0 /\ child = None /\ held = FALSE
  /\ stream = <<>> /\ runs = <<>> /\ told = <<>>
  /\ summary = None

Load ==
  /\ pc = "load"
  /\ IF ConditionAccepted(condition) /\ TaskAccepted(task)
       THEN /\ pc' = "prepare"
            /\ mcp' = IF condition.mcp = None THEN None
                      ELSE Rendered(condition.mcp, Replacements({}))
       ELSE pc' = "refused" /\ UNCHANGED mcp
  /\ UNCHANGED <<given, step, child, held, stream, runs, told, summary>>

StartPrepare ==
  /\ pc = "prepare" /\ child = None /\ step + 1 \in DOMAIN condition.prepare
  /\ child' = Process("prepare", condition.prepare[step + 1], {}, None)
  /\ UNCHANGED <<pc, given, mcp, step, held, stream, runs, told, summary>>

\* communicate comes to its end with the child and everything that has its pipes.
EndPrepare ==
  /\ pc = "prepare" /\ child # None /\ ~held
  /\ child' = None /\ step' = step + 1
  /\ UNCHANGED <<pc, given, mcp, held, stream, runs, told, summary>>

Prepared ==
  /\ pc = "prepare" /\ child = None /\ step + 1 \notin DOMAIN condition.prepare
  /\ pc' = "run"
  /\ UNCHANGED <<given, mcp, step, child, held, stream, runs, told, summary>>

StartClient ==
  /\ pc = "run" /\ Len(runs) < Repetitions
  /\ child' = Process("command", condition.command.text, task.prompt, task.prompt)
  /\ stream' = <<>>
  /\ pc' = "client"
  /\ UNCHANGED <<given, mcp, step, held, runs, told, summary>>

\* The client writes a line, or a process that has its pipe.
WriteLine(line) ==
  /\ pc = "client" \/ (pc = "drain" /\ held /\ child.phase = "command")
  /\ Len(stream) < MaxLines
  /\ stream' = Append(stream, line)
  /\ UNCHANGED <<pc, given, mcp, step, child, held, runs, told, summary>>

\* The child leaves its pipes to a process of its own, and that process goes.
Inherit ==
  /\ pc \in {"prepare", "client"} /\ child # None
  /\ held' = TRUE
  /\ UNCHANGED <<pc, given, mcp, step, child, stream, runs, told, summary>>

LetGo ==
  /\ held /\ held' = FALSE
  /\ UNCHANGED <<pc, given, mcp, step, child, stream, runs, told, summary>>

-----------------------------------------------------------------------------
(* What is made of the output.  A line that was cut off is Torn; `split`   *)
(* marks a line with a character inside at which str.splitlines divides.   *)

Torn == [kind |-> "torn"]

\* Claude's output is first read as one JSON value.
Readable(client, output, i) ==
  /\ output[i].kind # "torn"
  /\ ~output[i].split \/ (client = "claude" /\ Len(output) = 1)

Read(client, output) == {i \in DOMAIN output : Readable(client, output, i)}

Having(output, places, kind) == {i \in places : output[i].kind = kind}

Latest(places) == CHOOSE i \in places : \A j \in places : j <= i

\* The last result, or the last event if there is none.
ClaudePayload(output) ==
  LET read == Read("claude", output)
      results == Having(output, read, "result")
  IN output[Latest(IF results # {} THEN results ELSE read)]

\* Faulty variant of Metric: what is not reported counts as zero.
ZeroIfMissing(value) == IF value # None /\ value >= 0 THEN value ELSE 0

Metric(value) == IF value # None /\ value >= 0 THEN value ELSE None

ClaudeOutput(output) ==
  LET empty == Read("claude", output) = {}
  IN [calls |-> None,
      tokens |-> IF empty THEN None ELSE Metric(ClaudePayload(output).tokens),
      text |-> IF empty THEN None ELSE ClaudePayload(output).text]

CodexRead(output, kind) == Having(output, Read("codex", output), kind)

\* Faulty variant of Counted: a turn need not have ended.
CountsOpenTurns(output) == \A i \in CodexRead(output, "call") : output[i].sound

\* The telemetry is available: a turn has ended and every call is well formed.
Counted(output) ==
  /\ CodexRead(output, "completed") # {}
  /\ \A i \in CodexRead(output, "call") : output[i].sound

CodexOutput(output) ==
  LET totals == CodexRead(output, "completed")
      messages == CodexRead(output, "message")
  IN [calls |-> IF Counted(output) THEN Cardinality(CodexRead(output, "call")) ELSE None,
      tokens |-> Metric(IF totals = {} THEN None ELSE output[Latest(totals)].tokens),
      text |-> IF messages = {} THEN None ELSE output[Latest(messages)].text]

Normalized(client, output) ==
  IF client = "codex" THEN CodexOutput(output) ELSE ClaudeOutput(output)

OraclePassed(oracle, text) ==
  IF oracle = None THEN None
  ELSE /\ text # None
       /\ oracle.required \subseteq text /\ oracle.forbidden \cap text = {}

Entry(status, output) ==
  LET out == Normalized(Client(condition), output)
  IN [status |-> status, calls |-> out.calls, tokens |-> out.tokens,
      passed |-> OraclePassed(task.oracle, out.text)]

BlockedEntry ==
  [status |-> "blocked", calls |-> None, tokens |-> None,
   passed |-> OraclePassed(task.oracle, None)]

\* The tokens in the last total that could be read, if they are a number.
Told(client, output) ==
  LET totals == {i \in DOMAIN output :
                   /\ output[i].kind \in {"completed", "result"}
                   /\ ~output[i].split \/ (client = "claude" /\ Len(output) = 1)}
      tokens == output[Latest(totals)].tokens
  IN IF totals = {} THEN None
     ELSE IF tokens # None /\ tokens >= 0 THEN tokens ELSE None

Finish(status, output) ==
  /\ child' = None /\ held' = FALSE /\ pc' = "run"
  /\ runs' = Append(runs, Entry(status, output))
  /\ told' = Append(told, Told(Client(condition), output))
  /\ UNCHANGED <<given, mcp, step, summary>>

\* The command could not be started.
NotStarted ==
  /\ pc = "run" /\ Len(runs) < Repetitions
  /\ stream' = <<>>
  /\ Finish("failed", <<>>)

\* A client that fails may have stopped in the middle of a line.
Exit ==
  /\ pc = "client" /\ ~held /\ UNCHANGED stream
  /\ \/ Finish("succeeded", stream)
     \/ Finish("failed", stream)
     \/ Finish("failed", Append(stream, Torn))

\* Faulty variant of TimeOut: the limit is one for a client that writes nothing.
TimeOutIfSilent ==
  /\ pc = "client" /\ ~windows /\ UNCHANGED stream
  /\ stream = <<>>
  /\ Finish("failed", <<>>)

\* What was not read when the time was over is lost.
TimeOut ==
  /\ pc = "client" /\ ~windows /\ UNCHANGED stream
  /\ \E n \in 0..Len(stream) :
       \/ Finish("failed", SubSeq(stream, 1, n))
       \/ Finish("failed", Append(SubSeq(stream, 1, n), Torn))

\* A prepare command failed: every repetition is recorded as blocked.
Block ==
  /\ child' = None /\ held' = FALSE /\ pc' = "run"
  /\ runs' = [i \in 1..Repetitions |-> BlockedEntry]
  /\ told' = [i \in 1..Repetitions |-> None]
  /\ UNCHANGED <<given, mcp, step, stream, summary>>

\* It exited with a status other than 0, or its time was over.
FailPrepare ==
  /\ pc = "prepare" /\ child # None /\ ~(windows /\ held)
  /\ Block

\* On Windows, subprocess.run kills the child when its time is over and reads its
\* pipes to their end, without a limit.
TimeOutWindows ==
  /\ windows /\ pc \in {"prepare", "client"} /\ child # None
  /\ pc' = "drain"
  /\ UNCHANGED <<given, mcp, step, child, held, stream, runs, told, summary>>

Drained ==
  /\ pc = "drain" /\ ~held
  /\ \/ child.phase = "prepare" /\ Block
     \/ /\ child.phase = "command" /\ UNCHANGED stream
        /\ Finish("failed", stream) \/ Finish("failed", Append(stream, Torn))

-----------------------------------------------------------------------------
(* The summary of the condition.                                           *)

\* What sorted(values) has at its k-th place: fewer than k values are smaller, and k or
\* more are not greater.
Placed(values, k) ==
  CHOOSE v \in {values[i] : i \in DOMAIN values} :
    /\ Cardinality({i \in DOMAIN values : values[i] < v}) < k
    /\ k <= Cardinality({i \in DOMAIN values : values[i] <= v})

\* Twice statistics.median, which is the mean of the two in the middle.
TwiceMedian(values) ==
  LET n == Cardinality(DOMAIN values)
  IN Placed(values, (n + 1) \div 2) + Placed(values, n \div 2 + 1)

Summarize ==
  /\ pc = "run" /\ Len(runs) = Repetitions
  /\ pc' = "done"
  /\ LET reported == {i \in DOMAIN runs : runs[i].tokens # None}
         values == [i \in reported |-> runs[i].tokens]
     IN summary' =
          [succeeded |-> Cardinality({i \in DOMAIN runs : runs[i].status = "succeeded"}),
           passed |-> Cardinality({i \in DOMAIN runs : runs[i].passed = TRUE}),
           observed |-> Cardinality({i \in DOMAIN runs : runs[i].calls # None}),
           twiceMedian |-> IF reported = {} THEN None ELSE TwiceMedian(values)]
  /\ UNCHANGED <<given, mcp, step, child, held, stream, runs, told>>

Runner ==
  \/ Load \/ StartPrepare \/ FailPrepare \/ Prepared
  \/ StartClient \/ NotStarted \/ TimeOut \/ TimeOutWindows \/ Drained
  \/ Summarize

Next ==
  \/ Runner
  \/ EndPrepare
  \/ \E line \in Lines[Client(condition)] : WriteLine(line)
  \/ Exit
  \/ Inherit \/ LetGo

\* Fairness: the runner goes on, and a time limit comes to its end.  No process
\* has to exit, to write or to let go of a pipe.
Spec == Init /\ [][Next]_vars /\ WF_vars(Runner)

-----------------------------------------------------------------------------
\* A text is a set, so "contains the prompt" is membership.
NoPrompt(text) == Prompt \notin text

\* The task prompt is sent on stdin, not in argv, whatever the paths are.
PromptNotInArgv == child # None => NoPrompt(child.text)

\* No path has the prompt's placeholder in it, though it may have any other.
PlainPaths == \A p \in DOMAIN Paths : "prompt" \notin Paths[p]

\* The prompt reaches a client on its standard input and nowhere else: not in an
\* argument, which other users can list, not in the environment and not in the
\* configuration file, whatever order the placeholders are replaced in and whatever
\* the replacements bring in, as long as no path has the prompt's placeholder in it.
PromptOnlyOnStdin ==
  PlainPaths =>
    /\ PromptNotInArgv
    /\ mcp # None => NoPrompt(mcp)
    /\ child # None =>
         /\ \A n \in DOMAIN child.environment : NoPrompt(child.environment[n])
         /\ child.phase = "prepare" => child.input = None

\* No two names of a child's environment are the same on a system that ignores
\* case, none is a user profile directory, the minimum has the host's values,
\* and a name inherited for the one phase does not reach the other.
EnvironmentAsDeclared ==
  child # None =>
    /\ DistinctNames(DOMAIN child.environment)
    /\ FoldedNames(DOMAIN child.environment) \cap Profile = {}
    /\ \A n \in Minimum \cap Host : child.environment[n] = {n}
    /\ \A n \in DOMAIN child.environment \ (Minimum \cup DOMAIN condition.environment) :
         n \in Inherited(condition, child.phase)

\* What a result calls a product condition ran the client of that name, and a graph
\* condition names no other graph product.  Codex ran without any setting of the gateway
\* in its baseline, and in its graph condition with all of them, for the one gateway.
\* Of Claude no more is known: the gateway is registered in mcp_config, which is not
\* looked into, so that a baseline may have it and a graph condition may lack it.
NamedForWhatRan ==
  child # None /\ child.phase = "command" =>
    /\ condition.id \in {"codex-baseline", "codex-graph-gateway"} =>
         condition.command.executable = "codex"
    /\ condition.id \in {"claude-baseline", "claude-graph-gateway"} =>
         condition.command.executable = "claude"
    /\ condition.id = "codex-baseline" => condition.command.servers = {}
    /\ condition.id = "codex-graph-gateway" =>
         condition.command.servers \cap (Gateway \cup {"other command"}) = Gateway
    /\ condition.id \in {"claude-graph-gateway", "codex-graph-gateway"} => ~condition.foreign

\* The lines of the run that ended last.
Ended == pc = "run" /\ runs # <<>> /\ runs[1].status # "blocked"

Last == runs[Len(runs)]

\* A number of tool calls is the number that the client made, or less only by
\* calls in split lines or by those of a later turn that was cut off: a client
\* that was stopped in its first turn has no number of calls.
CallsAreCounted ==
  Ended /\ Last.calls # None =>
    LET made == {i \in Having(stream, DOMAIN stream, "call") : ~stream[i].split}
        ends == Having(stream, DOMAIN stream, "completed")
    IN /\ Last.calls <= Cardinality(made)
       /\ \/ Last.calls = Cardinality(made)
          \/ Last.status = "failed" /\ \E i \in ends : i < Len(stream)

\* The places of the lines that give a text.
Texts(output) == {i \in DOMAIN output : output[i].kind \in {"message", "result"}}

\* An oracle passes only on one text that the client gave whole, which holds
\* something the oracle asks for and, if the client succeeded, is the last one
\* it gave on one line: an answer that was replaced or never came passes none.
PassedOnTheAnswer ==
  Ended /\ Last.passed = TRUE =>
    \E i \in Texts(stream) :
      /\ stream[i].text # None
      /\ task.oracle.required \cap stream[i].text # {}
      /\ task.oracle.required \subseteq stream[i].text
      /\ task.oracle.forbidden \cap stream[i].text = {}
      /\ Last.status = "succeeded" =>
           \A j \in Texts(stream) : j > i => stream[j].split

\* A killed child's pipes stay open.
Stuck == pc = "drain" /\ held

\* An evaluation ends, even if no client and no prepare command does by itself; only on
\* Windows it may wait for ever, for a process that the killed child started.
EvaluationEnds == <>(pc \in {"refused", "done"}) \/ <>[](windows /\ Stuck)

\* The median of tokens is the middle of the numbers that clients reported: a
\* run without one counts neither as zero nor at all.
MedianOfReported ==
  pc = "done" =>
    LET reported == {i \in DOMAIN told : told[i] # None}
        m == summary.twiceMedian
    IN IF reported = {} THEN m = None
       ELSE /\ m # None
            /\ 2 * Cardinality({i \in reported : 2 * told[i] < m}) <= Cardinality(reported)
            /\ 2 * Cardinality({i \in reported : 2 * told[i] > m}) <= Cardinality(reported)

=============================================================================
