---------------------------- MODULE MCClientRun ----------------------------
(* The example conditions of the repository and variations of them, each in *)
(* one respect.                                                             *)
EXTENDS ClientRun, TLC

\* A path may have a placeholder in it, which is replaced again or not.
MCPaths == [repo |-> {"/repo", "state"}, state |-> {"/state"}, harness |-> {"/harness", "repo"}]
MCPromptPaths == [MCPaths EXCEPT !.repo = {"/repo", "prompt"}]
\* The prompt comes last: what a replacement brought in is replaced again.
MCOrder == <<"repo", "state", "harness", "prompt">>

MCNames == {"PATH", "Path", "HOME", "Home", "TOKEN", "Token", "KEY"}
MCFolded ==
  [n \in MCNames |-> CASE n \in {"PATH", "Path"} -> "path"
                       [] n \in {"HOME", "Home"} -> "home"
                       [] n \in {"TOKEN", "Token"} -> "token"
                       [] OTHER -> "key"]

Plain(id, command) ==
  [id |-> id, client |-> None, variant |-> None, allowed |-> {"public-fixture"},
   timeout |-> 900, command |-> command, prepare |-> <<>>, mcp |-> None,
   foreign |-> FALSE, environment |-> <<>>, prepareNames |-> {}, commandNames |-> {}]

ClaudeCommand ==
  [executable |-> "claude", bare |-> TRUE, output |-> "stream-json",
   flags |-> {"--verbose"}, servers |-> {}, text |-> {"state"}]
CodexCommand ==
  [executable |-> "codex", bare |-> TRUE, output |-> "jsonl",
   flags |-> {"read-only"}, servers |-> {}, text |-> {"repo"}]

ClaudeGraph ==
  [Plain("claude-graph-gateway", ClaudeCommand) EXCEPT
     !.mcp = {"repo", "state", "company_codegraph"}]
CodexBaseline == Plain("codex-baseline", CodexCommand)
CodexGraph ==
  [Plain("codex-graph-gateway", CodexCommand) EXCEPT
     !.command.servers = Gateway]
ClaudeNative ==
  [Plain("codebase-memory-native", ClaudeCommand) EXCEPT
     !.mcp = {"harness"}, !.foreign = TRUE, !.prepare = <<{"repo"}, {"state"}>>]

Commands ==
  {[ClaudeCommand EXCEPT !.output = "text"], [ClaudeCommand EXCEPT !.flags = {}],
   [ClaudeCommand EXCEPT !.flags = {"--verbose", "--tools"}],
   [CodexCommand EXCEPT !.servers = Gateway],
   [CodexCommand EXCEPT !.servers = Gateway \ {"required"}],
   [CodexCommand EXCEPT !.servers = Gateway \cup {"other command"}],
   [CodexCommand EXCEPT !.flags = {}], [CodexCommand EXCEPT !.text = {"prompt"}],
   [ClaudeCommand EXCEPT !.bare = FALSE], [ClaudeCommand EXCEPT !.text = {"unknown"}],
   [ClaudeCommand EXCEPT !.executable = "sh"],
   [ClaudeCommand EXCEPT !.flags = {"--verbose", "--plugin-dir", "--append-system-prompt-file"}]}

Environments ==
  {"KEY" :> {"repo"}, "KEY" :> {"prompt"}, "Path" :> {}, "Home" :> {},
   "TOKEN" :> {} @@ "Token" :> {}, "TOKEN" :> {"state"}}

MCConditions ==
  {ClaudeGraph, CodexBaseline, CodexGraph, ClaudeNative,
   Plain("claude-baseline", ClaudeCommand), Plain("unheard-of", ClaudeCommand),
   [Plain("claude-baseline", ClaudeCommand) EXCEPT !.mcp = ClaudeGraph.mcp],
   [ClaudeGraph EXCEPT !.mcp = None],
   [CodexBaseline EXCEPT !.variant = "graph-gateway", !.command.servers = Gateway],
   [CodexBaseline EXCEPT !.client = "claude", !.command = ClaudeCommand],
   [CodexGraph EXCEPT !.foreign = TRUE], [CodexGraph EXCEPT !.mcp = {}],
   [ClaudeGraph EXCEPT !.mcp = {"prompt"}], [ClaudeNative EXCEPT !.prepare = <<{"prompt"}>>],
   [CodexGraph EXCEPT !.allowed = {"company-source"}], [CodexGraph EXCEPT !.timeout = 0],
   [ClaudeNative EXCEPT !.command.executable = "sh"]}
  \cup {[CodexBaseline EXCEPT !.command = c] : c \in Commands}
  \cup {[CodexGraph EXCEPT !.command = c] : c \in Commands}
  \cup {[ClaudeGraph EXCEPT !.command = c] : c \in Commands}
  \cup {[Plain("graphify-hybrid", ClaudeCommand) EXCEPT !.command.flags = f] :
          f \in {{"--verbose"}, {"--verbose", "--plugin-dir", "--append-system-prompt-file"}}}
  \cup {[ClaudeNative EXCEPT !.environment = e, !.prepareNames = p, !.commandNames = q] :
          e \in Environments, p \in {{}, {"KEY"}}, q \in {{}, {"Token"}, {"HOME"}, {"PATH"}}}

Oracle == [required |-> {"yes"}, forbidden |-> {"no"}]
MCTasks ==
  {[prompt |-> {Prompt, "repo"}, oracle |-> Oracle],
   [prompt |-> {Prompt}, oracle |-> [required |-> {}, forbidden |-> {"no"}]],
   [prompt |-> {Prompt}, oracle |-> None]}

Call(sound, split) == [kind |-> "call", sound |-> sound, split |-> split]
Text(kind, text, tokens, split) ==
  [kind |-> kind, text |-> text, tokens |-> tokens, split |-> split]
MCLines ==
  [client \in {"claude", "codex"} |->
     IF client = "codex"
       THEN {Call(TRUE, FALSE), Call(FALSE, FALSE), Call(TRUE, TRUE),
             Text("message", {"yes"}, None, FALSE), Text("message", {"yes", "no"}, None, FALSE),
             Text("message", {}, None, TRUE),
             Text("completed", None, 1, FALSE), Text("completed", None, 4, FALSE)}
       ELSE {Text("event", None, None, FALSE), Text("result", {"yes"}, 1, FALSE),
             Text("result", {"no"}, 3, TRUE), Text("result", None, -1, FALSE)}]
=============================================================================
