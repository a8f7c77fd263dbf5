-------------------------- MODULE ClientRunProofs --------------------------
(***************************************************************************)
(* What a client process is started with, for any conditions, names, paths *)
(* and order of replacement: a process is started only under an accepted   *)
(* condition (Launched), and the conditions that are accepted leave no way *)
(* for the prompt, a second spelling of a name, a profile directory or a   *)
(* gateway that the id does not name.  Of the prompt this holds as long as *)
(* no path has its placeholder in it (PlainPaths), other ones it may have. *)
(*                                                                         *)
(* What is recorded of the processes, for any lines that they write and    *)
(* any point at which they are stopped: the last entry is made of a part   *)
(* of the stream (Recorded), so its number of calls, its verdict and the   *)
(* median are bounded by the stream.                                       *)
(***************************************************************************)
EXTENDS ClientRun, FiniteSetTheorems, WellFoundedInduction, TLAPS

\* Nothing in this text is, or is replaced by, the prompt.
Clean(text) == "prompt" \notin text /\ Prompt \notin text

Launched ==
  \/ \E k \in DOMAIN condition.prepare :
       child = Process("prepare", condition.prepare[k], {}, None)
  \/ child = Process("command", condition.command.text, task.prompt, task.prompt)

IInv ==
  /\ condition \in Conditions
  /\ pc \notin {"load", "refused"} => ConditionAccepted(condition)
  /\ PlainPaths /\ mcp # None => NoPrompt(mcp)
  /\ child # None => pc \notin {"load", "refused"} /\ Launched

-----------------------------------------------------------------------------
LEMMA ReplacedClean ==
  ASSUME PlainPaths, NEW text, NEW prompt, NEW p \in Placeholders, Clean(text)
  PROVE  Clean(Replaced(text, p, Replacements(prompt)))
<1>1. CASE p \notin text
  BY <1>1 DEF Replaced
<1>2. CASE p \in text
  <2>1. p \in Placeholders \ {"prompt"}
    BY <1>2 DEF Clean
  <2>2. Replacements(prompt)[p] = Paths[p]
    BY <2>1 DEF Replacements, Placeholders
  <2>3. "prompt" \notin Paths[p] /\ Prompt \notin Paths[p]
    BY <2>1, ClientRunAssumption, PlainAssumption DEF PlainPaths
  <2> QED
    BY <1>2, <2>2, <2>3 DEF Replaced, Clean
<1> QED
  BY <1>1, <1>2

LEMMA RenderedClean ==
  ASSUME PlainPaths, NEW text, NEW prompt, Clean(text)
  PROVE  NoPrompt(Rendered(text, Replacements(prompt)))
<1> DEFINE values == Replacements(prompt)
<1>1. \A i \in 1..4 : Order[i] \in Placeholders
  BY ClientRunAssumption
<1>2. 1 \in 1..4 /\ 2 \in 1..4 /\ 3 \in 1..4 /\ 4 \in 1..4
  OBVIOUS
<1> DEFINE a == Replaced(text, Order[1], values)
<1> DEFINE b == Replaced(a, Order[2], values)
<1> DEFINE c == Replaced(b, Order[3], values)
<1> DEFINE d == Replaced(c, Order[4], values)
<1>3. Clean(a)
  BY <1>1, <1>2, ReplacedClean
<1>4. Clean(b)
  <2> HIDE DEF a
  <2> QED BY <1>1, <1>2, <1>3, ReplacedClean
<1>5. Clean(c)
  <2> HIDE DEF b
  <2> QED BY <1>1, <1>2, <1>4, ReplacedClean
<1>6. Clean(d)
  <2> HIDE DEF c
  <2> QED BY <1>1, <1>2, <1>5, ReplacedClean
<1>7. Rendered(text, values) = d
  BY DEF Rendered
<1> QED
  BY <1>6, <1>7 DEF NoPrompt, Clean

-----------------------------------------------------------------------------
(* The invariant.                                                          *)

LEMMA InitIInv == Init => IInv
  BY DEF Init, IInv

LEMMA LoadIInv == IInv /\ Load => IInv'
<1> SUFFICES ASSUME IInv, Load PROVE IInv'
  OBVIOUS
<1>1. CASE ConditionAccepted(condition) /\ TaskAccepted(task)
  <2>1. pc' = "prepare" /\ condition' = condition /\ child' = child /\ task' = task
    BY <1>1 DEF Load, given
  <2>2. child = None
    BY DEF IInv, Load
  <2>3. ConditionAccepted(condition)'
    BY <1>1, <2>1 DEF ConditionAccepted, VariantAccepted, TextsAccepted, NamesAccepted,
                      ProductAccepted, CommandAccepted, PrepareAccepted, McpAccepted,
                      CodexAccepted, ClaudeAccepted, InheritAccepted
  <2>4. ASSUME PlainPaths, mcp' # None PROVE NoPrompt(mcp')
    <3>1. CASE condition.mcp = None
      BY <1>1, <2>4, <3>1 DEF Load
    <3>2. CASE condition.mcp # None
      <4>1. Clean(condition.mcp)
        BY <1>1, <3>2, PlainAssumption
           DEF IInv, ConditionAccepted, TextsAccepted, McpAccepted, Clean
      <4>2. mcp' = Rendered(condition.mcp, Replacements({}))
        BY <1>1, <3>2 DEF Load
      <4> QED BY <2>4, <4>1, <4>2, RenderedClean
    <3> QED BY <3>1, <3>2
  <2>5. (PlainPaths /\ mcp # None => NoPrompt(mcp))'
    BY <2>4 DEF NoPrompt, PlainPaths
  <2> QED
    BY <2>1, <2>2, <2>3, <2>5 DEF IInv
<1>2. CASE ~(ConditionAccepted(condition) /\ TaskAccepted(task))
  BY <1>2 DEF Load, given, IInv, NoPrompt, PlainPaths
<1> QED
  BY <1>1, <1>2

LEMMA StepIInv == IInv /\ [Next]_vars => IInv'
<1> SUFFICES ASSUME IInv, [Next]_vars PROVE IInv'
  OBVIOUS
<1> USE DEF IInv, NoPrompt, PlainPaths, given
<1>1. CASE Load
  BY <1>1, LoadIInv
<1>2. ASSUME UNCHANGED <<condition, task, mcp>>,
             pc \notin {"load", "refused"},
             child' = None \/ (child' = child /\ child # None) \/ Launched'
      PROVE  pc' \notin {"load", "refused"} => IInv'
  BY <1>2 DEF Launched, Process, Environment, Inherited, Replacements, ConditionAccepted,
     VariantAccepted, TextsAccepted, NamesAccepted,
     ProductAccepted, CommandAccepted, PrepareAccepted, McpAccepted,
     CodexAccepted, ClaudeAccepted, InheritAccepted
<1>3. CASE StartPrepare
  <2>1. Launched'
    BY <1>3 DEF StartPrepare, Launched, Process, Environment, Inherited
  <2> QED BY <1>2, <1>3, <2>1 DEF StartPrepare
<1>4. CASE StartClient
  <2>1. Launched'
    BY <1>4 DEF StartClient, Launched, Process, Environment, Inherited
  <2> QED BY <1>2, <1>4, <2>1 DEF StartClient
<1>5. CASE FailPrepare \/ EndPrepare
  BY <1>2, <1>5 DEF FailPrepare, Block, EndPrepare
<1>6. CASE Prepared
  BY <1>2, <1>6 DEF Prepared
<1>7. CASE NotStarted \/ TimeOut \/ Exit
  BY <1>2, <1>7 DEF NotStarted, TimeOut, Exit, Finish
<1>8. CASE Summarize
  BY <1>2, <1>8 DEF Summarize
<1>11. CASE TimeOutWindows
  BY <1>2, <1>11 DEF TimeOutWindows
<1>12. CASE Drained
  BY <1>2, <1>12 DEF Drained, Block, Finish
<1>13. CASE Inherit
  BY <1>2, <1>13 DEF Inherit
<1>14. CASE LetGo
  <2>1. child = None => child' = None
    BY <1>14 DEF LetGo
  <2>2. CASE child # None
    BY <1>2, <1>14, <2>2 DEF LetGo
  <2>3. CASE child = None
    BY <1>14, <2>3 DEF LetGo, ConditionAccepted,
       VariantAccepted, TextsAccepted, NamesAccepted,
       ProductAccepted, CommandAccepted, PrepareAccepted, McpAccepted,
       CodexAccepted, ClaudeAccepted, InheritAccepted
  <2> QED BY <2>2, <2>3
<1>9. ASSUME NEW line \in Lines[Client(condition)], WriteLine(line) PROVE IInv'
  BY <1>2, <1>9 DEF WriteLine
<1>10. CASE UNCHANGED vars
  BY <1>10 DEF vars, Launched, Process, Environment, Inherited
<1> QED
  BY <1>1, <1>3, <1>4, <1>5, <1>6, <1>7, <1>8, <1>9, <1>10, <1>11, <1>12,
     <1>13, <1>14 DEF Next, Runner

\* A process is only ever started under an accepted condition, with the texts
\* and names of that condition.
THEOREM Inductive == Spec => []IInv
  BY InitIInv, StepIInv, PTL DEF Spec

-----------------------------------------------------------------------------
(* The prompt.                                                             *)

LEMMA NoPromptLaunched == IInv => PromptOnlyOnStdin
<1> SUFFICES ASSUME IInv, PlainPaths
             PROVE  /\ PromptNotInArgv
                    /\ mcp # None => NoPrompt(mcp)
                    /\ child # None =>
                         /\ \A n \in DOMAIN child.environment : NoPrompt(child.environment[n])
                         /\ child.phase = "prepare" => child.input = None
  BY DEF PromptOnlyOnStdin
<1>1. mcp # None => NoPrompt(mcp)
  BY DEF IInv
<1>2. ASSUME child # None
      PROVE  /\ NoPrompt(child.text)
             /\ \A n \in DOMAIN child.environment : NoPrompt(child.environment[n])
             /\ child.phase = "prepare" => child.input = None
  <2>1. condition \in Conditions /\ ConditionAccepted(condition) /\ Launched
    BY <1>2 DEF IInv
  <2>2. ASSUME NEW n \in DOMAIN condition.environment, NEW prompt
        PROVE  NoPrompt(Rendered(condition.environment[n], Replacements(prompt)))
    <3>1. Clean(condition.environment[n])
      BY <2>1, PlainAssumption DEF ConditionAccepted, TextsAccepted, Clean
    <3> QED BY <3>1, RenderedClean
  <2>3. Prompt \notin Host
    BY PlainAssumption
  <2>4. ASSUME NEW phase, NEW prompt, NEW n \in DOMAIN Environment(condition, phase, Replacements(prompt))
        PROVE  NoPrompt(Environment(condition, phase, Replacements(prompt))[n])
    <3>1. CASE n \in DOMAIN condition.environment
      BY <2>2, <3>1 DEF Environment
    <3>2. CASE n \notin DOMAIN condition.environment
      BY <2>3, <3>2 DEF Environment, NoPrompt
    <3> QED BY <3>1, <3>2
  <2>5. ASSUME NEW k \in DOMAIN condition.prepare,
               child = Process("prepare", condition.prepare[k], {}, None)
        PROVE  /\ NoPrompt(child.text) /\ child.input = None
               /\ \A n \in DOMAIN child.environment : NoPrompt(child.environment[n])
    <3>1. Clean(condition.prepare[k])
      BY <2>1, PlainAssumption DEF ConditionAccepted, TextsAccepted, PrepareAccepted, Clean
    <3>2. NoPrompt(Rendered(condition.prepare[k], Replacements({})))
      BY <3>1, RenderedClean
    <3>3. /\ child.text = Rendered(condition.prepare[k], Replacements({}))
          /\ child.environment = Environment(condition, "prepare", Replacements({}))
          /\ child.input = None
      BY <2>5 DEF Process
    <3> QED BY <2>4, <3>2, <3>3
  <2>6. ASSUME child = Process("command", condition.command.text, task.prompt, task.prompt)
        PROVE  /\ NoPrompt(child.text) /\ child.phase = "command"
               /\ \A n \in DOMAIN child.environment : NoPrompt(child.environment[n])
    <3>1. Clean(condition.command.text)
      BY <2>1, PlainAssumption DEF ConditionAccepted, TextsAccepted, CommandAccepted, Clean
    <3>2. NoPrompt(Rendered(condition.command.text, Replacements(task.prompt)))
      BY <3>1, RenderedClean
    <3>3. /\ child.text = Rendered(condition.command.text, Replacements(task.prompt))
          /\ child.environment = Environment(condition, "command", Replacements(task.prompt))
          /\ child.phase = "command"
      BY <2>6 DEF Process
    <3> QED BY <2>4, <3>2, <3>3
  <2> QED
    BY <2>1, <2>5, <2>6 DEF Launched
<1> QED
  BY <1>1, <1>2 DEF PromptNotInArgv

\* PromptOnlyOnStdin, for any order of replacement and any placeholders but the
\* prompt's in the paths.
THEOREM PromptStaysOff == Spec => []PromptOnlyOnStdin
  BY Inductive, NoPromptLaunched, PTL

-----------------------------------------------------------------------------
(* The environment.                                                        *)

LEMMA DeclaredLaunched == IInv => EnvironmentAsDeclared
<1> SUFFICES ASSUME IInv, child # None
             PROVE  /\ DistinctNames(DOMAIN child.environment)
                    /\ FoldedNames(DOMAIN child.environment) \cap Profile = {}
                    /\ \A n \in Minimum \cap Host : child.environment[n] = {n}
                    /\ \A n \in DOMAIN child.environment \ (Minimum \cup DOMAIN condition.environment) :
                         n \in Inherited(condition, child.phase)
  BY DEF EnvironmentAsDeclared
<1> DEFINE own == DOMAIN condition.environment
<1> DEFINE inherited == Inherited(condition, child.phase)
<1> DEFINE names == own \cup ((Minimum \cup inherited) \cap Host)
<1>1. NamesAccepted(condition) /\ Launched
  BY DEF IInv, ConditionAccepted
<1>2. PICK values : child.environment = Environment(condition, child.phase, values)
  BY <1>1 DEF Launched, Process
<1>3. /\ DOMAIN child.environment = names
      /\ \A n \in names : n \notin own => child.environment[n] = {n}
  BY <1>2 DEF Environment
<1>4. DistinctNames(own) /\ FoldedNames(own) \cap Reserved = {}
  BY <1>1 DEF NamesAccepted
<1>5. InheritAccepted(condition, inherited)
  BY <1>1 DEF NamesAccepted, Inherited
<1>6. /\ \A m, n \in Minimum : Folded[m] = Folded[n] => m = n
      /\ \A n \in Minimum : Folded[n] \notin Profile
  BY ClientRunAssumption
<1>7. /\ \A m, n \in own : Folded[m] = Folded[n] => m = n
      /\ \A m \in own : Folded[m] \notin Profile /\ \A n \in Minimum : Folded[m] # Folded[n]
  BY <1>4 DEF DistinctNames, FoldedNames, Reserved
<1>8. /\ \A m, n \in inherited : Folded[m] = Folded[n] => m = n
      /\ \A m \in inherited : /\ Folded[m] \notin Profile
                              /\ \A n \in Minimum : Folded[m] # Folded[n]
                              /\ \A n \in own : Folded[m] # Folded[n]
  BY <1>5 DEF InheritAccepted, DistinctNames, FoldedNames, Reserved
<1> HIDE DEF own, inherited
<1>9. \A m, n \in names : Folded[m] = Folded[n] => m = n
  BY <1>6, <1>7, <1>8
<1>10. \A n \in names : Folded[n] \notin Profile
  BY <1>6, <1>7, <1>8
<1>11. \A n \in Minimum \cap Host : n \in names /\ n \notin own
  BY <1>7
<1>12. DistinctNames(names) /\ FoldedNames(names) \cap Profile = {}
  BY <1>9, <1>10 DEF DistinctNames, FoldedNames
<1>13. \A n \in names \ (Minimum \cup own) : n \in inherited
  OBVIOUS
<1> QED
  BY <1>3, <1>11, <1>12, <1>13 DEF own, inherited

\* EnvironmentAsDeclared, for any names and any host environment.
THEOREM DeclaredEnvironment == Spec => []EnvironmentAsDeclared
  BY Inductive, DeclaredLaunched, PTL

-----------------------------------------------------------------------------
(* What ran.                                                               *)

LEMMA NamedLaunched == IInv => NamedForWhatRan
<1> SUFFICES ASSUME IInv, child # None PROVE NamedForWhatRan
  BY DEF NamedForWhatRan
<1>1. VariantAccepted(condition) /\ TextsAccepted(condition) /\ ProductAccepted(condition)
  BY DEF IInv, ConditionAccepted
<1>2. ASSUME NEW client \in {"claude", "codex"}, NEW variant \in {"baseline", "graph-gateway"},
             Expected(condition.id) = <<client, variant>>
      PROVE  Client(condition) = client /\ Variant(condition) = variant
  <2>1. <<client, variant>> # None
    BY ClientRunAssumption
  <2> QED BY <1>1, <1>2, <2>1 DEF VariantAccepted
<1>3. condition.id = "codex-baseline" =>
        Client(condition) = "codex" /\ Variant(condition) = "baseline"
  BY <1>2 DEF Expected
<1>4. condition.id = "codex-graph-gateway" =>
        Client(condition) = "codex" /\ Variant(condition) = "graph-gateway"
  BY <1>2 DEF Expected
<1>5. condition.id = "claude-baseline" =>
        Client(condition) = "claude" /\ Variant(condition) = "baseline"
  BY <1>2 DEF Expected
<1>6. condition.id = "claude-graph-gateway" =>
        Client(condition) = "claude" /\ Variant(condition) = "graph-gateway"
  BY <1>2 DEF Expected
<1>7. Client(condition) = "codex" => CodexAccepted(condition)
  BY <1>1 DEF TextsAccepted, CommandAccepted
<1>8. Client(condition) = "claude" => ClaudeAccepted(condition)
  BY <1>1 DEF TextsAccepted, CommandAccepted
<1>9. "other command" \notin Gateway
  BY DEF Gateway
<1> QED
  BY <1>1, <1>3, <1>4, <1>5, <1>6, <1>7, <1>8, <1>9
     DEF NamedForWhatRan, CodexAccepted, ClaudeAccepted, ProductAccepted

\* NamedForWhatRan, for any conditions that may stand in the file.
THEOREM NamedRight == Spec => []NamedForWhatRan
  BY Inductive, NamedLaunched, PTL

-----------------------------------------------------------------------------
(* Least numbers, last places and medians.                                 *)

\* Every set of naturals that is not empty has a least one.
LEMMA LeastNatural ==
  ASSUME NEW S \in SUBSET Nat, S # {}
  PROVE  \E m \in S : \A n \in S : m <= n
<1> DEFINE below == OpToRel(<, Nat)
<1>1. IsWellFoundedOn(below, Nat)
  BY NatLessThanWellFounded
<1>2. \A x, y \in Nat : y < x => <<y, x>> \in below
  BY DEF OpToRel
<1> HIDE DEF below
<1>3. PICK x \in S : \A y \in S : ~ (<<y, x>> \in below)
  BY <1>1, WFMin
<1>4. \A y \in S : ~ (y < x)
  BY <1>2, <1>3
<1>5. \A y \in S : x \in Nat /\ y \in Nat
  OBVIOUS
<1> QED
  BY <1>4, <1>5

\* A largest value of a function on a finite set.
LEMMA Largest ==
  ASSUME NEW D, IsFiniteSet(D), D # {}, NEW f, \A i \in D : f[i] \in Int
  PROVE  \E j \in D : \A i \in D : f[i] <= f[j]
<1> DEFINE Above(j) == {i \in D : f[i] > f[j]}
<1> DEFINE sizes == {Cardinality(Above(j)) : j \in D}
<1>1. \A j \in D : IsFiniteSet(Above(j)) /\ Cardinality(Above(j)) \in Nat
  <2>1. \A j \in D : Above(j) \in SUBSET D
    OBVIOUS
  <2> QED BY <2>1, FS_Subset, FS_CardinalityType
<1>2. sizes \in SUBSET Nat /\ sizes # {}
  BY <1>1
<1>3. \E m \in sizes : \A n \in sizes : m <= n
  <2> HIDE DEF sizes
  <2> QED BY <1>2, LeastNatural
<1>4. PICK j \in D : \A i \in D : Cardinality(Above(j)) <= Cardinality(Above(i))
  <2> HIDE DEF Above
  <2> QED BY <1>3
<1>5. ASSUME NEW i \in D, f[i] > f[j] PROVE FALSE
  <2>1. Above(i) \in SUBSET Above(j)
    BY <1>5
  <2>2. i \in Above(j) /\ i \notin Above(i)
    BY <1>5
  <2>3. Cardinality(Above(i)) <= Cardinality(Above(j))
    BY <1>1, <2>1, FS_Subset
  <2>4. Cardinality(Above(j)) # Cardinality(Above(i))
    BY <1>1, <2>1, <2>2, FS_Subset
  <2>5. /\ Cardinality(Above(i)) \in Nat /\ Cardinality(Above(j)) \in Nat
        /\ Cardinality(Above(j)) <= Cardinality(Above(i))
    BY <1>1, <1>4
  <2> HIDE DEF Above
  <2> QED BY <2>3, <2>4, <2>5
<1> QED
  BY <1>5

\* A finite set of places has a last one unless it is empty.
LEMMA LatestExists ==
  ASSUME NEW places \in SUBSET Int, IsFiniteSet(places), places # {}
  PROVE  /\ Latest(places) \in places
         /\ \A j \in places : j <= Latest(places)
<1> DEFINE same == [i \in places |-> i]
<1>1. \A i \in places : same[i] = i /\ same[i] \in Int
  OBVIOUS
<1> HIDE DEF same
<1>2. \E i \in places : \A j \in places : same[j] <= same[i]
  BY <1>1, Largest
<1> QED
  BY <1>1, <1>2 DEF Latest

\* The k-th value of a sorted list exists, whatever the values are: it is the least one
\* that k values do not exceed.
LEMMA PlacedExists ==
  ASSUME NEW D, IsFiniteSet(D), NEW f, DOMAIN f = D, \A i \in D : f[i] \in Int,
         NEW k \in 1..Cardinality(D)
  PROVE  /\ \E i \in D : Placed(f, k) = f[i]
         /\ Cardinality({i \in D : f[i] < Placed(f, k)}) < k
         /\ k <= Cardinality({i \in D : f[i] <= Placed(f, k)})
<1> DEFINE UpTo(j) == {i \in D : f[i] <= f[j]}
<1> DEFINE Below(j) == {i \in D : f[i] < f[j]}
<1> DEFINE enough == {j \in D : k <= Cardinality(UpTo(j))}
<1> DEFINE sizes == {Cardinality(UpTo(j)) : j \in enough}
<1>0. Cardinality(D) \in Nat
  BY FS_CardinalityType
<1>1. /\ \A j \in D : IsFiniteSet(UpTo(j)) /\ Cardinality(UpTo(j)) \in Nat
      /\ \A j \in D : IsFiniteSet(Below(j)) /\ Cardinality(Below(j)) \in Nat
  <2>1. \A j \in D : UpTo(j) \in SUBSET D /\ Below(j) \in SUBSET D
    OBVIOUS
  <2> QED BY <2>1, FS_Subset, FS_CardinalityType
<1>2. sizes \in SUBSET Nat
  BY <1>1
<1>3. sizes # {}
  <2>1. D # {}
    BY <1>0, FS_EmptySet
  <2>2. PICK j \in D : \A i \in D : f[i] <= f[j]
    BY <2>1, Largest
  <2>3. UpTo(j) = D
    BY <2>2
  <2>4. k <= Cardinality(D)
    BY <1>0
  <2>5. j \in enough
    BY <2>3, <2>4
  <2> HIDE DEF enough, UpTo
  <2> QED BY <2>5
<1>4. \E m \in sizes : \A n \in sizes : m <= n
  <2> HIDE DEF sizes
  <2> QED BY <1>2, <1>3, LeastNatural
<1>5. PICK j \in enough : \A i \in enough : Cardinality(UpTo(j)) <= Cardinality(UpTo(i))
  <2> HIDE DEF UpTo
  <2> QED BY <1>4
<1>6. Cardinality(Below(j)) < k
  <2>0. Cardinality(Below(j)) \in Nat /\ k \in Int
    BY <1>0, <1>1
  <2> SUFFICES ASSUME k <= Cardinality(Below(j)) PROVE FALSE
    <3> HIDE DEF Below
    <3> QED BY <2>0
  <2>1. Below(j) # {}
    BY <1>0, <1>1, FS_EmptySet
  <2>2. Below(j) \subseteq D
    OBVIOUS
  <2> DEFINE under == Below(j)
  <2>3. IsFiniteSet(under) /\ under # {} /\ \A i \in under : f[i] \in Int
    BY <1>1, <2>1
  <2>4. \E h \in under : \A i \in under : f[i] <= f[h]
    <3> HIDE DEF under
    <3> QED BY <2>3, Largest
  <2>5. PICK h \in Below(j) : \A i \in Below(j) : f[i] <= f[h]
    BY <2>4
  <2>6. UpTo(h) = Below(j)
    BY <2>5
  <2>7. h \in enough
    BY <2>6
  <2>8. Cardinality(UpTo(j)) <= Cardinality(Below(j))
    BY <1>5, <2>6, <2>7
  <2>9. Below(j) \in SUBSET UpTo(j) /\ j \in UpTo(j) /\ j \notin Below(j)
    OBVIOUS
  <2>10. Cardinality(Below(j)) <= Cardinality(UpTo(j))
    BY <1>1, <2>9, FS_Subset
  <2>11. Cardinality(Below(j)) # Cardinality(UpTo(j))
    BY <1>1, <2>9, FS_Subset
  <2> QED BY <1>1, <2>8, <2>10, <2>11
<1>7. /\ f[j] \in {f[i] : i \in DOMAIN f}
      /\ Cardinality({i \in DOMAIN f : f[i] < f[j]}) < k
      /\ k <= Cardinality({i \in DOMAIN f : f[i] <= f[j]})
  BY <1>6
<1>8. \E v \in {f[i] : i \in DOMAIN f} :
         /\ Cardinality({i \in DOMAIN f : f[i] < v}) < k
         /\ k <= Cardinality({i \in DOMAIN f : f[i] <= v})
  BY <1>7
<1>9. /\ Placed(f, k) \in {f[i] : i \in DOMAIN f}
      /\ Cardinality({i \in DOMAIN f : f[i] < Placed(f, k)}) < k
      /\ k <= Cardinality({i \in DOMAIN f : f[i] <= Placed(f, k)})
  BY <1>8 DEF Placed
<1> QED
  BY <1>9

\* At most half of the values are smaller than the median, and at most half are greater.
LEMMA MedianMiddle ==
  ASSUME NEW D, IsFiniteSet(D), D # {}, NEW f, DOMAIN f = D, \A i \in D : f[i] \in Int
  PROVE  /\ TwiceMedian(f) \in Int
         /\ 2 * Cardinality({i \in D : 2 * f[i] < TwiceMedian(f)}) <= Cardinality(D)
         /\ 2 * Cardinality({i \in D : 2 * f[i] > TwiceMedian(f)}) <= Cardinality(D)
<1> DEFINE n == Cardinality(D)
<1> DEFINE p == (n + 1) \div 2
<1> DEFINE q == n \div 2 + 1
<1> DEFINE a == Placed(f, p)
<1> DEFINE b == Placed(f, q)
<1>1. n \in Nat /\ n # 0
  BY FS_CardinalityType, FS_EmptySet
<1>2. /\ p \in 1..n /\ q \in 1..n + 1 /\ p <= q
      /\ n <= 2 * p /\ 2 * (q - 1) <= n /\ p \in Int /\ q \in Int
  <2> HIDE DEF n
  <2> QED BY <1>1
<1>3. q \in 1..n
  <2> HIDE DEF n
  <2> QED BY <1>1
<1>4. TwiceMedian(f) = a + b
  BY DEF TwiceMedian
<1> DEFINE BelowA == {i \in D : f[i] < a}
<1> DEFINE UpToA == {i \in D : f[i] <= a}
<1> DEFINE AboveA == {i \in D : f[i] > a}
<1> DEFINE BelowB == {i \in D : f[i] < b}
<1> DEFINE UpToB == {i \in D : f[i] <= b}
<1> DEFINE Less == {i \in D : 2 * f[i] < a + b}
<1> DEFINE More == {i \in D : 2 * f[i] > a + b}
<1>5. a \in Int /\ Cardinality(BelowA) < p /\ p <= Cardinality(UpToA)
  <2> HIDE DEF p
  <2>1. /\ \E i \in D : Placed(f, p) = f[i]
        /\ Cardinality({i \in D : f[i] < Placed(f, p)}) < p
        /\ p <= Cardinality({i \in D : f[i] <= Placed(f, p)})
    <3>1. p \in 1..n
      BY <1>2
    <3> QED BY <3>1, PlacedExists
  <2> QED BY <2>1
<1>6. b \in Int /\ Cardinality(BelowB) < q /\ q <= Cardinality(UpToB)
  <2> HIDE DEF q
  <2>1. /\ \E i \in D : Placed(f, q) = f[i]
        /\ Cardinality({i \in D : f[i] < Placed(f, q)}) < q
        /\ q <= Cardinality({i \in D : f[i] <= Placed(f, q)})
    BY <1>3, PlacedExists
  <2> QED BY <2>1
<1> HIDE DEF a, b, p, q, n
<1>7. ASSUME NEW s \in SUBSET D PROVE IsFiniteSet(s) /\ Cardinality(s) \in Nat
  BY FS_Subset, FS_CardinalityType
<1>8. /\ Cardinality(BelowA) \in Nat /\ Cardinality(UpToA) \in Nat
      /\ Cardinality(AboveA) \in Nat /\ Cardinality(BelowB) \in Nat
      /\ Cardinality(UpToB) \in Nat /\ Cardinality(Less) \in Nat /\ Cardinality(More) \in Nat
      /\ IsFiniteSet(BelowA) /\ IsFiniteSet(AboveA) /\ IsFiniteSet(BelowB) /\ IsFiniteSet(UpToA)
  <2>1. /\ BelowA \in SUBSET D /\ UpToA \in SUBSET D /\ AboveA \in SUBSET D
        /\ BelowB \in SUBSET D /\ UpToB \in SUBSET D /\ Less \in SUBSET D /\ More \in SUBSET D
    OBVIOUS
  <2> HIDE DEF BelowA, UpToA, AboveA, BelowB, UpToB, Less, More
  <2> QED BY <2>1, <1>7
<1>9. a <= b
  <2> SUFFICES ASSUME b < a PROVE FALSE
    BY <1>5, <1>6
  <2>1. UpToB \in SUBSET BelowA
    BY <1>5, <1>6
  <2>2. Cardinality(UpToB) <= Cardinality(BelowA)
    BY <1>8, <2>1, FS_Subset
  <2> HIDE DEF UpToB, BelowA
  <2> QED BY <1>2, <1>5, <1>6, <1>8, <2>2
<1>10. 2 * Cardinality(Less) <= n
  <2>1. Less \in SUBSET BelowB
    BY <1>5, <1>6, <1>9
  <2>2. Cardinality(Less) <= Cardinality(BelowB)
    BY <1>8, <2>1, FS_Subset
  <2> HIDE DEF Less, BelowB
  <2> QED BY <1>1, <1>2, <1>6, <1>8, <2>2
<1>11. 2 * Cardinality(More) <= n
  <2>1. More \in SUBSET AboveA
    BY <1>5, <1>6, <1>9
  <2>2. Cardinality(More) <= Cardinality(AboveA)
    BY <1>8, <2>1, FS_Subset
  <2>3. UpToA \cup AboveA = D /\ UpToA \cap AboveA = {}
    BY <1>5
  <2>4. n = Cardinality(UpToA) + Cardinality(AboveA) - 0
    <3> HIDE DEF UpToA, AboveA
    <3> QED BY <1>8, <2>3, FS_Union, FS_EmptySet DEF n
  <2> HIDE DEF More, AboveA, UpToA
  <2> QED BY <1>1, <1>2, <1>5, <1>8, <2>2, <2>4
<1>12. TwiceMedian(f) \in Int
  BY <1>4, <1>5, <1>6
<1> QED
  BY <1>4, <1>10, <1>11, <1>12 DEF n

-----------------------------------------------------------------------------
(* The second invariant: what is on record.                                *)

\* What an entry in `runs` may hold.
Entries ==
  [status : {"succeeded", "failed", "blocked"}, calls : Nat \cup {None},
   tokens : Nat \cup {None}, passed : BOOLEAN \cup {None}]

\* The first n lines of the stream were read, and perhaps a part of the next.
Agree(output, lines, n) ==
  /\ DOMAIN output = 1..Len(output) /\ Len(output) \in {n, n + 1}
  /\ \A i \in 1..n : output[i] = lines[i]
  /\ Len(output) = n + 1 => output[n + 1] = Torn

Part(output, lines) == \E n \in 0..Len(lines) : Agree(output, lines, n)

\* Entry, of any client and oracle.
EntryOf(client, oracle, status, output) ==
  [status |-> status, calls |-> Normalized(client, output).calls,
   tokens |-> Normalized(client, output).tokens,
   passed |-> OraclePassed(oracle, Normalized(client, output).text)]

\* The last entry is made from what was read of the last stream.
LastRead ==
  \E output :
    /\ Part(output, stream)
    /\ Last.status \in {"succeeded", "failed"}
    /\ Last.status = "succeeded" => output = stream
    /\ Last = EntryOf(Client(condition), task.oracle, Last.status, output)

\* The runs that told their tokens.
Reported == {i \in DOMAIN told : told[i] # None}

\* What is on record of the runs, at every point of the evaluation.
Recorded ==
  /\ pc \in {"load", "refused", "prepare"} => runs = <<>> /\ told = <<>>
  /\ pc \notin {"load", "refused"} => TaskAccepted(task)
  /\ pc \in {"load", "refused"} => stream = <<>>
  /\ stream \in Seq(Lines[Client(condition)])
  /\ runs \in Seq(Entries) /\ told \in Seq(Nat \cup {None})
  /\ Len(told) = Len(runs) /\ \A i \in DOMAIN runs : told[i] = runs[i].tokens
  /\ pc = "run" /\ runs # <<>> => LastRead \/ \A i \in DOMAIN runs : runs[i].status = "blocked"
  /\ pc = "done" =>
       summary.twiceMedian = IF Reported = {} THEN None ELSE TwiceMedian([i \in Reported |-> told[i]])

-----------------------------------------------------------------------------
(* What was read of a stream.                                              *)

\* A line that was read is torn or one of the stream, at the same place.
LEMMA LineFacts ==
  ASSUME NEW client \in {"claude", "codex"}, NEW lines \in Seq(Lines[client]), NEW output,
         NEW n \in 0..Len(lines), Agree(output, lines, n), NEW i \in DOMAIN output
  PROVE  \/ output[i] = Torn /\ output[i].kind = "torn"
         \/ /\ i \in 1..n /\ i \in DOMAIN lines /\ output[i] = lines[i]
            /\ output[i] \in Lines[client] /\ output[i].kind # "torn"
            /\ output[i].split \in BOOLEAN
<1>1. /\ DOMAIN lines = 1..Len(lines) /\ Len(lines) \in Nat
      /\ \A k \in DOMAIN lines : lines[k] \in Lines[client]
  OBVIOUS
<1>2. i \in Int /\ (i \in 1..n \/ (i = n + 1 /\ Len(output) = n + 1))
  <2>1. n \in Int
    BY <1>1
  <2>2. Len(output) = n \/ Len(output) = n + 1
    BY DEF Agree
  <2>3. i \in 1..Len(output)
    BY DEF Agree
  <2> QED BY <2>1, <2>2, <2>3
<1>3. CASE i \in 1..n
  <2>1. i \in DOMAIN lines
    BY <1>1, <1>3
  <2>2. output[i] = lines[i]
    BY <1>3 DEF Agree
  <2>3. output[i] \in Lines[client]
    BY <1>1, <2>1, <2>2
  <2>4. output[i].kind # "torn" /\ output[i].split \in BOOLEAN
    BY <2>3, LinesAssumption
  <2> QED BY <1>3, <2>1, <2>2, <2>3, <2>4
<1>4. CASE i = n + 1 /\ Len(output) = n + 1
  <2>1. output[i] = Torn
    BY <1>4 DEF Agree
  <2>2. Torn.kind = "torn"
    BY DEF Torn
  <2> QED BY <2>1, <2>2
<1> QED
  BY <1>2, <1>3, <1>4

\* Every set of places in what was read is finite and, unless it is empty, has a last one.
LEMMA LastPlace ==
  ASSUME NEW lines, Len(lines) \in Nat, NEW output,
         NEW n \in 0..Len(lines), Agree(output, lines, n),
         NEW places \in SUBSET DOMAIN output
  PROVE  /\ IsFiniteSet(places)
         /\ places # {} => Latest(places) \in places /\ \A j \in places : j <= Latest(places)
<1>1. Len(output) \in Nat /\ DOMAIN output = 1..Len(output)
  BY DEF Agree
<1>2. IsFiniteSet(DOMAIN output)
  BY <1>1, FS_Interval
<1>3. IsFiniteSet(places) /\ places \in SUBSET Int
  BY <1>1, <1>2, FS_Subset
<1> QED
  BY <1>3, LatestExists

\* A number of tokens is what the last total that could be read tells.
LEMMA ToldTokens ==
  ASSUME NEW client \in {"claude", "codex"}, NEW lines \in Seq(Lines[client]), NEW output,
         Part(output, lines)
  PROVE  /\ Told(client, output) = Normalized(client, output).tokens
         /\ Told(client, output) \in Nat \cup {None}
<1>1. PICK n \in 0..Len(lines) : Agree(output, lines, n)
  BY DEF Part
<1>2. Len(lines) \in Nat
  OBVIOUS
<1> DEFINE totals == {i \in DOMAIN output :
                   /\ output[i].kind \in {"completed", "result"}
                   /\ ~output[i].split \/ (client = "claude" /\ Len(output) = 1)}
<1>3. /\ totals \in SUBSET DOMAIN output
      /\ totals # {} => Latest(totals) \in totals
  <2>1. totals \in SUBSET DOMAIN output
    OBVIOUS
  <2> HIDE DEF totals
  <2> QED BY <1>1, <1>2, <2>1, LastPlace
<1>4. ASSUME NEW i \in totals
      PROVE  output[i].tokens \in Int \cup {None}
  <2>1. i \in DOMAIN output /\ output[i].kind \in {"completed", "result"}
    OBVIOUS
  <2>2. output[i] \in Lines[client]
    BY <1>1, <2>1, LineFacts
  <2> QED BY <2>1, <2>2, LinesAssumption
<1>5. Told(client, output) = IF totals = {} THEN None ELSE Metric(output[Latest(totals)].tokens)
  BY DEF Told, Metric
<1>6. Told(client, output) \in Nat \cup {None}
  <2> HIDE DEF totals
  <2> QED BY <1>3, <1>4, <1>5 DEF Metric
<1>7. Metric(None) = None
  BY DEF Metric
<1>8. CASE client = "codex"
  <2>1. totals = CodexRead(output, "completed")
    <3>1. ASSUME NEW i \in DOMAIN output
          PROVE  /\ output[i].kind \in {"completed", "result"}
                 /\ ~output[i].split \/ (client = "claude" /\ Len(output) = 1)
                 <=> Readable("codex", output, i) /\ output[i].kind = "completed"
      <4>1. output[i].kind = "torn" \/ output[i] \in Lines["codex"]
        BY <1>1, <1>8, LineFacts
      <4>2. output[i].kind # "result"
        BY <4>1, LinesAssumption
      <4> QED BY <1>8, <4>2 DEF Readable
    <3> QED BY <3>1 DEF CodexRead, Having, Read
  <2>2. Normalized(client, output).tokens =
          Metric(IF totals = {} THEN None ELSE output[Latest(totals)].tokens)
    <3> HIDE DEF totals
    <3> QED BY <1>8, <2>1 DEF Normalized, CodexOutput
  <2> HIDE DEF totals
  <2> QED BY <1>5, <1>6, <1>7, <2>2
<1>9. CASE client = "claude"
  <2> DEFINE read == Read("claude", output)
  <2>1. totals = Having(output, read, "result")
    <3>1. ASSUME NEW i \in DOMAIN output
          PROVE  /\ output[i].kind \in {"completed", "result"}
                 /\ ~output[i].split \/ (client = "claude" /\ Len(output) = 1)
                 <=> Readable("claude", output, i) /\ output[i].kind = "result"
      <4>1. output[i].kind = "torn" \/ output[i] \in Lines["claude"]
        BY <1>1, <1>9, LineFacts
      <4>2. output[i].kind # "completed"
        BY <4>1, LinesAssumption
      <4> QED BY <1>9, <4>2 DEF Readable
    <3> QED BY <3>1 DEF Having, Read
  <2>2. Normalized(client, output).tokens =
          IF read = {} THEN None
          ELSE Metric(output[Latest(IF totals # {} THEN totals ELSE read)].tokens)
    <3> HIDE DEF totals
    <3> QED BY <1>9, <2>1 DEF Normalized, ClaudeOutput, ClaudePayload
  <2>3. CASE totals # {}
    <3>1. read # {}
      BY <2>1, <2>3 DEF Having
    <3> HIDE DEF totals, read
    <3> QED BY <1>5, <1>6, <2>2, <2>3, <3>1
  <2>4. CASE totals = {} /\ read # {}
    <3>1. read \in SUBSET DOMAIN output
      BY DEF Read
    <3>2. Latest(read) \in read
      <4> HIDE DEF read
      <4> QED BY <1>1, <1>2, <2>4, <3>1, LastPlace
    <3>3. Latest(read) \in DOMAIN output /\ output[Latest(read)].kind \notin {"torn", "result"}
      <4>1. Latest(read) \in DOMAIN output /\ output[Latest(read)].kind # "torn"
        BY <3>2 DEF Read, Readable
      <4>2. output[Latest(read)].kind # "result"
        <5> HIDE DEF read, totals
        <5> QED BY <2>1, <2>4, <3>2 DEF Having
      <4> QED BY <4>1, <4>2
    <3>4. output[Latest(read)] \in Lines["claude"]
      <4> HIDE DEF read
      <4> QED BY <1>1, <1>9, <3>3, LineFacts
    <3>5. output[Latest(read)].tokens = None
      <4> HIDE DEF read
      <4> QED BY <3>3, <3>4, LinesAssumption
    <3> HIDE DEF totals, read
    <3> QED BY <1>5, <1>6, <1>7, <2>2, <2>4, <3>5
  <2>5. CASE totals = {} /\ read = {}
    <3> HIDE DEF totals, read
    <3> QED BY <1>5, <1>6, <2>2, <2>5
  <2> QED BY <2>3, <2>4, <2>5
<1> QED
  BY <1>8, <1>9

\* A number of tool calls is a natural number.
LEMMA NormalizedTypes ==
  ASSUME NEW client \in {"claude", "codex"}, NEW lines \in Seq(Lines[client]), NEW output,
         Part(output, lines)
  PROVE  Normalized(client, output).calls \in Nat \cup {None}
<1>1. PICK n \in 0..Len(lines) : Agree(output, lines, n)
  BY DEF Part
<1>2. CodexRead(output, "call") \in SUBSET DOMAIN output
  BY DEF CodexRead, Having, Read
<1>3. IsFiniteSet(CodexRead(output, "call"))
  <2>1. Len(lines) \in Nat
    OBVIOUS
  <2> QED BY <1>1, <1>2, <2>1, LastPlace
<1>4. Cardinality(CodexRead(output, "call")) \in Nat
  BY <1>3, FS_CardinalityType
<1> QED
  BY <1>4 DEF Normalized, CodexOutput, ClaudeOutput

\* Every entry made of what was read is one of Entries.
LEMMA EntryTypes ==
  ASSUME NEW client \in {"claude", "codex"}, NEW lines \in Seq(Lines[client]), NEW output,
         Part(output, lines), NEW oracle, NEW status \in {"succeeded", "failed"}
  PROVE  EntryOf(client, oracle, status, output) \in Entries
<1>1. Normalized(client, output).calls \in Nat \cup {None}
  BY NormalizedTypes
<1>2. Normalized(client, output).tokens \in Nat \cup {None}
  BY ToldTokens
<1>3. OraclePassed(oracle, Normalized(client, output).text) \in BOOLEAN \cup {None}
  BY DEF OraclePassed
<1> QED
  BY <1>1, <1>2, <1>3 DEF EntryOf, Entries

\* The parts of a stream that can have been read.
LEMMA Parts ==
  ASSUME NEW S, NEW lines \in Seq(S)
  PROVE  /\ Part(lines, lines)
         /\ Part(Append(lines, Torn), lines)
         /\ \A n \in 0..Len(lines) : /\ Part(SubSeq(lines, 1, n), lines)
                                     /\ Part(Append(SubSeq(lines, 1, n), Torn), lines)
<1>1. Len(lines) \in Nat /\ DOMAIN lines = 1..Len(lines)
  OBVIOUS
<1>2. ASSUME NEW n \in 0..Len(lines), NEW head \in Seq(S), Len(head) = n,
             \A i \in 1..n : head[i] = lines[i]
      PROVE  Part(head, lines) /\ Part(Append(head, Torn), lines)
  <2>1. n \in Nat /\ DOMAIN head = 1..n
    BY <1>1, <1>2
  <2>2. Agree(head, lines, n)
    BY <1>2, <2>1 DEF Agree
  <2> DEFINE torn == Append(head, Torn)
  <2>3. head \in Seq(S \cup {Torn})
    OBVIOUS
  <2>4. /\ Len(torn) = n + 1 /\ DOMAIN torn = 1..n + 1
        /\ \A i \in 1..n : torn[i] = head[i]
        /\ torn[n + 1] = Torn
    BY <1>2, <2>1, <2>3
  <2>5. Agree(torn, lines, n)
    <3> HIDE DEF torn
    <3> QED BY <1>2, <2>1, <2>4 DEF Agree
  <2> QED BY <2>2, <2>5 DEF Part
<1>3. Part(lines, lines) /\ Part(Append(lines, Torn), lines)
  <2>1. Len(lines) \in 0..Len(lines)
    BY <1>1
  <2> QED BY <1>2, <2>1
<1>4. ASSUME NEW n \in 0..Len(lines)
      PROVE  Part(SubSeq(lines, 1, n), lines) /\ Part(Append(SubSeq(lines, 1, n), Torn), lines)
  <2> DEFINE head == SubSeq(lines, 1, n)
  <2>1. head \in Seq(S) /\ Len(head) = n /\ \A i \in 1..n : head[i] = lines[i]
    BY <1>1
  <2> HIDE DEF head
  <2>2. Part(head, lines) /\ Part(Append(head, Torn), lines)
    BY <1>2, <2>1
  <2> QED BY <2>2 DEF head
<1> QED
  BY <1>3, <1>4

-----------------------------------------------------------------------------
(* The record is kept by every step.                                       *)

LEMMA ClientKnown ==
  ASSUME IInv, pc \notin {"load", "refused"}
  PROVE  Client(condition) \in {"claude", "codex"}
BY DEF IInv, ConditionAccepted, VariantAccepted

LEMMA InitRecorded == Init => Recorded
  BY DEF Init, Recorded

\* The one step in which an entry is added for a run.
LEMMA FinishRecorded ==
  ASSUME IInv, Recorded, pc \in {"run", "client", "drain"}, NEW status, NEW output,
         Finish(status, output), stream' \in Seq(Lines[Client(condition)]),
         Part(output, stream'), status \in {"succeeded", "failed"},
         status = "succeeded" => output = stream'
  PROVE  Recorded'
<1> DEFINE entry == EntryOf(Client(condition), task.oracle, status, output)
<1>1. Client(condition) \in {"claude", "codex"} /\ TaskAccepted(task)
  BY ClientKnown DEF Recorded
<1>2. /\ runs' = Append(runs, entry) /\ told' = Append(told, entry.tokens)
      /\ pc' = "run" /\ condition' = condition /\ task' = task
  BY <1>1, ToldTokens DEF Finish, given, Entry, EntryOf
<1>3. entry \in Entries
  BY <1>1, EntryTypes
<1>4. entry.status = status /\ entry.tokens \in Nat \cup {None}
      /\ entry = EntryOf(Client(condition), task.oracle, entry.status, output)
  <2>1. entry.status = status
    BY DEF EntryOf
  <2> QED BY <1>3, <2>1 DEF Entries
<1>5. /\ runs \in Seq(Entries) /\ told \in Seq(Nat \cup {None})
      /\ Len(told) = Len(runs) /\ \A i \in DOMAIN runs : told[i] = runs[i].tokens
  BY DEF Recorded
<1> HIDE DEF entry
<1>6. /\ runs' \in Seq(Entries) /\ told' \in Seq(Nat \cup {None})
      /\ Len(told') = Len(runs')
  BY <1>2, <1>3, <1>4, <1>5
<1>7. \A i \in DOMAIN runs' : told'[i] = runs'[i].tokens
  BY <1>2, <1>3, <1>4, <1>5
<1>8. runs'[Len(runs')] = entry
  BY <1>2, <1>3, <1>5
<1>9. LastRead'
  BY <1>2, <1>4, <1>8 DEF LastRead, Last
<1> QED
  BY <1>1, <1>2, <1>6, <1>7, <1>9 DEF Recorded

\* The step in which every repetition is recorded as blocked.
LEMMA BlockRecorded ==
  ASSUME Recorded, pc \notin {"load", "refused"}, Block
  PROVE  Recorded'
<1> DEFINE entry == [status |-> "blocked", calls |-> None, tokens |-> None,
                     passed |-> OraclePassed(task.oracle, None)]
<1>1. entry \in Entries /\ entry.status = "blocked" /\ entry.tokens = None
  <2>1. OraclePassed(task.oracle, None) \in BOOLEAN \cup {None}
    BY DEF OraclePassed
  <2> QED BY <2>1 DEF Entries
<1>2. /\ runs' = [i \in 1..Repetitions |-> entry] /\ told' = [i \in 1..Repetitions |-> None]
      /\ pc' = "run" /\ condition' = condition /\ task' = task /\ stream' = stream
  BY DEF Block, BlockedEntry, given
<1>3. stream \in Seq(Lines[Client(condition)]) /\ TaskAccepted(task)
  BY DEF Recorded
<1> HIDE DEF entry
<1>4. Repetitions \in Nat
  BY ClientRunAssumption
<1>5. /\ runs' \in Seq(Entries) /\ told' \in Seq(Nat \cup {None})
      /\ Len(told') = Len(runs') /\ \A i \in DOMAIN runs' : told'[i] = runs'[i].tokens
      /\ \A i \in DOMAIN runs' : runs'[i].status = "blocked"
  BY <1>1, <1>2, <1>4
<1>6. stream' \in Seq(Lines[Client(condition')])
  BY <1>2, <1>3
<1> QED BY <1>2, <1>3, <1>5, <1>6 DEF Recorded

LEMMA StepRecorded == IInv /\ Recorded /\ [Next]_vars => Recorded'
<1> SUFFICES ASSUME IInv, Recorded, [Next]_vars PROVE Recorded'
  OBVIOUS
<1>1. CASE Load
  BY <1>1 DEF Load, given, Recorded
<1>2. CASE StartPrepare \/ EndPrepare
  BY <1>2 DEF StartPrepare, EndPrepare, given, Recorded
<1>3. CASE FailPrepare
  BY <1>3, BlockRecorded DEF FailPrepare
<1>4. CASE Prepared
  BY <1>4 DEF Prepared, given, Recorded
<1>5. CASE StartClient
  BY <1>5 DEF StartClient, given, Recorded
<1>6. ASSUME NEW line \in Lines[Client(condition)], WriteLine(line) PROVE Recorded'
  <2>1. stream \in Seq(Lines[Client(condition)])
    BY <1>6 DEF WriteLine, Recorded
  <2>2. stream' \in Seq(Lines[Client(condition)])
    BY <1>6, <2>1 DEF WriteLine
  <2> QED BY <1>6, <2>2 DEF WriteLine, given, Recorded
<1>7. CASE NotStarted
  <2>1. stream' = <<>> /\ <<>> \in Seq(Lines[Client(condition)])
    BY <1>7 DEF NotStarted
  <2>2. Part(<<>>, <<>>)
    BY <2>1, Parts
  <2> QED BY <1>7, <2>1, <2>2, FinishRecorded DEF NotStarted
<1>8. CASE Exit
  <2>1. stream \in Seq(Lines[Client(condition)]) /\ stream' = stream /\ pc = "client"
    BY <1>8 DEF Exit, Recorded
  <2>2. Part(stream, stream') /\ Part(Append(stream, Torn), stream')
    BY <2>1, Parts
  <2>3. CASE Finish("succeeded", stream)
    BY <2>1, <2>2, <2>3, FinishRecorded
  <2>4. CASE Finish("failed", stream)
    BY <2>1, <2>2, <2>4, FinishRecorded
  <2>5. CASE Finish("failed", Append(stream, Torn))
    BY <2>1, <2>2, <2>5, FinishRecorded
  <2> QED BY <1>8, <2>3, <2>4, <2>5 DEF Exit
<1>9. CASE TimeOut
  <2>1. stream \in Seq(Lines[Client(condition)]) /\ stream' = stream /\ pc = "client"
    BY <1>9 DEF TimeOut, Recorded
  <2>2. PICK n \in 0..Len(stream) :
          \/ Finish("failed", SubSeq(stream, 1, n))
          \/ Finish("failed", Append(SubSeq(stream, 1, n), Torn))
    BY <1>9 DEF TimeOut
  <2> DEFINE head == SubSeq(stream, 1, n)
  <2>3. Part(head, stream') /\ Part(Append(head, Torn), stream')
    BY <2>1, Parts
  <2>4. CASE Finish("failed", head)
    <3> HIDE DEF head
    <3> QED BY <2>1, <2>3, <2>4, FinishRecorded
  <2>5. CASE Finish("failed", Append(head, Torn))
    <3> HIDE DEF head
    <3> QED BY <2>1, <2>3, <2>5, FinishRecorded
  <2> QED BY <2>2, <2>4, <2>5
<1>10. CASE Summarize
  <2> DEFINE reported == {i \in DOMAIN runs : runs[i].tokens # None}
  <2>1. /\ pc' = "done" /\ UNCHANGED <<condition, task, stream, runs, told>>
        /\ summary'.twiceMedian =
             IF reported = {} THEN None ELSE TwiceMedian([i \in reported |-> runs[i].tokens])
    BY <1>10 DEF Summarize, given
  <2>2. DOMAIN told = DOMAIN runs /\ \A i \in DOMAIN runs : told[i] = runs[i].tokens
    BY DEF Recorded
  <2>3. reported = Reported
    BY <2>2 DEF Reported
  <2>4. [i \in reported |-> runs[i].tokens] = [i \in Reported |-> told[i]]
    BY <2>2, <2>3 DEF Reported
  <2>5. Reported' = Reported
    BY <2>1 DEF Reported
  <2>6. summary'.twiceMedian = IF Reported = {} THEN None ELSE TwiceMedian([i \in Reported |-> told[i]])
    <3> HIDE DEF reported
    <3> QED BY <2>1, <2>3, <2>4
  <2>7. /\ TaskAccepted(task) /\ stream \in Seq(Lines[Client(condition)])
        /\ runs \in Seq(Entries) /\ told \in Seq(Nat \cup {None})
        /\ Len(told) = Len(runs)
    BY <1>10 DEF Recorded, Summarize, given
  <2> QED BY <2>1, <2>2, <2>5, <2>6, <2>7 DEF Recorded
<1>11. CASE TimeOutWindows \/ Inherit \/ LetGo
  BY <1>11 DEF TimeOutWindows, Inherit, LetGo, given, Recorded, LastRead, Last, Reported
<1>12. CASE Drained
  <2>1. stream \in Seq(Lines[Client(condition)]) /\ pc = "drain"
    BY <1>12 DEF Drained, Recorded
  <2>2. Part(stream, stream) /\ Part(Append(stream, Torn), stream)
    BY <2>1, Parts
  <2>3. CASE Block
    BY <2>1, <2>3, BlockRecorded
  <2>4. CASE stream' = stream /\ Finish("failed", stream)
    BY <2>1, <2>2, <2>4, FinishRecorded
  <2>5. CASE stream' = stream /\ Finish("failed", Append(stream, Torn))
    BY <2>1, <2>2, <2>5, FinishRecorded
  <2> QED BY <1>12, <2>3, <2>4, <2>5 DEF Drained
<1>13. CASE UNCHANGED vars
  BY <1>13 DEF vars, given, Recorded, LastRead, Last, Reported
<1> QED
  BY <1>1, <1>2, <1>3, <1>4, <1>5, <1>6, <1>7, <1>8, <1>9, <1>10, <1>11,
     <1>12, <1>13 DEF Next, Runner

\* After every run the last entry is the normalised form of a part of what the client
\* wrote, of all of it if the client succeeded, and the summary has the median of the
\* tokens that were told.
THEOREM RunsAreRecorded == Spec => []Recorded
<1>1. Init => IInv /\ Recorded
  BY InitIInv, InitRecorded
<1>2. (IInv /\ Recorded) /\ [Next]_vars => (IInv /\ Recorded)'
  BY StepIInv, StepRecorded
<1> QED
  BY <1>1, <1>2, PTL DEF Spec

-----------------------------------------------------------------------------
(* What the record means for a run that ended.                             *)

LEMMA EndedRead ==
  ASSUME IInv, Recorded, Ended
  PROVE  /\ Client(condition) \in {"claude", "codex"} /\ TaskAccepted(task)
         /\ stream \in Seq(Lines[Client(condition)]) /\ LastRead
<1>1. pc = "run" /\ runs \in Seq(Entries) /\ runs # <<>>
  BY DEF Ended, Recorded
<1>2. 1 \in DOMAIN runs
  BY <1>1
<1> QED
  BY <1>1, <1>2, ClientKnown DEF Ended, Recorded

\* What the codex client is read to say: lines of the stream, and all the whole ones if
\* it succeeded.
LEMMA CodexLines ==
  ASSUME NEW lines \in Seq(Lines["codex"]), NEW output, NEW n \in 0..Len(lines),
         Agree(output, lines, n), NEW kind, kind # "torn"
  PROVE  /\ CodexRead(output, kind) \in SUBSET DOMAIN output
         /\ \A i \in CodexRead(output, kind) :
              /\ i \in 1..n /\ i \in DOMAIN lines /\ output[i] = lines[i]
              /\ lines[i].kind = kind /\ ~lines[i].split
         /\ \A i \in DOMAIN output :
              output[i].kind = kind /\ ~output[i].split => i \in CodexRead(output, kind)
<1>1. CodexRead(output, kind) =
        {i \in DOMAIN output : output[i].kind # "torn" /\ ~output[i].split /\ output[i].kind = kind}
  BY DEF CodexRead, Having, Read, Readable
<1>2. ASSUME NEW i \in CodexRead(output, kind)
      PROVE  /\ i \in 1..n /\ i \in DOMAIN lines /\ output[i] = lines[i]
             /\ lines[i].kind = kind /\ ~lines[i].split
  <2>1. i \in DOMAIN output /\ output[i].kind # "torn" /\ output[i].kind = kind /\ ~output[i].split
    BY <1>1
  <2>2. i \in 1..n /\ i \in DOMAIN lines /\ output[i] = lines[i]
    BY <2>1, LineFacts
  <2> QED BY <2>1, <2>2
<1> QED
  BY <1>1, <1>2

LEMMA CallsCountedWhen == IInv /\ Recorded => CallsAreCounted
<1> DEFINE made == {i \in Having(stream, DOMAIN stream, "call") : ~stream[i].split}
<1> DEFINE ends == Having(stream, DOMAIN stream, "completed")
<1> SUFFICES ASSUME IInv, Recorded, Ended, Last.calls # None
             PROVE  /\ Last.calls <= Cardinality(made)
                    /\ \/ Last.calls = Cardinality(made)
                       \/ Last.status = "failed" /\ \E i \in ends : i < Len(stream)
  BY DEF CallsAreCounted
<1>1. /\ Client(condition) \in {"claude", "codex"}
      /\ stream \in Seq(Lines[Client(condition)]) /\ LastRead
  BY EndedRead
<1>2. PICK output : /\ Part(output, stream)
                    /\ Last.status \in {"succeeded", "failed"}
                    /\ Last.status = "succeeded" => output = stream
                    /\ Last = EntryOf(Client(condition), task.oracle, Last.status, output)
  BY <1>1 DEF LastRead
<1> DEFINE calls == CodexRead(output, "call")
<1>3. Last.calls = Normalized(Client(condition), output).calls
  BY <1>2 DEF EntryOf
<1>4. Client(condition) = "codex"
  BY <1>1, <1>3 DEF Normalized, ClaudeOutput
<1>5. Counted(output) /\ Last.calls = Cardinality(calls)
  BY <1>3, <1>4 DEF Normalized, CodexOutput
<1>6. PICK n \in 0..Len(stream) : Agree(output, stream, n)
  BY <1>2 DEF Part
<1>7. stream \in Seq(Lines["codex"]) /\ Len(stream) \in Nat /\ DOMAIN stream = 1..Len(stream)
  BY <1>1, <1>4
<1>8. /\ calls \in SUBSET DOMAIN output
      /\ \A i \in calls : /\ i \in 1..n /\ i \in DOMAIN stream /\ output[i] = stream[i]
                          /\ stream[i].kind = "call" /\ ~stream[i].split
      /\ \A i \in DOMAIN output : output[i].kind = "call" /\ ~output[i].split => i \in calls
  BY <1>6, <1>7, CodexLines
<1>9. PICK e \in CodexRead(output, "completed") : TRUE
  BY <1>5 DEF Counted
<1>10. e \in 1..n /\ e \in DOMAIN stream /\ stream[e].kind = "completed"
  BY <1>6, <1>7, CodexLines
<1>11. made = {i \in DOMAIN stream : stream[i].kind = "call" /\ ~stream[i].split}
  BY DEF Having
<1>12. ends = {i \in DOMAIN stream : stream[i].kind = "completed"}
  BY DEF Having
<1>13. IsFiniteSet(made)
  <2>1. IsFiniteSet(1..Len(stream))
    BY <1>7, FS_Interval
  <2>2. made \in SUBSET (1..Len(stream))
    BY <1>7, <1>11
  <2> HIDE DEF made
  <2> QED BY <2>1, <2>2, FS_Subset
<1> HIDE DEF made, ends, calls
<1>14. calls \in SUBSET made
  BY <1>8, <1>11
<1>15. Cardinality(calls) <= Cardinality(made)
  BY <1>13, <1>14, FS_Subset
<1>16. ASSUME NEW j \in made, j \notin calls
       PROVE  Last.status = "failed" /\ \E i \in ends : i < Len(stream)
  <2>1. j \in 1..Len(stream) /\ stream[j].kind = "call" /\ ~stream[j].split
    BY <1>7, <1>11
  <2>2. j \notin 1..n
    <3>1. SUFFICES ASSUME j \in 1..n PROVE FALSE
      OBVIOUS
    <3>2. j \in DOMAIN output
      <4>1. n \in Int
        BY <1>7
      <4>2. DOMAIN output = 1..Len(output)
        BY <1>6 DEF Agree
      <4>3. Len(output) = n \/ Len(output) = n + 1
        BY <1>6 DEF Agree
      <4>4. j \in Int /\ 1 <= j /\ j <= n
        BY <3>1, <4>1
      <4>5. CASE Len(output) = n
        BY <4>1, <4>2, <4>4, <4>5
      <4>6. CASE Len(output) = n + 1
        BY <4>1, <4>2, <4>4, <4>6
      <4> QED BY <4>3, <4>5, <4>6
    <3>3. output[j] = stream[j]
      BY <1>6, <3>1 DEF Agree
    <3> QED BY <1>8, <1>16, <2>1, <3>2, <3>3
  <2>3. Last.status # "succeeded"
    BY <1>2, <1>7, <1>8, <1>16, <2>1
  <2>4. e < j /\ j <= Len(stream)
    BY <1>7, <1>10, <2>1, <2>2
  <2>5. e \in ends /\ e < Len(stream)
    BY <1>7, <1>10, <1>12, <2>1, <2>4
  <2> QED BY <1>2, <2>3, <2>5
<1>17. CASE made = calls
  BY <1>5, <1>15, <1>17
<1>18. CASE made # calls
  BY <1>5, <1>14, <1>15, <1>16, <1>18
<1> QED
  BY <1>17, <1>18

\* The text that is judged is the last one that could be read.
LEMMA TextJudged ==
  ASSUME NEW client \in {"claude", "codex"}, NEW lines \in Seq(Lines[client]), NEW output,
         Part(output, lines), NEW text, text = Normalized(client, output).text, text # None
  PROVE  \E i \in Texts(lines) :
           /\ lines[i].text = text
           /\ output = lines => \A j \in Texts(lines) : j > i => lines[j].split
<1>1. PICK n \in 0..Len(lines) : Agree(output, lines, n)
  BY DEF Part
<1>2. Len(lines) \in Nat /\ DOMAIN lines = 1..Len(lines)
  OBVIOUS
<1>3. CASE client = "codex"
  <2> DEFINE messages == CodexRead(output, "message")
  <2>1. /\ messages \in SUBSET DOMAIN output
        /\ \A i \in messages : /\ i \in 1..n /\ i \in DOMAIN lines /\ output[i] = lines[i]
                               /\ lines[i].kind = "message"
        /\ \A i \in DOMAIN output : output[i].kind = "message" /\ ~output[i].split => i \in messages
    BY <1>1, <1>3, CodexLines
  <2>2. messages # {} /\ text = output[Latest(messages)].text
    BY <1>3 DEF Normalized, CodexOutput
  <2> HIDE DEF messages
  <2>3. Latest(messages) \in messages /\ \A j \in messages : j <= Latest(messages)
    BY <1>1, <1>2, <2>1, <2>2, LastPlace
  <2> DEFINE i == Latest(messages)
  <2>4. i \in Texts(lines) /\ lines[i].text = text
    BY <2>1, <2>2, <2>3 DEF Texts
  <2>5. ASSUME output = lines, NEW j \in Texts(lines), j > i, ~lines[j].split PROVE FALSE
    <3>1. j \in DOMAIN lines /\ lines[j].kind \in {"message", "result"}
      BY DEF Texts
    <3>2. lines[j] \in Lines["codex"]
      BY <1>2, <1>3, <3>1
    <3>3. lines[j].kind = "message"
      BY <3>1, <3>2, LinesAssumption
    <3>4. j \in messages
      BY <2>1, <2>5, <3>1, <3>3
    <3>5. i \in Int /\ j \in Int
      BY <1>2, <2>1, <2>3, <3>1
    <3> QED BY <2>3, <2>5, <3>4, <3>5
  <2>6. output = lines => \A j \in Texts(lines) : j > i => lines[j].split
    BY <2>5
  <2> QED BY <2>4, <2>6
<1>4. CASE client = "claude"
  <2> DEFINE read == Read("claude", output)
  <2> DEFINE results == Having(output, read, "result")
  <2> DEFINE chosen == IF results # {} THEN results ELSE read
  <2>1. read # {} /\ text = output[Latest(chosen)].text
    BY <1>4 DEF Normalized, ClaudeOutput, ClaudePayload
  <2>2. /\ read \in SUBSET DOMAIN output
        /\ \A k \in read : output[k].kind # "torn"
        /\ \A k \in DOMAIN output : output[k].kind # "torn" /\ ~output[k].split => k \in read
    BY DEF Read, Readable
  <2>3. results = {k \in read : output[k].kind = "result"}
    BY DEF Having
  <2> HIDE DEF read, results
  <2>4. chosen \in SUBSET DOMAIN output /\ chosen # {}
    BY <2>1, <2>2, <2>3
  <2>5. Latest(chosen) \in chosen /\ \A j \in chosen : j <= Latest(chosen)
    <3> HIDE DEF chosen
    <3> QED BY <1>1, <1>2, <2>4, LastPlace
  <2> DEFINE i == Latest(chosen)
  <2>6. i \in DOMAIN output /\ output[i].kind # "torn"
    BY <2>2, <2>3, <2>4, <2>5
  <2>7. i \in DOMAIN lines /\ output[i] = lines[i] /\ output[i] \in Lines["claude"]
    <3> HIDE DEF i
    <3> QED BY <1>1, <1>4, <2>6, LineFacts
  <2>8. output[i].kind # "event"
    <3> HIDE DEF i
    <3> QED BY <2>1, <2>7, LinesAssumption DEF i
  <2>9. output[i].kind = "result"
    <3> HIDE DEF i
    <3> QED BY <2>7, <2>8, LinesAssumption
  <2>10. results # {} /\ chosen = results
    BY <2>3, <2>5, <2>9
  <2>11. i \in Texts(lines) /\ lines[i].text = text
    <3> HIDE DEF chosen
    <3> QED BY <2>1, <2>7, <2>9 DEF Texts
  <2>12. ASSUME output = lines, NEW j \in Texts(lines), j > i, ~lines[j].split PROVE FALSE
    <3>1. j \in DOMAIN lines /\ lines[j].kind \in {"message", "result"}
      BY DEF Texts
    <3>2. lines[j] \in Lines["claude"]
      BY <1>2, <1>4, <3>1
    <3>3. lines[j].kind = "result"
      BY <3>1, <3>2, LinesAssumption
    <3>4. j \in read
      BY <2>2, <2>12, <3>1, <3>3
    <3>5. j \in chosen
      BY <2>3, <2>10, <2>12, <3>3, <3>4
    <3>6. i \in Int /\ j \in Int
      BY <1>2, <2>7, <3>1
    <3> QED BY <2>5, <2>12, <3>5, <3>6
  <2>13. output = lines => \A j \in Texts(lines) : j > i => lines[j].split
    BY <2>12
  <2> QED BY <2>11, <2>13
<1> QED
  BY <1>3, <1>4

LEMMA PassedWhen == IInv /\ Recorded => PassedOnTheAnswer
<1> SUFFICES ASSUME IInv, Recorded, Ended, Last.passed = TRUE PROVE PassedOnTheAnswer
  BY DEF PassedOnTheAnswer
<1>1. /\ Client(condition) \in {"claude", "codex"} /\ TaskAccepted(task)
      /\ stream \in Seq(Lines[Client(condition)]) /\ LastRead
  BY EndedRead
<1>2. PICK output : /\ Part(output, stream)
                    /\ Last.status = "succeeded" => output = stream
                    /\ Last = EntryOf(Client(condition), task.oracle, Last.status, output)
  BY <1>1 DEF LastRead
<1> DEFINE text == Normalized(Client(condition), output).text
<1>3. OraclePassed(task.oracle, text) = TRUE
  BY <1>2 DEF EntryOf
<1> HIDE DEF text
<1>4. /\ task.oracle # None /\ text # None
      /\ task.oracle.required \subseteq text /\ task.oracle.forbidden \cap text = {}
  <2>1. None # TRUE
    <3>1. None \notin Int \cup BOOLEAN
      BY ClientRunAssumption
    <3>2. None \notin BOOLEAN
      BY <3>1, Zenon
    <3> QED BY <3>2, Zenon
  <2>2. task.oracle # None
    BY <1>3, <2>1 DEF OraclePassed
  <2>3. OraclePassed(task.oracle, text)
    BY <1>3
  <2> QED BY <2>2, <2>3 DEF OraclePassed
<1>5. task.oracle.required # {}
  BY <1>1, <1>4 DEF TaskAccepted
<1>6. PICK i \in Texts(stream) :
        /\ stream[i].text = text
        /\ output = stream => \A j \in Texts(stream) : j > i => stream[j].split
  BY <1>1, <1>2, <1>4, TextJudged DEF text
<1>7. task.oracle.required \cap text # {}
  BY <1>4, <1>5
<1> QED
  BY <1>2, <1>4, <1>6, <1>7 DEF PassedOnTheAnswer

LEMMA MedianWhen == Recorded => MedianOfReported
<1> SUFFICES ASSUME Recorded, pc = "done" PROVE MedianOfReported
  BY DEF MedianOfReported
<1> DEFINE values == [i \in Reported |-> told[i]]
<1>1. /\ told \in Seq(Nat \cup {None})
      /\ summary.twiceMedian = IF Reported = {} THEN None ELSE TwiceMedian(values)
  BY DEF Recorded
<1>2. Reported = {i \in DOMAIN told : told[i] # None}
  BY DEF Reported
<1>3. IsFiniteSet(Reported)
  <2>1. Len(told) \in Nat /\ DOMAIN told = 1..Len(told)
    BY <1>1
  <2>2. IsFiniteSet(DOMAIN told)
    BY <2>1, FS_Interval
  <2> QED BY <1>2, <2>2, FS_Subset
<1>4. DOMAIN values = Reported /\ \A i \in Reported : values[i] = told[i] /\ values[i] \in Int
  BY <1>1, <1>2
<1> HIDE DEF values
<1>5. CASE Reported = {}
  BY <1>1, <1>2, <1>5 DEF MedianOfReported
<1>6. CASE Reported # {}
  <2> DEFINE m == summary.twiceMedian
  <2>1. m = TwiceMedian(values)
    BY <1>1, <1>6
  <2>2. /\ m \in Int
        /\ 2 * Cardinality({i \in Reported : 2 * values[i] < m}) <= Cardinality(Reported)
        /\ 2 * Cardinality({i \in Reported : 2 * values[i] > m}) <= Cardinality(Reported)
    <3> HIDE DEF m
    <3> QED BY <1>3, <1>4, <1>6, <2>1, MedianMiddle
  <2>3. m # None
    BY <2>2, ClientRunAssumption
  <2>4. /\ {i \in Reported : 2 * values[i] < m} = {i \in Reported : 2 * told[i] < m}
        /\ {i \in Reported : 2 * values[i] > m} = {i \in Reported : 2 * told[i] > m}
    BY <1>4
  <2> QED BY <1>2, <1>6, <2>2, <2>3, <2>4 DEF MedianOfReported
<1> QED
  BY <1>5, <1>6

\* CallsAreCounted: no number of calls is more than the client made, and one that is less
\* comes from a client that was stopped after a turn it had ended.
THEOREM CallsCounted == Spec => []CallsAreCounted
  BY Inductive, RunsAreRecorded, CallsCountedWhen, PTL

\* PassedOnTheAnswer, for every oracle that a task may have.
THEOREM PassesOnAnswer == Spec => []PassedOnTheAnswer
  BY Inductive, RunsAreRecorded, PassedWhen, PTL

\* MedianOfReported, for any number of repetitions and any numbers of tokens.
THEOREM MedianIsMiddle == Spec => []MedianOfReported
  BY RunsAreRecorded, MedianWhen, PTL

=============================================================================
