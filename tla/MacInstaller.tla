---------------------------- MODULE MacInstaller ----------------------------
(***************************************************************************)
(* installers/macos: install.sh and uninstall.sh, run one after another on *)
(* one account.                                                            *)
(*                                                                         *)
(* An installation is a version directory, a Rule file, a skill file, a    *)
(* runtime, a marketplace with a plugin, and one MCP registration in each  *)
(* client, and a receipt that records which of them are owned.  The scripts*)
(* decide by hash whether a thing is still what they wrote: the content of *)
(* a thing is the version that wrote it, or User when it is anything else. *)
(*                                                                         *)
(* The user changes things between two runs of a script, not during one.   *)
(* Every command may fail, those of the rollback too.  A command that      *)
(* fails has done nothing, or has stopped half way: a copy leaves half a   *)
(* file, a client may have done its work before it reports an error.  Moves*)
(* stay on one file system and are done or not done.                       *)
(***************************************************************************)
EXTENDS Naturals, FiniteSets

CONSTANTS
  Versions,      \* versions of the bundle
  Absent, User,  \* no such thing; a thing the scripts did not write
  Half,          \* what a copy or removal that stopped half way leaves
  None,
  MaxRuns,       \* bound on the runs of the two scripts
  MaxChanges,    \* bound on what the user changes between runs
  MaxStuck       \* bound on the commands of one rollback that fail

Clients == {"claude", "codex"}

Content == Versions \cup {Absent, User, Half}

VARIABLES
  disk,      \* everything an installation consists of
  receipt,   \* the directory state/current, or None
  present,   \* the clients whose command is on the PATH
  pc,        \* the script's next step, "idle" between runs
  option,    \* version, adapter only, skip plugin
  reinstall, \* REINSTALL
  made,      \* the *_CREATED, *_WRITTEN, *_INSTALLED and *_ADDED flags
  kept,      \* rollback-rule and rollback-skill
  noted,     \* *_MCP_SHA256 where *_MCP_REGISTERED is 1, else None
  warned,    \* WARNING of the uninstaller
  preserve,  \* PRESERVE_RUNTIME of the uninstaller
  before,    \* disk and receipt when the last run started
  outcome,   \* how the last run ended
  broken,    \* what failing commands of the last run left behind
  runs, changes

vars == <<disk, receipt, present, pc, option, reinstall, made, kept, noted,
          warned, preserve, before, outcome, broken, runs, changes>>

-----------------------------------------------------------------------------
Disk == [root : SUBSET Versions, rule : Content, skill : Content,
         runtime : Content, market : BOOLEAN, plugin : BOOLEAN,
         reg : [Clients -> Content]]

\* What is recorded as installed; None for what is not owned.
Receipt == [version : Versions, rule : Content, skill : Content,
            runtime : Versions \cup {None}, plugin : BOOLEAN, market : BOOLEAN,
            reg : [Clients -> Content \cup {None}], complete : BOOLEAN]

Option == [version : Versions, adapterOnly : BOOLEAN, skipPlugin : BOOLEAN]

InstallStep == {"root", "config", "runtime", "rule", "skill", "market", "plugin",
                "claude", "codex", "receipt", "swap", "print"}

RemoveStep == {"drop claude", "drop codex", "drop plugin", "drop market",
               "drop rule", "drop skill", "drop runtime", "drop receipt"}

Thing == {"root", "rule", "skill", "runtime", "market", "plugin"} \cup Clients

Outcome == {"none", "refused", "failed", "interrupted", "installed", "removed"}

NothingKept == [rule |-> Absent, skill |-> Absent]

NothingNoted == [c \in Clients |-> None]

ASSUME InstallerAssumption ==
  /\ Absent \notin Versions /\ User \notin Versions /\ Half \notin Versions
  /\ Absent # User /\ Half # User /\ Half # Absent
  /\ None \notin Content /\ None \notin Receipt
  /\ MaxRuns \in Nat /\ MaxChanges \in Nat /\ MaxStuck \in Nat

Init ==
  /\ disk \in {[root |-> {}, rule |-> r, skill |-> Absent, runtime |-> Absent,
                market |-> FALSE, plugin |-> FALSE, reg |-> g] :
                  r \in {Absent, User},
                  g \in [Clients -> {Absent}] \cup [Clients -> {User}]}
  /\ receipt = None
  /\ present \in SUBSET Clients
  /\ pc = "idle"
  /\ option \in Option
  /\ reinstall = FALSE
  /\ made = {}
  /\ kept = NothingKept
  /\ noted = NothingNoted
  /\ warned = FALSE
  /\ preserve = FALSE
  /\ before = [disk |-> disk, receipt |-> receipt]
  /\ outcome = "none" /\ broken = {}
  /\ runs = 0 /\ changes = 0

-----------------------------------------------------------------------------
(* The user, between two runs.                                             *)

UserChanges ==
  /\ pc = "idle" /\ changes < MaxChanges
  /\ changes' = changes + 1
  /\ \/ \E x \in {Absent, User} :
          /\ \/ disk' = [disk EXCEPT !.rule = x]
             \/ disk' = [disk EXCEPT !.skill = x]
             \/ disk' = [disk EXCEPT !.runtime = x]
             \/ \E c \in Clients : disk' = [disk EXCEPT !.reg[c] = x]
          /\ UNCHANGED present
     \/ present' \in SUBSET Clients /\ UNCHANGED disk
  /\ outcome' = "none"
  /\ UNCHANGED <<receipt, pc, option, reinstall, made, kept, noted, warned,
                 preserve, before, broken, runs>>

-----------------------------------------------------------------------------
(* install.sh: the checks before anything is changed.                      *)

Reinstall == receipt # None

\* Faulty variant of OwnsFile: any file that is there is overwritten.
OwnsAnyFile(content, recorded) == Reinstall => content # Absent

\* verify_owned_file: an existing file must be the one the receipt records.
OwnsFile(content, recorded) ==
  IF content = Absent THEN ~Reinstall ELSE Reinstall /\ recorded = content

OwnsRuntime ==
  disk.runtime # Absent => Reinstall /\ receipt.runtime = disk.runtime

\* check_registration_collision of a client that answers.
NoCollision(c) ==
  disk.reg[c] # Absent => Reinstall /\ receipt.reg[c] = disk.reg[c]

\* A client that is not there, or whose command fails, is passed over.
Accepted(o, answering) ==
  /\ Reinstall => receipt.complete
  /\ OwnsFile(disk.rule, IF Reinstall THEN receipt.rule ELSE None)
  /\ OwnsFile(disk.skill, IF Reinstall THEN receipt.skill ELSE None)
  /\ ~o.adapterOnly => OwnsRuntime /\ \A c \in answering : NoCollision(c)

StartInstall ==
  /\ pc = "idle" /\ runs < MaxRuns
  /\ runs' = runs + 1
  /\ before' = [disk |-> disk, receipt |-> receipt]
  /\ made' = {} /\ kept' = NothingKept /\ noted' = NothingNoted /\ broken' = {}
  /\ warned' = FALSE /\ preserve' = FALSE
  /\ reinstall' = Reinstall
  /\ \E o \in Option, answering \in SUBSET present :
       /\ option' = o
       /\ IF Accepted(o, answering) THEN pc' = "root" /\ outcome' = "none"
                         ELSE pc' = "idle" /\ outcome' = "refused"
  /\ UNCHANGED <<disk, receipt, present, changes>>

-----------------------------------------------------------------------------
(* install.sh: the steps under the trap.                                   *)

Runtime == ~option.adapterOnly

\* One step: what becomes of the disk, the flag it sets, and what is next.
Step(from, to, newDisk, things) ==
  /\ pc = from /\ pc' = to
  /\ disk' = newDisk
  /\ made' = made \cup things
  /\ UNCHANGED <<present, option, reinstall, warned, preserve, before, outcome,
                 broken, runs, changes>>

PlaceRoot ==
  /\ Step("root", "config", [disk EXCEPT !.root = @ \cup {option.version}],
          IF option.version \in disk.root THEN {} ELSE {"root"})
  /\ UNCHANGED <<receipt, kept, noted>>

\* The routing policy lies in the version directory, whose path the receipt
\* records.
SamePolicy == reinstall => receipt.version = option.version

CheckConfig ==
  /\ pc = "config" /\ SamePolicy
  /\ Step("config", "runtime", disk, {})
  /\ UNCHANGED <<receipt, kept, noted>>

PlaceRuntime ==
  /\ IF ~Runtime
       THEN Step("runtime", "rule", disk, {})
       ELSE IF disk.runtime = Absent
         THEN Step("runtime", "rule", [disk EXCEPT !.runtime = option.version],
                   {"runtime"})
         ELSE /\ disk.runtime = option.version
              /\ Step("runtime", "rule", disk, {})
  /\ UNCHANGED <<receipt, kept, noted>>

\* The two files are copied over their targets, and only then is the flag set
\* that makes the rollback restore them.
WriteRule ==
  /\ Step("rule", "skill", [disk EXCEPT !.rule = option.version], {"rule"})
  /\ kept' = IF reinstall THEN [rule |-> disk.rule, skill |-> disk.skill] ELSE kept
  /\ UNCHANGED <<receipt, noted>>

WriteSkill ==
  /\ Step("skill", "market", [disk EXCEPT !.skill = option.version], {"skill"})
  /\ UNCHANGED <<receipt, kept, noted>>

WantsPlugin == ~option.skipPlugin /\ "claude" \in present

AddMarket ==
  /\ IF WantsPlugin
       THEN Step("market", "plugin", [disk EXCEPT !.market = TRUE], {"market"})
       ELSE Step("market", "plugin", disk, {})
  /\ UNCHANGED <<receipt, kept, noted>>

AddPlugin ==
  /\ IF WantsPlugin
       THEN Step("plugin", "claude", [disk EXCEPT !.plugin = TRUE], {"plugin"})
       ELSE Step("plugin", "claude", disk, {})
  /\ UNCHANGED <<receipt, kept, noted>>

WantsClient(c) == Runtime /\ c \in present

Registered(c) == reinstall /\ receipt.reg[c] # None

\* A registration the receipt owns is taken over as it is recorded; a client
\* does not add a second registration of the same name.
Register(c, to) ==
  /\ pc = c
  /\ IF ~WantsClient(c)
       THEN Step(c, to, disk, {}) /\ UNCHANGED noted
       ELSE IF Registered(c)
         THEN Step(c, to, disk, {}) /\ noted' = [noted EXCEPT ![c] = receipt.reg[c]]
         ELSE /\ disk.reg[c] = Absent
              /\ Step(c, to, [disk EXCEPT !.reg[c] = option.version], {c})
              /\ noted' = [noted EXCEPT ![c] = option.version]
  /\ UNCHANGED <<receipt, kept>>

\* Faulty variant of NewReceipt: a runtime that is found counts as installed.
RecordsRuntimeFound ==
  [version |-> option.version, rule |-> disk.rule, skill |-> disk.skill,
   runtime |-> disk.runtime,
   plugin |-> "plugin" \in made, market |-> "market" \in made,
   reg |-> noted, complete |-> TRUE]

NewReceipt ==
  [version |-> option.version, rule |-> disk.rule, skill |-> disk.skill,
   runtime |-> IF Runtime THEN option.version ELSE None,
   plugin |-> "plugin" \in made, market |-> "market" \in made,
   reg |-> noted, complete |-> TRUE]

\* The new receipt is written aside; an old one is moved away first.
PlaceReceipt ==
  /\ IF receipt = None THEN receipt' = NewReceipt /\ Step("receipt", "print", disk, {})
                       ELSE receipt' = None /\ Step("receipt", "swap", disk, {})
  /\ UNCHANGED <<kept, noted>>

SwapReceipt ==
  /\ Step("swap", "print", disk, {})
  /\ receipt' = NewReceipt
  /\ UNCHANGED <<kept, noted>>

FinishInstall ==
  /\ pc = "print" /\ pc' = "idle"
  /\ outcome' = "installed"
  /\ UNCHANGED <<disk, receipt, present, option, reinstall, made, kept, noted,
                 warned, preserve, before, broken, runs, changes>>

\* What the failing command may leave: half a file under a target whose flag is
\* not set, or what a client did before it failed.
Spoilt ==
  CASE pc = "rule"  -> [disk EXCEPT !.rule = Half]
    [] pc = "skill" -> [disk EXCEPT !.skill = Half]
    [] pc = "market" /\ WantsPlugin -> [disk EXCEPT !.market = TRUE]
    [] pc = "plugin" /\ WantsPlugin -> [disk EXCEPT !.plugin = TRUE]
    [] pc \in Clients /\ WantsClient(pc) /\ ~Registered(pc) /\ disk.reg[pc] = Absent
         -> [disk EXCEPT !.reg[pc] = option.version]
    [] OTHER -> disk

\* Faulty variant of FileAfter: a reinstall's files are removed, not restored.
RemovesFile(x, now, found, stuck, half) ==
  CASE x \in made \ stuck -> Absent
    [] x \in half          -> Half
    [] OTHER               -> now

\* A file of which a flag says that it was written, taken back or not.
FileAfter(x, now, found, stuck, half) ==
  CASE x \in made \ stuck -> found
    [] x \in half          -> Half
    [] OTHER               -> now

\* rollback_partial with a status other than 0: what the flags say is taken
\* back.  Its own commands (set +e) fail without a word and leave the thing,
\* or half of it; a version directory counts as there while any of it is left.
RolledBack(d, stuck, half) ==
  LET undone == made \ stuck IN
  [root    |-> IF "root" \in undone THEN d.root \ {option.version} ELSE d.root,
   rule    |-> FileAfter("rule", d.rule, IF reinstall THEN kept.rule ELSE Absent,
                         stuck, half),
   skill   |-> FileAfter("skill", d.skill, IF reinstall THEN kept.skill ELSE Absent,
                         stuck, half),
   runtime |-> FileAfter("runtime", d.runtime, Absent, stuck, half),
   market  |-> d.market /\ "market" \notin undone,
   plugin  |-> d.plugin /\ "plugin" \notin undone,
   reg     |-> [c \in Clients |-> IF c \in undone THEN Absent ELSE d.reg[c]]]

\* The receipt is no part of the rollback: once the old one was moved away or
\* the new one placed, it stays as it is.
Rollback ==
  \E d \in {disk, Spoilt}, stuck \in {s \in SUBSET made : Cardinality(s) <= MaxStuck} :
  \E half \in SUBSET stuck :
    /\ disk' = RolledBack(d, stuck, half)
    /\ broken' = stuck \cup (IF d = disk THEN {} ELSE {pc})
                       \cup (IF pc \in {"swap", "print"} THEN {"receipt"} ELSE {})

KeepAllButDisk ==
  UNCHANGED <<receipt, present, option, reinstall, made, kept, noted, warned,
              preserve, before, runs, changes>>

\* A command fails, or one of the comparisons after the trap was set.
FailInstall ==
  /\ pc \in InstallStep
  /\ pc' = "idle"
  /\ Rollback
  /\ outcome' = "failed"
  /\ KeepAllButDisk

\* INT or TERM: the trap runs after the current command with that command's
\* status, and rolls back only if that is not 0.
InterruptInstall ==
  /\ pc \in InstallStep
  /\ pc' = "idle"
  /\ Rollback \/ UNCHANGED <<disk, broken>>
  /\ outcome' = "interrupted"
  /\ KeepAllButDisk

Install ==
  \/ PlaceRoot \/ CheckConfig \/ PlaceRuntime \/ WriteRule \/ WriteSkill
  \/ AddMarket \/ AddPlugin
  \/ Register("claude", "codex") \/ Register("codex", "receipt")
  \/ PlaceReceipt \/ SwapReceipt \/ FinishInstall

-----------------------------------------------------------------------------
(* uninstall.sh.                                                           *)

StartUninstall ==
  /\ pc = "idle" /\ runs < MaxRuns
  /\ runs' = runs + 1
  /\ before' = [disk |-> disk, receipt |-> receipt]
  /\ made' = {} /\ kept' = NothingKept /\ noted' = NothingNoted /\ broken' = {}
  /\ warned' = FALSE /\ preserve' = FALSE
  /\ IF receipt # None /\ receipt.complete
       THEN pc' = "drop claude" /\ outcome' = "none"
       ELSE pc' = "idle" /\ outcome' = "refused"
  /\ UNCHANGED <<disk, receipt, present, option, reinstall, changes>>

Drop(from, to, newDisk) ==
  /\ pc = from /\ pc' = to
  /\ disk' = newDisk
  /\ UNCHANGED <<receipt, present, option, reinstall, made, kept, noted, before,
                 outcome, broken, runs, changes>>

\* Faulty variant of DropRegistration: the registration's hash is not compared.
DropsAnyRegistration(c, from, to) ==
  /\ Drop(from, to, IF receipt.reg[c] = None THEN disk
                                           ELSE [disk EXCEPT !.reg[c] = Absent])
  /\ UNCHANGED <<warned, preserve>>

\* Faulty variant of DropRegistration: no warning for a client that is gone.
IgnoresMissingClient(c, from, to) ==
  /\ Drop(from, to, IF c \in present /\ disk.reg[c] = receipt.reg[c]
                      THEN [disk EXCEPT !.reg[c] = Absent] ELSE disk)
  /\ UNCHANGED <<warned, preserve>>

\* A registration that is owned, found and unchanged is removed; one that
\* cannot be found, compared or removed is reported and keeps the runtime.
DropRegistration(c, from, to) ==
  /\ pc = from
  /\ \/ /\ receipt.reg[c] = None
        /\ Drop(from, to, disk)
        /\ UNCHANGED <<warned, preserve>>
     \/ /\ receipt.reg[c] # None /\ c \in present
        /\ disk.reg[c] # Absent /\ disk.reg[c] = receipt.reg[c]
        /\ Drop(from, to, [disk EXCEPT !.reg[c] = Absent])
        /\ UNCHANGED <<warned, preserve>>
     \/ /\ receipt.reg[c] # None
        /\ Drop(from, to, disk)
        /\ warned' = TRUE /\ preserve' = TRUE

DropPlugin ==
  /\ pc = "drop plugin"
  /\ \/ /\ receipt.plugin => "claude" \in present
        /\ Drop("drop plugin", "drop market", [disk EXCEPT !.plugin = @ /\ ~receipt.plugin])
        /\ UNCHANGED <<warned, preserve>>
     \/ /\ receipt.plugin
        /\ Drop("drop plugin", "drop market", disk)
        /\ warned' = TRUE /\ UNCHANGED preserve

DropMarket ==
  /\ pc = "drop market"
  /\ \/ /\ Drop("drop market", "drop rule",
                [disk EXCEPT !.market = @ /\ ~(receipt.market /\ "claude" \in present)])
        /\ UNCHANGED <<warned, preserve>>
     \/ /\ receipt.market /\ "claude" \in present
        /\ Drop("drop market", "drop rule", disk)
        /\ warned' = TRUE /\ UNCHANGED preserve

\* preserve_or_remove.
DropRule ==
  /\ Drop("drop rule", "drop skill",
          [disk EXCEPT !.rule = IF @ = receipt.rule THEN Absent ELSE @])
  /\ warned' = (warned \/ disk.rule \notin {Absent, receipt.rule})
  /\ UNCHANGED preserve

DropSkill ==
  /\ Drop("drop skill", "drop runtime",
          [disk EXCEPT !.skill = IF @ = receipt.skill THEN Absent ELSE @])
  /\ warned' = (warned \/ disk.skill \notin {Absent, receipt.skill})
  /\ UNCHANGED preserve

RemovesRuntime ==
  receipt.runtime # None /\ ~preserve /\ disk.runtime = receipt.runtime

DropRuntime ==
  /\ pc = "drop runtime"
  /\ IF RemovesRuntime
       THEN Drop("drop runtime", "drop receipt", [disk EXCEPT !.runtime = Absent])
       ELSE Drop("drop runtime", "drop receipt", disk)
  /\ warned' = \/ warned
               \/ receipt.runtime # None
                    /\ (preserve \/ disk.runtime \notin {Absent, receipt.runtime})
  /\ UNCHANGED preserve

DropReceipt ==
  /\ pc = "drop receipt" /\ pc' = "idle"
  /\ receipt' = None
  /\ outcome' = "removed"
  /\ UNCHANGED <<disk, present, option, reinstall, made, kept, noted, warned,
                 preserve, before, broken, runs, changes>>

\* A failing command ends the script, as a signal does; nothing is undone.  The
\* runtime and the receipt are several files and may be left in part.
StopUninstall ==
  /\ pc \in RemoveStep
  /\ pc' = "idle"
  /\ disk' \in {disk} \cup IF pc = "drop runtime" /\ RemovesRuntime
                             THEN {[disk EXCEPT !.runtime = Half]} ELSE {}
  /\ receipt' \in {receipt} \cup IF pc = "drop receipt"
                                   THEN {[receipt EXCEPT !.complete = FALSE]} ELSE {}
  /\ outcome' = "interrupted"
  /\ UNCHANGED <<present, option, reinstall, made, kept, noted, warned,
                 preserve, before, broken, runs, changes>>

Uninstall ==
  \/ DropRegistration("claude", "drop claude", "drop codex")
  \/ DropRegistration("codex", "drop codex", "drop plugin")
  \/ DropPlugin \/ DropMarket \/ DropRule \/ DropSkill \/ DropRuntime
  \/ DropReceipt

-----------------------------------------------------------------------------
Next ==
  \/ UserChanges
  \/ StartInstall \/ Install \/ FailInstall \/ InterruptInstall
  \/ StartUninstall \/ Uninstall \/ StopUninstall

Spec == Init /\ [][Next]_vars

-----------------------------------------------------------------------------
TypeOK ==
  /\ disk \in Disk
  /\ receipt \in Receipt \cup {None}
  /\ present \subseteq Clients
  /\ pc \in {"idle"} \cup InstallStep \cup RemoveStep
  /\ option \in Option
  /\ reinstall \in BOOLEAN
  /\ made \subseteq Thing
  /\ kept \in [rule : Content, skill : Content]
  /\ noted \in [Clients -> Content \cup {None}]
  /\ warned \in BOOLEAN /\ preserve \in BOOLEAN
  /\ before \in [disk : Disk, receipt : Receipt \cup {None}]
  /\ outcome \in Outcome
  /\ broken \subseteq Thing \cup {"receipt"}
  /\ runs \in 0..MaxRuns /\ changes \in 0..MaxChanges

\* The things a script recognizes by their content.
Files(d) == [root |-> d.root, rule |-> d.rule, skill |-> d.skill,
             runtime |-> d.runtime, reg |-> d.reg]

\* No run of a script, whatever fails in it, changes a file, a runtime or a
\* registration that the user wrote or modified ("preserve unowned or
\* user-modified files").
UserContentKept ==
  [][pc # "idle" =>
       /\ disk.rule = User => disk'.rule = User
       /\ disk.skill = User => disk'.skill = User
       /\ disk.runtime = User => disk'.runtime = User
       /\ \A c \in Clients : disk.reg[c] = User => disk'.reg[c] = User]_vars

\* An installation or reinstallation that fails at any step leaves version
\* directories, files, runtime, registrations and receipt as it found them, but
\* for what a command left half done or the rollback could not take back.  A
\* marketplace and plugin that it had added again are gone, whoever added them
\* first: a failed reinstallation takes away those of the earlier one.
FailureRestores ==
  outcome = "failed" =>
    /\ "root" \notin broken => disk.root = before.disk.root
    /\ "rule" \notin broken => disk.rule = before.disk.rule
    /\ "skill" \notin broken => disk.skill = before.disk.skill
    /\ "runtime" \notin broken => disk.runtime = before.disk.runtime
    /\ \A c \in Clients \ broken : disk.reg[c] = before.disk.reg[c]
    /\ "market" \notin broken => disk.market = (before.disk.market /\ "market" \notin made)
    /\ "plugin" \notin broken => disk.plugin = (before.disk.plugin /\ "plugin" \notin made)
    /\ "receipt" \notin broken => receipt = before.receipt

\* An uninstallation that gives no warning has removed the files, the runtime,
\* the plugin and the registrations that the receipt recorded when it started.
\* (The marketplace stays, unreported, when the client is gone, and the version
\* directories always do.)
CleanRemoval ==
  outcome = "removed" /\ ~warned =>
    /\ disk.rule = Absent /\ disk.skill = Absent
    /\ before.receipt.runtime # None => disk.runtime = Absent
    /\ before.receipt.plugin => ~disk.plugin
    /\ \A c \in Clients : before.receipt.reg[c] # None => disk.reg[c] = Absent

\* An interrupted installation is rolled back like a failed one.
InterruptRestoresFiles ==
  outcome = "interrupted" /\ pc = "idle" /\ before.receipt = None =>
    Files(disk) = Files(before.disk)

=============================================================================
