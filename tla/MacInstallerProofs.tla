-------------------------- MODULE MacInstallerProofs --------------------------
(* For any versions and any number of runs and changes: a failure is rolled *)
(* back, a removal removes, and what the user wrote stays.                  *)
EXTENDS MacInstaller, TLAPS

Early == {"root", "config", "runtime", "rule"}

\* Receipts, and what will be recorded in one, name versions and no user content.
RecordOK ==
  /\ receipt # None => /\ receipt.rule \in Versions /\ receipt.skill \in Versions
                       /\ \A c \in Clients : receipt.reg[c] \in Versions \cup {None}
  /\ \A c \in Clients : noted[c] \in Versions \cup {None}

\* What an installation has found: files of its own, or none.
FoundOK ==
  pc \in InstallStep =>
    /\ before.disk.rule # User /\ before.disk.skill # User
    /\ ~reinstall => before.disk.rule = Absent /\ before.disk.skill = Absent
    /\ pc \notin {"swap", "print"} => reinstall = (receipt # None)
                                      /\ receipt = before.receipt

\* How far an installation has come, and what it keeps for the rollback.
ProgressOK ==
  /\ pc = "root" => made = {}
  /\ pc \in Early => "rule" \notin made /\ "skill" \notin made
  /\ pc \in InstallStep \ Early =>
       /\ "rule" \in made
       /\ reinstall => kept.rule = before.disk.rule /\ kept.skill = before.disk.skill
  /\ pc \in InstallStep \ (Early \cup {"skill"}) => "skill" \in made

\* What an installation has set a flag for is its own and, but for the files it
\* keeps, was not there before; everything else is as it was found.
FlagsOK ==
  pc \in InstallStep =>
    /\ IF "root" \in made
         THEN /\ disk.root = before.disk.root \cup {option.version}
              /\ option.version \notin before.disk.root
         ELSE disk.root = before.disk.root
    /\ disk.rule = IF "rule" \in made THEN option.version ELSE before.disk.rule
    /\ disk.skill = IF "skill" \in made THEN option.version ELSE before.disk.skill
    /\ IF "runtime" \in made
         THEN disk.runtime = option.version /\ before.disk.runtime = Absent
         ELSE disk.runtime = before.disk.runtime
    /\ \A c \in Clients :
         IF c \in made
           THEN disk.reg[c] = option.version /\ before.disk.reg[c] = Absent
           ELSE disk.reg[c] = before.disk.reg[c]
    /\ disk.market = IF "market" \in made THEN TRUE ELSE before.disk.market
    /\ disk.plugin = IF "plugin" \in made THEN TRUE ELSE before.disk.plugin

\* What an uninstallation has passed without a warning is gone.
DroppedOK ==
  pc \in RemoveStep =>
    /\ receipt # None /\ before.receipt = receipt
    /\ preserve => warned
    /\ ~warned =>
         /\ pc # "drop claude" /\ receipt.reg["claude"] # None
              => disk.reg["claude"] = Absent
         /\ pc \notin {"drop claude", "drop codex"} /\ receipt.reg["codex"] # None
              => disk.reg["codex"] = Absent
         /\ pc \notin {"drop claude", "drop codex", "drop plugin"} /\ receipt.plugin
              => ~disk.plugin
         /\ pc \in {"drop skill", "drop runtime", "drop receipt"} => disk.rule = Absent
         /\ pc \in {"drop runtime", "drop receipt"} => disk.skill = Absent
         /\ pc = "drop receipt" /\ receipt.runtime # None => disk.runtime = Absent

EndOK ==
  /\ pc # "idle" => outcome = "none"
  /\ FailureRestores /\ CleanRemoval

IInv == TypeOK /\ RecordOK /\ FoundOK /\ ProgressOK /\ FlagsOK /\ DroppedOK /\ EndOK

-----------------------------------------------------------------------------
LEMMA InitEstablishes == Init => IInv
<1> SUFFICES ASSUME Init PROVE IInv
  OBVIOUS
<1>1. PICK r \in {Absent, User}, g \in [Clients -> {Absent}] \cup [Clients -> {User}] :
        disk = [root |-> {}, rule |-> r, skill |-> Absent, runtime |-> Absent,
                market |-> FALSE, plugin |-> FALSE, reg |-> g]
  BY DEF Init
<1>2. disk \in Disk
  <2>1. r \in Content /\ Absent \in Content /\ g \in [Clients -> Content]
    BY DEF Content
  <2> QED
    BY <1>1, <2>1 DEF Disk
<1>3. TypeOK
  <2>1. /\ receipt \in {None} /\ before \in [disk : Disk, receipt : Receipt \cup {None}]
        /\ kept \in [rule : Content, skill : Content]
        /\ noted \in [Clients -> Content \cup {None}]
    BY <1>2 DEF Init, Content, NothingKept, NothingNoted
  <2>2. runs \in 0..MaxRuns /\ changes \in 0..MaxChanges
    BY InstallerAssumption DEF Init
  <2>3. /\ present \subseteq Clients /\ pc = "idle" /\ option \in Option
        /\ reinstall = FALSE /\ made = {} /\ warned = FALSE /\ preserve = FALSE
        /\ outcome = "none" /\ broken = {}
    BY DEF Init
  <2> QED
    BY <1>2, <2>1, <2>2, <2>3 DEF TypeOK, Outcome
<1>4. RecordOK /\ FoundOK /\ ProgressOK /\ FlagsOK /\ DroppedOK /\ EndOK
  BY DEF Init, NothingNoted, RecordOK, FoundOK, ProgressOK, FlagsOK, DroppedOK, EndOK, InstallStep,
         RemoveStep, Early, FailureRestores, CleanRemoval
<1> QED
  BY <1>3, <1>4 DEF IInv

LEMMA UserStep == IInv /\ UserChanges => IInv'
<1> SUFFICES ASSUME IInv, UserChanges PROVE IInv'
  OBVIOUS
<1> USE DEF IInv
<1>1. /\ pc = "idle" /\ pc' = "idle" /\ outcome' = "none"
      /\ changes' \in 0..MaxChanges /\ present' \subseteq Clients
      /\ UNCHANGED <<receipt, option, reinstall, made, kept, noted, warned, preserve,
                     before, broken, runs>>
  BY InstallerAssumption DEF UserChanges, TypeOK
<1>2. disk' \in Disk
  BY DEF UserChanges, TypeOK, Disk, Content
<1>3. TypeOK'
  BY <1>1, <1>2 DEF TypeOK, Outcome
<1>4. (RecordOK /\ FoundOK /\ ProgressOK /\ FlagsOK /\ DroppedOK /\ EndOK)'
  BY <1>1 DEF RecordOK, FoundOK, ProgressOK, FlagsOK, DroppedOK, EndOK, InstallStep,
              RemoveStep, Early, FailureRestores, CleanRemoval
<1> QED
  BY <1>3, <1>4

LEMMA StartInstallStep == IInv /\ StartInstall => IInv'
<1> SUFFICES ASSUME IInv, StartInstall PROVE IInv'
  OBVIOUS
<1> USE DEF IInv
<1>1. PICK o \in Option, answering \in SUBSET present :
        /\ option' = o
        /\ IF Accepted(o, answering) THEN pc' = "root" /\ outcome' = "none"
                                     ELSE pc' = "idle" /\ outcome' = "refused"
  BY DEF StartInstall
<1>2. /\ pc = "idle" /\ runs' \in 0..MaxRuns
      /\ before' = [disk |-> disk, receipt |-> receipt]
      /\ made' = {} /\ kept' = NothingKept /\ noted' = NothingNoted /\ broken' = {}
      /\ warned' = FALSE /\ preserve' = FALSE /\ reinstall' = (receipt # None)
      /\ UNCHANGED <<disk, receipt, present, changes>>
  BY InstallerAssumption DEF StartInstall, TypeOK, Reinstall
<1>3. TypeOK'
  BY <1>1, <1>2 DEF TypeOK, Outcome, InstallStep, NothingKept, NothingNoted, Content
<1>4. RecordOK'
  BY <1>2 DEF RecordOK, NothingNoted
<1>5. pc' \in InstallStep =>
        /\ disk.rule # User /\ disk.skill # User
        /\ receipt = None => disk.rule = Absent /\ disk.skill = Absent
  BY <1>1, InstallerAssumption DEF Accepted, OwnsFile, Reinstall, RecordOK, InstallStep
<1>6. FoundOK'
  BY <1>2, <1>5, <1>1 DEF FoundOK
<1>7. (ProgressOK /\ FlagsOK /\ DroppedOK /\ EndOK)'
  BY <1>1, <1>2 DEF ProgressOK, FlagsOK, DroppedOK, EndOK, InstallStep,
              RemoveStep, Early, FailureRestores, CleanRemoval
<1> QED
  BY <1>3, <1>4, <1>6, <1>7

-----------------------------------------------------------------------------
(* install.sh.                                                              *)

\* A step changes one thing, and all that it does not name stays.
LEMMA PlaceRootStep == IInv /\ PlaceRoot => IInv'
<1> SUFFICES ASSUME IInv, PlaceRoot PROVE IInv'
  OBVIOUS
<1> USE DEF IInv
<1>1. /\ pc = "root" /\ pc' = "config"
      /\ disk' = [disk EXCEPT !.root = @ \cup {option.version}]
      /\ made' = IF option.version \in disk.root THEN {} ELSE {"root"}
      /\ UNCHANGED <<receipt, present, option, reinstall, kept, noted, warned, preserve,
                     before, outcome, broken, runs, changes>>
  BY DEF PlaceRoot, Step, ProgressOK
<1>2. disk' \in Disk
  BY <1>1 DEF TypeOK, Disk, Option
<1>3. TypeOK'
  BY <1>1, <1>2 DEF TypeOK, InstallStep, Thing
<1>4. RecordOK' /\ FoundOK' /\ ProgressOK' /\ DroppedOK' /\ EndOK'
  BY <1>1 DEF RecordOK, FoundOK, ProgressOK, DroppedOK, EndOK, InstallStep,
              RemoveStep, Early, FailureRestores, CleanRemoval
<1>5. FlagsOK'
  <2>1. made = {} /\ pc \in InstallStep
    BY <1>1 DEF ProgressOK, InstallStep
  <2>2. /\ disk'.root = disk.root \cup {option.version}
        /\ disk'.rule = disk.rule /\ disk'.skill = disk.skill
        /\ disk'.runtime = disk.runtime /\ disk'.reg = disk.reg
    BY <1>1 DEF TypeOK, Disk
  <2>3. /\ disk.root = before.disk.root
        /\ option.version \in disk.root => disk'.root = disk.root
    BY <2>1, <2>2 DEF FlagsOK
  <2> QED
    BY <1>1, <2>1, <2>2, <2>3 DEF FlagsOK, Clients
<1> QED
  BY <1>3, <1>4, <1>5

LEMMA PlaceRuntimeStep == IInv /\ PlaceRuntime => IInv'
<1> SUFFICES ASSUME IInv, PlaceRuntime PROVE IInv'
  OBVIOUS
<1> USE DEF IInv
<1>1. /\ pc = "runtime" /\ pc' = "rule"
      /\ \/ disk' = disk /\ made' = made
         \/ /\ disk.runtime = Absent
            /\ disk' = [disk EXCEPT !.runtime = option.version]
            /\ made' = made \cup {"runtime"}
      /\ UNCHANGED <<receipt, present, option, reinstall, kept, noted, warned, preserve,
                     before, outcome, broken, runs, changes>>
  BY DEF PlaceRuntime, Step
<1>2. disk' \in Disk
  BY <1>1 DEF TypeOK, Disk, Option, Content
<1>3. TypeOK'
  BY <1>1, <1>2 DEF TypeOK, InstallStep, Thing
<1>4. RecordOK' /\ FoundOK' /\ ProgressOK' /\ DroppedOK' /\ EndOK'
  BY <1>1 DEF RecordOK, FoundOK, ProgressOK, DroppedOK, EndOK, InstallStep,
              RemoveStep, Early, FailureRestores, CleanRemoval
<1>5. FlagsOK'
  <2>1. CASE disk' = disk /\ made' = made
    BY <1>1, <2>1 DEF FlagsOK, InstallStep
  <2>2. ASSUME disk.runtime = Absent,
               disk' = [disk EXCEPT !.runtime = option.version],
               made' = made \cup {"runtime"}
        PROVE  FlagsOK'
    <3>1. /\ disk'.root = disk.root /\ disk'.rule = disk.rule
          /\ disk'.skill = disk.skill /\ disk'.reg = disk.reg
          /\ disk'.market = disk.market /\ disk'.plugin = disk.plugin
          /\ disk'.runtime = option.version
      BY <2>2 DEF TypeOK, Disk
    <3>2. before.disk.runtime = Absent
      BY <1>1, <2>2 DEF FlagsOK, InstallStep, Option
    <3>3. \A x : x # "runtime" => (x \in made' <=> x \in made)
      BY <2>2
    <3> QED
      BY <1>1, <2>2, <3>1, <3>2, <3>3 DEF FlagsOK, InstallStep, Clients
  <2> QED
    BY <1>1, <2>1, <2>2
<1> QED
  BY <1>3, <1>4, <1>5

LEMMA WriteRuleStep == IInv /\ WriteRule => IInv'
<1> SUFFICES ASSUME IInv, WriteRule PROVE IInv'
  OBVIOUS
<1> USE DEF IInv
<1>1. /\ pc = "rule" /\ pc' = "skill"
      /\ disk' = [disk EXCEPT !.rule = option.version]
      /\ made' = made \cup {"rule"}
      /\ kept' = IF reinstall THEN [rule |-> disk.rule, skill |-> disk.skill] ELSE kept
      /\ UNCHANGED <<receipt, present, option, reinstall, noted, warned, preserve,
                     before, outcome, broken, runs, changes>>
  BY DEF WriteRule, Step
<1>2. disk' \in Disk
  BY <1>1 DEF TypeOK, Disk, Option, Content
<1>3. TypeOK'
  BY <1>1, <1>2 DEF TypeOK, InstallStep, Thing, Disk
<1>4. RecordOK' /\ FoundOK' /\ DroppedOK' /\ EndOK'
  BY <1>1 DEF RecordOK, FoundOK, DroppedOK, EndOK, InstallStep,
              RemoveStep, Early, FailureRestores, CleanRemoval
<1>5. ProgressOK'
  BY <1>1 DEF ProgressOK, FlagsOK, InstallStep, Early
<1>6. FlagsOK'
  <2>1. /\ disk'.root = disk.root /\ disk'.skill = disk.skill
        /\ disk'.runtime = disk.runtime /\ disk'.reg = disk.reg
        /\ disk'.market = disk.market /\ disk'.plugin = disk.plugin
        /\ disk'.rule = option.version
    BY <1>1 DEF TypeOK, Disk
  <2>2. \A x : x # "rule" => (x \in made' <=> x \in made)
    BY <1>1
  <2> QED
    BY <1>1, <2>1, <2>2 DEF FlagsOK, InstallStep, Clients
<1> QED
  BY <1>3, <1>4, <1>5, <1>6

LEMMA WriteSkillStep == IInv /\ WriteSkill => IInv'
<1> SUFFICES ASSUME IInv, WriteSkill PROVE IInv'
  OBVIOUS
<1> USE DEF IInv
<1>1. /\ pc = "skill" /\ pc' = "market"
      /\ disk' = [disk EXCEPT !.skill = option.version]
      /\ made' = made \cup {"skill"}
      /\ UNCHANGED <<receipt, present, option, reinstall, kept, noted, warned, preserve,
                     before, outcome, broken, runs, changes>>
  BY DEF WriteSkill, Step
<1>2. disk' \in Disk
  BY <1>1 DEF TypeOK, Disk, Option, Content
<1>3. TypeOK'
  BY <1>1, <1>2 DEF TypeOK, InstallStep, Thing
<1>4. RecordOK' /\ FoundOK' /\ ProgressOK' /\ DroppedOK' /\ EndOK'
  BY <1>1 DEF RecordOK, FoundOK, ProgressOK, DroppedOK, EndOK, InstallStep,
              RemoveStep, Early, FailureRestores, CleanRemoval
<1>5. FlagsOK'
  <2>1. /\ disk'.root = disk.root /\ disk'.rule = disk.rule
        /\ disk'.runtime = disk.runtime /\ disk'.reg = disk.reg
        /\ disk'.market = disk.market /\ disk'.plugin = disk.plugin
        /\ disk'.skill = option.version
    BY <1>1 DEF TypeOK, Disk
  <2>2. \A x : x # "skill" => (x \in made' <=> x \in made)
    BY <1>1
  <2> QED
    BY <1>1, <2>1, <2>2 DEF FlagsOK, InstallStep, Clients
<1> QED
  BY <1>3, <1>4, <1>5

\* The routing policy, the marketplace and the plugin: none of the files changes.
LEMMA OtherSteps == IInv /\ (CheckConfig \/ AddMarket \/ AddPlugin) => IInv'
<1> SUFFICES ASSUME IInv, CheckConfig \/ AddMarket \/ AddPlugin PROVE IInv'
  OBVIOUS
<1> USE DEF IInv
<1>1. /\ <<pc, pc'>> \in {<<"config", "runtime">>, <<"market", "plugin">>, <<"plugin", "claude">>}
      /\ \/ disk' = disk /\ made' = made
         \/ disk' = [disk EXCEPT !.market = TRUE] /\ made' = made \cup {"market"}
         \/ disk' = [disk EXCEPT !.plugin = TRUE] /\ made' = made \cup {"plugin"}
      /\ UNCHANGED <<receipt, present, option, reinstall, kept, noted, warned, preserve,
                     before, outcome, broken, runs, changes>>
  BY DEF CheckConfig, AddMarket, AddPlugin, Step
<1>2. /\ disk' \in Disk
      /\ disk'.root = disk.root /\ disk'.rule = disk.rule /\ disk'.skill = disk.skill
      /\ disk'.runtime = disk.runtime /\ disk'.reg = disk.reg
      /\ disk'.market = IF "market" \in made' \ made THEN TRUE ELSE disk.market
      /\ disk'.plugin = IF "plugin" \in made' \ made THEN TRUE ELSE disk.plugin
  <2>1. disk \in Disk
    BY DEF TypeOK
  <2>2. CASE disk' = disk /\ made' = made
    BY <2>1, <2>2
  <2>3. CASE disk' = [disk EXCEPT !.market = TRUE] /\ made' = made \cup {"market"}
    BY <1>1, <2>1, <2>3 DEF FlagsOK, Disk, InstallStep
  <2>4. CASE disk' = [disk EXCEPT !.plugin = TRUE] /\ made' = made \cup {"plugin"}
    BY <1>1, <2>1, <2>4 DEF FlagsOK, Disk, InstallStep
  <2> QED
    BY <1>1, <2>2, <2>3, <2>4
<1>3. TypeOK'
  BY <1>1, <1>2 DEF TypeOK, InstallStep, Thing
<1>4. RecordOK' /\ FoundOK' /\ ProgressOK' /\ DroppedOK' /\ EndOK'
  BY <1>1 DEF RecordOK, FoundOK, ProgressOK, DroppedOK, EndOK, InstallStep,
              RemoveStep, Early, FailureRestores, CleanRemoval
<1>5. FlagsOK'
  BY <1>1, <1>2 DEF FlagsOK, InstallStep, Clients
<1> QED
  BY <1>3, <1>4, <1>5

LEMMA RegisterStep ==
  ASSUME IInv, NEW c \in Clients, NEW to \in {"codex", "receipt"},
         c = "claude" => to = "codex", c = "codex" => to = "receipt", Register(c, to)
  PROVE  IInv'
<1> USE DEF IInv
<1>1. /\ pc = c /\ pc' = to
      /\ \/ UNCHANGED <<disk, made, noted>>
         \/ /\ reinstall /\ receipt.reg[c] # None
            /\ noted' = [noted EXCEPT ![c] = receipt.reg[c]]
            /\ UNCHANGED <<disk, made>>
         \/ /\ disk.reg[c] = Absent
            /\ disk' = [disk EXCEPT !.reg[c] = option.version]
            /\ made' = made \cup {c}
            /\ noted' = [noted EXCEPT ![c] = option.version]
      /\ UNCHANGED <<receipt, present, option, reinstall, kept, warned, preserve,
                     before, outcome, broken, runs, changes>>
  BY DEF Register, Registered, Step
<1>2. disk' \in Disk
  BY <1>1 DEF TypeOK, Disk, Option, Content
<1>3. pc \in InstallStep \ {"swap", "print"}
  BY <1>1 DEF InstallStep, Clients
<1>4. reinstall => receipt # None
  BY <1>3 DEF FoundOK
<1>5. noted' \in [Clients -> Versions \cup {None}]
  BY <1>1, <1>4 DEF TypeOK, RecordOK, Option
<1>6. TypeOK'
  BY <1>1, <1>2, <1>5 DEF TypeOK, InstallStep, Thing, Content
<1>7. RecordOK'
  BY <1>1, <1>5 DEF RecordOK
<1>8. FoundOK' /\ ProgressOK' /\ DroppedOK' /\ EndOK'
  BY <1>1, <1>3 DEF FoundOK, ProgressOK, DroppedOK, EndOK, InstallStep, Clients,
              RemoveStep, Early, FailureRestores, CleanRemoval
<1>9. FlagsOK'
  <2>1. /\ disk'.root = disk.root /\ disk'.rule = disk.rule /\ disk'.skill = disk.skill
        /\ disk'.runtime = disk.runtime
        /\ disk'.market = disk.market /\ disk'.plugin = disk.plugin
        /\ \A x \in Thing \ Clients : x \in made' <=> x \in made
    BY <1>1 DEF TypeOK, Disk
  <2>2. \A d \in Clients :
          IF d \in made'
            THEN disk'.reg[d] = option.version /\ before.disk.reg[d] = Absent
            ELSE disk'.reg[d] = before.disk.reg[d]
    BY <1>1, <1>3 DEF FlagsOK, TypeOK, Disk
  <2> QED
    BY <1>1, <1>3, <2>1, <2>2 DEF FlagsOK, Thing, Clients
<1> QED
  BY <1>6, <1>7, <1>8, <1>9

\* The receipt: what is recorded are the files just written and the
\* registrations noted.
LEMMA ReceiptStep == IInv /\ (PlaceReceipt \/ SwapReceipt) => IInv'
<1> SUFFICES ASSUME IInv, PlaceReceipt \/ SwapReceipt PROVE IInv'
  OBVIOUS
<1> USE DEF IInv
<1>1. /\ <<pc, pc'>> \in {<<"receipt", "print">>, <<"receipt", "swap">>, <<"swap", "print">>}
      /\ receipt' \in {None, NewReceipt}
      /\ made' = made
      /\ UNCHANGED <<disk, present, option, reinstall, kept, noted, warned, preserve,
                     before, outcome, broken, runs, changes>>
  BY DEF PlaceReceipt, SwapReceipt, Step, TypeOK
<1>2. /\ disk.rule = option.version /\ disk.skill = option.version
      /\ option.version \in Versions
  BY <1>1 DEF ProgressOK, FlagsOK, InstallStep, Early, TypeOK, Option
<1>3. /\ NewReceipt \in Receipt
      /\ NewReceipt.rule \in Versions /\ NewReceipt.skill \in Versions
      /\ NewReceipt.reg = noted
  BY <1>2 DEF NewReceipt, Receipt, TypeOK, Content
<1>4. TypeOK'
  BY <1>1, <1>3 DEF TypeOK, InstallStep
<1>5. RecordOK'
  BY <1>1, <1>3 DEF RecordOK
<1>6. (FoundOK /\ ProgressOK /\ FlagsOK /\ DroppedOK /\ EndOK)'
  BY <1>1 DEF FoundOK, ProgressOK, FlagsOK, DroppedOK, EndOK, InstallStep,
              RemoveStep, Early, FailureRestores, CleanRemoval
<1> QED
  BY <1>4, <1>5, <1>6

LEMMA FinishStep == IInv /\ FinishInstall => IInv'
<1> SUFFICES ASSUME IInv, FinishInstall PROVE IInv'
  OBVIOUS
<1> USE DEF IInv
<1>1. TypeOK'
  BY DEF FinishInstall, TypeOK, Outcome
<1>2. (RecordOK /\ FoundOK /\ ProgressOK /\ FlagsOK /\ DroppedOK /\ EndOK)'
  BY DEF FinishInstall, RecordOK, FoundOK, ProgressOK, FlagsOK, DroppedOK, EndOK,
         InstallStep, RemoveStep, Early, FailureRestores, CleanRemoval
<1> QED
  BY <1>1, <1>2

\* A disk on which all but what was lost is as the installation found it.
Restored(now, lost) ==
  /\ "root" \notin lost => now.root = before.disk.root
  /\ "rule" \notin lost => now.rule = before.disk.rule
  /\ "skill" \notin lost => now.skill = before.disk.skill
  /\ "runtime" \notin lost => now.runtime = before.disk.runtime
  /\ \A c \in Clients \ lost : now.reg[c] = before.disk.reg[c]
  /\ "market" \notin lost => now.market = (before.disk.market /\ "market" \notin made)
  /\ "plugin" \notin lost => now.plugin = (before.disk.plugin /\ "plugin" \notin made)

\* A failing command spoils the one thing that it was to make, and no
\* registration that was there.
LEMMA SpoiltIsOneThing ==
  ASSUME IInv, pc \in InstallStep
  PROVE  /\ Spoilt \in Disk
         /\ Spoilt.root = disk.root /\ Spoilt.runtime = disk.runtime
         /\ pc # "rule" => Spoilt.rule = disk.rule
         /\ pc # "skill" => Spoilt.skill = disk.skill
         /\ pc # "market" => Spoilt.market = disk.market
         /\ pc # "plugin" => Spoilt.plugin = disk.plugin
         /\ \A c \in Clients : pc # c \/ disk.reg[c] # Absent => Spoilt.reg[c] = disk.reg[c]
         /\ Spoilt # disk => pc \in Thing
<1> DEFINE registered == [disk EXCEPT !.reg[pc] = option.version]
<1>1. /\ disk \in Disk /\ option.version \in Content /\ Half \in Content
  BY DEF IInv, TypeOK, Option, Content
<1>2. CASE Spoilt = disk
  BY <1>1, <1>2
<1>3. CASE pc = "rule" /\ Spoilt = [disk EXCEPT !.rule = Half]
  BY <1>1, <1>3 DEF Disk, Thing
<1>4. CASE pc = "skill" /\ Spoilt = [disk EXCEPT !.skill = Half]
  BY <1>1, <1>4 DEF Disk, Thing
<1>5. CASE pc = "market" /\ Spoilt = [disk EXCEPT !.market = TRUE]
  BY <1>1, <1>5 DEF Disk, Thing
<1>6. CASE pc = "plugin" /\ Spoilt = [disk EXCEPT !.plugin = TRUE]
  BY <1>1, <1>6 DEF Disk, Thing
<1>7. CASE pc \in Clients /\ disk.reg[pc] = Absent /\ Spoilt = registered
  <2>1. /\ registered \in Disk
        /\ registered.root = disk.root /\ registered.runtime = disk.runtime
        /\ registered.rule = disk.rule /\ registered.skill = disk.skill
        /\ registered.market = disk.market /\ registered.plugin = disk.plugin
        /\ registered.reg = [disk.reg EXCEPT ![pc] = option.version]
    BY <1>1, <1>7 DEF Disk
  <2>2. \A c \in Clients : pc # c \/ disk.reg[c] # Absent => registered.reg[c] = disk.reg[c]
    BY <1>1, <1>7, <2>1 DEF Disk
  <2> QED
    BY <1>7, <2>1, <2>2 DEF Thing
<1>8. CASE pc = "rule"
  <2>1. Spoilt = [disk EXCEPT !.rule = Half]
    BY <1>8 DEF Spoilt, Clients
  <2> QED
    BY <1>3, <1>8, <2>1
<1>9. CASE pc = "skill"
  <2>1. Spoilt = [disk EXCEPT !.skill = Half]
    BY <1>9 DEF Spoilt, Clients
  <2> QED
    BY <1>4, <1>9, <2>1
<1>10. CASE pc = "market"
  BY <1>2, <1>5, <1>10 DEF Spoilt, Clients
<1>11. CASE pc = "plugin"
  BY <1>2, <1>6, <1>11 DEF Spoilt, Clients
<1>12. CASE pc \in Clients
  BY <1>2, <1>7, <1>12 DEF Spoilt, Clients
<1>13. CASE pc \notin {"rule", "skill", "market", "plugin"} \cup Clients
  BY <1>2, <1>13 DEF Spoilt
<1> QED
  BY <1>8, <1>9, <1>10, <1>11, <1>12, <1>13

\* The rollback takes back what the flags say, and that is everything but what
\* the failing command spoilt and what a failing command of its own left.
LEMMA RollbackRestores ==
  ASSUME IInv, pc \in InstallStep, NEW d \in {disk, Spoilt},
         NEW stuck \in SUBSET made, NEW half \in SUBSET stuck
  PROVE  /\ RolledBack(d, stuck, half) \in Disk
         /\ Restored(RolledBack(d, stuck, half), stuck \cup (IF d = disk THEN {} ELSE {pc}))
<1> DEFINE lost == stuck \cup (IF d = disk THEN {} ELSE {pc})
           undone == made \ stuck
           back == RolledBack(d, stuck, half)
           regs == [c \in Clients |-> IF c \in undone THEN Absent ELSE d.reg[c]]
<1>1. /\ d \in Disk
      /\ "root" \notin lost => d.root = disk.root
      /\ "rule" \notin lost => d.rule = disk.rule
      /\ "skill" \notin lost => d.skill = disk.skill
      /\ d.runtime = disk.runtime /\ d.root = disk.root
      /\ "market" \notin lost => d.market = disk.market
      /\ "plugin" \notin lost => d.plugin = disk.plugin
      /\ \A c \in Clients \ lost : d.reg[c] = disk.reg[c]
  BY SpoiltIsOneThing DEF IInv, TypeOK
<1>2. /\ back.root = IF "root" \in undone THEN d.root \ {option.version} ELSE d.root
      /\ back.rule = FileAfter("rule", d.rule, IF reinstall THEN kept.rule ELSE Absent,
                               stuck, half)
      /\ back.skill = FileAfter("skill", d.skill, IF reinstall THEN kept.skill ELSE Absent,
                                stuck, half)
      /\ back.runtime = FileAfter("runtime", d.runtime, Absent, stuck, half)
      /\ back.market = (d.market /\ "market" \notin undone)
      /\ back.plugin = (d.plugin /\ "plugin" \notin undone)
      /\ back.reg = regs
  BY DEF RolledBack
<1>3. back \in Disk
  <2>1. regs \in [Clients -> Content]
    BY <1>1 DEF Disk, Content
  <2>2. /\ kept.rule \in Content /\ kept.skill \in Content
        /\ Absent \in Content /\ Half \in Content
    BY DEF IInv, TypeOK, Content
  <2>3. /\ d.root \subseteq Versions
        /\ d.rule \in Content /\ d.skill \in Content /\ d.runtime \in Content
        /\ d.plugin \in BOOLEAN /\ d.market \in BOOLEAN
    BY <1>1 DEF Disk
  <2> DEFINE root == IF "root" \in undone THEN d.root \ {option.version} ELSE d.root
             rule == FileAfter("rule", d.rule, IF reinstall THEN kept.rule ELSE Absent,
                               stuck, half)
             skill == FileAfter("skill", d.skill, IF reinstall THEN kept.skill ELSE Absent,
                                stuck, half)
             runtime == FileAfter("runtime", d.runtime, Absent, stuck, half)
             market == d.market /\ "market" \notin undone
             plugin == d.plugin /\ "plugin" \notin undone
  <2>4. rule \in Content /\ skill \in Content /\ runtime \in Content /\ root \in SUBSET Versions
    BY <2>2, <2>3 DEF FileAfter
  <2>5. market \in BOOLEAN /\ plugin \in BOOLEAN
    OBVIOUS
  <2>6. back = [root |-> root, rule |-> rule, skill |-> skill, runtime |-> runtime,
                market |-> market, plugin |-> plugin, reg |-> regs]
    BY Zenon DEF RolledBack
  <2> HIDE DEF market, plugin, rule, skill, runtime, root, regs, back, undone
  <2> QED
    BY <2>1, <2>4, <2>5, <2>6 DEF Disk
<1>4. \A c \in Clients \ lost : back.reg[c] = before.disk.reg[c]
  BY <1>1, <1>2 DEF IInv, FlagsOK
<1>5. /\ "rule" \notin lost => back.rule = before.disk.rule
      /\ "skill" \notin lost => back.skill = before.disk.skill
  BY <1>1, <1>2 DEF IInv, FileAfter, FlagsOK, FoundOK, ProgressOK, Early
<1>6. "runtime" \notin lost => back.runtime = before.disk.runtime
  BY <1>1, <1>2 DEF IInv, FileAfter, FlagsOK
<1>7. "root" \notin lost => back.root = before.disk.root
  <2> SUFFICES ASSUME "root" \notin lost PROVE back.root = before.disk.root
    OBVIOUS
  <2>1. back.root = IF "root" \in made THEN disk.root \ {option.version} ELSE disk.root
    BY <1>1, <1>2
  <2> HIDE DEF back, lost
  <2> QED
    BY <2>1 DEF IInv, FlagsOK
<1>8. "market" \notin lost => back.market = (before.disk.market /\ "market" \notin made)
  BY <1>1, <1>2 DEF IInv, FlagsOK
<1>9. "plugin" \notin lost => back.plugin = (before.disk.plugin /\ "plugin" \notin made)
  BY <1>1, <1>2 DEF IInv, FlagsOK
<1> HIDE DEF lost, back
<1>10. Restored(back, lost)
  BY <1>4, <1>5, <1>6, <1>7, <1>8, <1>9 DEF Restored
<1> QED
  BY <1>3, <1>10 DEF lost, back

LEMMA FailStep == IInv /\ (FailInstall \/ InterruptInstall) => IInv'
<1> SUFFICES ASSUME IInv, FailInstall \/ InterruptInstall PROVE IInv'
  OBVIOUS
<1>1. /\ pc \in InstallStep /\ pc' = "idle"
      /\ \/ outcome' = "failed" /\ Rollback
         \/ outcome' = "interrupted" /\ (Rollback \/ UNCHANGED <<disk, broken>>)
      /\ UNCHANGED <<receipt, present, option, reinstall, made, kept, noted, warned,
                     preserve, before, runs, changes>>
  BY DEF FailInstall, InterruptInstall, KeepAllButDisk
<1>2. Rollback => /\ disk' \in Disk
                  /\ broken' \subseteq Thing \cup {"receipt"}
                  /\ Restored(disk', broken')
                  /\ "receipt" \notin broken' => pc \notin {"swap", "print"}
  <2> SUFFICES ASSUME Rollback
               PROVE  /\ disk' \in Disk
                      /\ broken' \subseteq Thing \cup {"receipt"}
                      /\ Restored(disk', broken')
                      /\ "receipt" \notin broken' => pc \notin {"swap", "print"}
    OBVIOUS
  <2>1. PICK d \in {disk, Spoilt}, stuck \in SUBSET made, half \in SUBSET made :
          /\ half \subseteq stuck
          /\ disk' = RolledBack(d, stuck, half)
          /\ broken' = stuck \cup (IF d = disk THEN {} ELSE {pc})
                             \cup (IF pc \in {"swap", "print"} THEN {"receipt"} ELSE {})
    BY Zenon DEF Rollback
  <2>2. disk' \in Disk /\ Restored(disk', stuck \cup (IF d = disk THEN {} ELSE {pc}))
    BY <1>1, <2>1, RollbackRestores
  <2>3. made \subseteq Thing /\ (d # disk => pc \in Thing)
    BY <1>1, SpoiltIsOneThing DEF IInv, TypeOK
  <2>4. broken' \subseteq Thing \cup {"receipt"}
    BY <2>1, <2>3
  <2>5. Restored(disk', broken')
    BY <2>1, <2>2 DEF Restored
  <2> QED
    BY <2>1, <2>2, <2>4, <2>5
<1>3. TypeOK'
  BY <1>1, <1>2 DEF IInv, TypeOK, Outcome
<1>4. (RecordOK /\ FoundOK /\ ProgressOK /\ FlagsOK /\ DroppedOK)'
  BY <1>1 DEF IInv, RecordOK, FoundOK, ProgressOK, FlagsOK, DroppedOK, InstallStep,
              RemoveStep, Early
<1>5. FailureRestores'
  <2>1. CASE outcome' = "failed"
    <3>1. "receipt" \notin broken' => receipt' = before'.receipt
      BY <1>1, <1>2, <2>1 DEF IInv, FoundOK
    <3> QED
      BY <1>1, <1>2, <2>1, <3>1 DEF Restored, FailureRestores
  <2> QED
    BY <2>1 DEF FailureRestores
<1>6. EndOK'
  BY <1>1, <1>5 DEF EndOK, CleanRemoval
<1> QED
  BY <1>3, <1>4, <1>6 DEF IInv

-----------------------------------------------------------------------------
(* uninstall.sh.                                                            *)

LEMMA StartUninstallStep == IInv /\ StartUninstall => IInv'
<1> SUFFICES ASSUME IInv, StartUninstall PROVE IInv'
  OBVIOUS
<1> USE DEF IInv
<1>1. /\ pc = "idle" /\ runs' \in 0..MaxRuns
      /\ before' = [disk |-> disk, receipt |-> receipt]
      /\ made' = {} /\ kept' = NothingKept /\ noted' = NothingNoted /\ broken' = {}
      /\ warned' = FALSE /\ preserve' = FALSE
      /\ \/ pc' = "drop claude" /\ outcome' = "none" /\ receipt # None
         \/ pc' = "idle" /\ outcome' = "refused"
      /\ UNCHANGED <<disk, receipt, present, option, reinstall, changes>>
  <2>1. pc = "idle" /\ runs < MaxRuns /\ runs' = runs + 1
    BY DEF StartUninstall
  <2>2. runs' \in 0..MaxRuns
    BY <2>1, InstallerAssumption DEF TypeOK
  <2> QED
    BY <2>1, <2>2 DEF StartUninstall
<1>2. TypeOK'
  BY <1>1 DEF TypeOK, Outcome, RemoveStep, NothingKept, NothingNoted, Content
<1>3. (RecordOK /\ FoundOK /\ ProgressOK /\ FlagsOK /\ DroppedOK /\ EndOK)'
  BY <1>1 DEF NothingNoted, RecordOK, FoundOK, ProgressOK, FlagsOK, DroppedOK, EndOK,
              InstallStep, RemoveStep, Early, FailureRestores, CleanRemoval
<1> QED
  BY <1>2, <1>3

\* A step of the uninstaller keeps everything but the disk and the warnings.
LEMMA DropStep ==
  ASSUME IInv, NEW from \in RemoveStep, NEW to \in RemoveStep, NEW newDisk \in Disk,
         Drop(from, to, newDisk), warned' \in BOOLEAN, preserve' \in BOOLEAN, DroppedOK'
  PROVE  IInv'
<1> USE DEF IInv
<1>1. /\ pc = from /\ pc' = to /\ disk' = newDisk
      /\ UNCHANGED <<receipt, present, option, reinstall, made, kept, noted, before,
                     outcome, broken, runs, changes>>
  BY DEF Drop
<1>2. TypeOK'
  BY <1>1 DEF TypeOK
<1>3. (RecordOK /\ FoundOK /\ ProgressOK /\ FlagsOK /\ EndOK)'
  BY <1>1 DEF RecordOK, FoundOK, ProgressOK, FlagsOK, EndOK, InstallStep,
              RemoveStep, Early, FailureRestores, CleanRemoval
<1> QED
  BY <1>2, <1>3

LEMMA DropRegistrationStep ==
  ASSUME IInv, NEW c \in Clients, NEW from \in RemoveStep, NEW to \in RemoveStep,
         \/ c = "claude" /\ from = "drop claude" /\ to = "drop codex"
         \/ c = "codex" /\ from = "drop codex" /\ to = "drop plugin",
         DropRegistration(c, from, to)
  PROVE  IInv'
<1> DEFINE removed == [disk EXCEPT !.reg[c] = Absent]
<1>1. disk \in Disk /\ removed \in Disk
  BY DEF IInv, TypeOK, Disk, Content
<1>2. \/ Drop(from, to, disk) /\ UNCHANGED <<warned, preserve>> /\ receipt.reg[c] = None
      \/ Drop(from, to, removed) /\ UNCHANGED <<warned, preserve>>
      \/ Drop(from, to, disk) /\ warned' = TRUE /\ preserve' = TRUE
  BY DEF DropRegistration
<1>3. PICK newDisk \in {disk, removed} :
        /\ Drop(from, to, newDisk)
        /\ \/ UNCHANGED <<warned, preserve>> /\ (receipt.reg[c] = None \/ newDisk = removed)
           \/ warned' = TRUE /\ preserve' = TRUE
  BY <1>2
<1>4. /\ \A d \in Clients \ {c} : newDisk.reg[d] = disk.reg[d]
      /\ newDisk = removed => newDisk.reg[c] = Absent
  <2>1. disk.reg \in [Clients -> Content]
    BY <1>1 DEF Disk
  <2>2. removed.reg = [disk.reg EXCEPT ![c] = Absent]
    BY <1>1 DEF Disk
  <2>3. removed.reg[c] = Absent /\ \A d \in Clients \ {c} : removed.reg[d] = disk.reg[d]
    BY <2>1, <2>2
  <2> QED
    BY <2>3
<1>5. /\ receipt' = receipt /\ before' = before /\ pc = from /\ pc' = to /\ disk' = newDisk
  BY <1>3 DEF Drop
<1>6. DroppedOK'
  <2>1. /\ receipt # None /\ before.receipt = receipt
        /\ preserve => warned
        /\ c = "codex" /\ ~warned /\ receipt.reg["claude"] # None
             => disk.reg["claude"] = Absent
    BY <1>5 DEF IInv, DroppedOK
  <2> QED
    BY <1>3, <1>4, <1>5, <2>1 DEF DroppedOK, Clients
<1>7. warned' \in BOOLEAN /\ preserve' \in BOOLEAN
  BY <1>3 DEF IInv, TypeOK
<1> QED
  BY <1>1, <1>3, <1>6, <1>7, DropStep

LEMMA DropPluginStep == IInv /\ (DropPlugin \/ DropMarket) => IInv'
<1> SUFFICES ASSUME IInv, DropPlugin \/ DropMarket PROVE IInv'
  OBVIOUS
<1>1. CASE DropPlugin
  <2> DEFINE removed == [disk EXCEPT !.plugin = @ /\ ~receipt.plugin]
  <2>1. disk \in Disk /\ removed \in Disk
    BY DEF IInv, TypeOK, Disk
  <2>2. PICK newDisk \in {disk, removed} :
          /\ Drop("drop plugin", "drop market", newDisk)
          /\ \/ UNCHANGED <<warned, preserve>> /\ newDisk = removed
             \/ warned' = TRUE /\ UNCHANGED preserve
    BY <1>1 DEF DropPlugin
  <2>3. DroppedOK'
    BY <2>1, <2>2 DEF IInv, DroppedOK, Drop, RemoveStep, TypeOK, Disk
  <2>4. warned' \in BOOLEAN /\ preserve' \in BOOLEAN
    BY <2>2 DEF IInv, TypeOK
  <2> QED
    BY <2>1, <2>2, <2>3, <2>4, DropStep DEF RemoveStep
<1>2. CASE DropMarket
  <2> DEFINE removed == [disk EXCEPT !.market = @ /\ ~(receipt.market /\ "claude" \in present)]
  <2>1. disk \in Disk /\ removed \in Disk
    BY DEF IInv, TypeOK, Disk
  <2>2. PICK newDisk \in {disk, removed} :
          /\ Drop("drop market", "drop rule", newDisk)
          /\ UNCHANGED warned \/ warned' = TRUE
          /\ UNCHANGED preserve
    BY <1>2 DEF DropMarket
  <2>3. DroppedOK'
    BY <2>1, <2>2 DEF IInv, DroppedOK, Drop, RemoveStep, TypeOK, Disk
  <2>4. warned' \in BOOLEAN /\ preserve' \in BOOLEAN
    BY <2>2 DEF IInv, TypeOK
  <2> QED
    BY <2>1, <2>2, <2>3, <2>4, DropStep DEF RemoveStep
<1> QED
  BY <1>1, <1>2

LEMMA DropFileStep == IInv /\ (DropRule \/ DropSkill) => IInv'
<1> SUFFICES ASSUME IInv, DropRule \/ DropSkill PROVE IInv'
  OBVIOUS
<1>1. CASE DropRule
  <2> DEFINE removed == [disk EXCEPT !.rule = IF @ = receipt.rule THEN Absent ELSE @]
  <2>1. removed \in Disk
    BY DEF IInv, TypeOK, Disk, Content
  <2>2. /\ Drop("drop rule", "drop skill", removed)
        /\ warned' = (warned \/ disk.rule \notin {Absent, receipt.rule})
        /\ UNCHANGED preserve
    BY <1>1 DEF DropRule
  <2>3. DroppedOK'
    BY <2>1, <2>2 DEF IInv, DroppedOK, Drop, RemoveStep, TypeOK, Disk
  <2>4. warned' \in BOOLEAN /\ preserve' \in BOOLEAN
    BY <2>2 DEF IInv, TypeOK
  <2> QED
    BY <2>1, <2>2, <2>3, <2>4, DropStep DEF RemoveStep
<1>2. CASE DropSkill
  <2> DEFINE removed == [disk EXCEPT !.skill = IF @ = receipt.skill THEN Absent ELSE @]
  <2>1. removed \in Disk
    BY DEF IInv, TypeOK, Disk, Content
  <2>2. /\ Drop("drop skill", "drop runtime", removed)
        /\ warned' = (warned \/ disk.skill \notin {Absent, receipt.skill})
        /\ UNCHANGED preserve
    BY <1>2 DEF DropSkill
  <2>3. DroppedOK'
    BY <2>1, <2>2 DEF IInv, DroppedOK, Drop, RemoveStep, TypeOK, Disk
  <2>4. warned' \in BOOLEAN /\ preserve' \in BOOLEAN
    BY <2>2 DEF IInv, TypeOK
  <2> QED
    BY <2>1, <2>2, <2>3, <2>4, DropStep DEF RemoveStep
<1> QED
  BY <1>1, <1>2

LEMMA DropRuntimeStep == IInv /\ DropRuntime => IInv'
<1> SUFFICES ASSUME IInv, DropRuntime PROVE IInv'
  OBVIOUS
<1> DEFINE removed == [disk EXCEPT !.runtime = Absent]
<1>1. disk \in Disk /\ removed \in Disk
  BY DEF IInv, TypeOK, Disk, Content
<1>2. PICK newDisk \in {disk, removed} :
        /\ Drop("drop runtime", "drop receipt", newDisk)
        /\ RemovesRuntime => newDisk = removed
        /\ warned' = \/ warned
                     \/ receipt.runtime # None
                          /\ (preserve \/ disk.runtime \notin {Absent, receipt.runtime})
        /\ UNCHANGED preserve
  BY DEF DropRuntime
<1>3. DroppedOK'
  BY <1>1, <1>2 DEF IInv, DroppedOK, Drop, RemoveStep, RemovesRuntime, TypeOK, Disk
<1>4. warned' \in BOOLEAN /\ preserve' \in BOOLEAN
  BY <1>2 DEF IInv, TypeOK
<1> QED
  BY <1>1, <1>2, <1>3, <1>4, DropStep DEF RemoveStep

LEMMA EndUninstallStep == IInv /\ (DropReceipt \/ StopUninstall) => IInv'
<1> SUFFICES ASSUME IInv, DropReceipt \/ StopUninstall PROVE IInv'
  OBVIOUS
<1> USE DEF IInv
<1>1. /\ pc \in RemoveStep /\ pc' = "idle"
      /\ receipt' \in {None, receipt, [receipt EXCEPT !.complete = FALSE]}
      /\ disk' \in {disk, [disk EXCEPT !.runtime = Half]}
      /\ \/ outcome' = "removed" /\ pc = "drop receipt" /\ disk' = disk
         \/ outcome' = "interrupted"
      /\ UNCHANGED <<present, option, reinstall, made, kept, noted, warned,
                     preserve, before, broken, runs, changes>>
  BY DEF DropReceipt, StopUninstall, RemoveStep
<1>2. receipt \in Receipt
  BY <1>1 DEF DroppedOK, TypeOK
<1>3. TypeOK'
  <2>1. receipt' \in Receipt \cup {None}
    <3>1. [receipt EXCEPT !.complete = FALSE] \in Receipt
      BY <1>2 DEF Receipt
    <3> QED
      BY <1>1, <1>2, <3>1
  <2>2. disk' \in Disk
    BY <1>1 DEF TypeOK, Disk, Content
  <2> QED
    BY <1>1, <2>1, <2>2 DEF TypeOK, Outcome
<1>4. RecordOK'
  <2>1. receipt' # None =>
          receipt'.rule = receipt.rule /\ receipt'.skill = receipt.skill
            /\ receipt'.reg = receipt.reg
    BY <1>1, <1>2 DEF Receipt
  <2> QED
    BY <1>1, <2>1, <1>2, InstallerAssumption DEF RecordOK
<1>5. (FoundOK /\ ProgressOK /\ FlagsOK /\ DroppedOK)'
  BY <1>1 DEF FoundOK, ProgressOK, FlagsOK, DroppedOK, InstallStep, RemoveStep, Early
<1>6. EndOK'
  BY <1>1 DEF EndOK, DroppedOK, FailureRestores, CleanRemoval, Clients
<1> QED
  BY <1>3, <1>4, <1>5, <1>6

LEMMA StepPreserves == IInv /\ [Next]_vars => IInv'
<1> SUFFICES ASSUME IInv, [Next]_vars PROVE IInv'
  OBVIOUS
<1>1. CASE Install
  <2>1. Register("claude", "codex") => IInv'
    BY RegisterStep DEF Clients
  <2>2. Register("codex", "receipt") => IInv'
    BY RegisterStep DEF Clients
  <2> QED
    BY <1>1, <2>1, <2>2, PlaceRootStep, PlaceRuntimeStep, WriteRuleStep, WriteSkillStep,
       OtherSteps, ReceiptStep, FinishStep DEF Install
<1>2. CASE Uninstall
  <2>1. DropRegistration("claude", "drop claude", "drop codex") => IInv'
    BY DropRegistrationStep DEF Clients, RemoveStep
  <2>2. DropRegistration("codex", "drop codex", "drop plugin") => IInv'
    BY DropRegistrationStep DEF Clients, RemoveStep
  <2> QED
    BY <1>2, <2>1, <2>2, DropPluginStep, DropFileStep, DropRuntimeStep,
       EndUninstallStep DEF Uninstall
<1>3. CASE UNCHANGED vars
  <2>1. TypeOK'
    BY <1>3 DEF vars, IInv, TypeOK
  <2>2. RecordOK' /\ FoundOK'
    BY <1>3 DEF vars, IInv, RecordOK, FoundOK
  <2>3. ProgressOK' /\ DroppedOK'
    BY <1>3 DEF vars, IInv, ProgressOK, DroppedOK
  <2>4. FlagsOK'
    BY <1>3 DEF vars, IInv, FlagsOK
  <2>5. EndOK'
    BY <1>3 DEF vars, IInv, EndOK, FailureRestores, CleanRemoval
  <2> QED
    BY <2>1, <2>2, <2>3, <2>4, <2>5 DEF IInv
<1> QED
  BY <1>1, <1>2, <1>3, UserStep, StartInstallStep, FailStep, StartUninstallStep,
     EndUninstallStep DEF Next

-----------------------------------------------------------------------------
\* What a step of a script leaves alone.
LEMMA UserKept ==
  ASSUME IInv, pc # "idle", [Next]_vars
  PROVE  /\ disk.rule = User => disk'.rule = User
         /\ disk.skill = User => disk'.skill = User
         /\ disk.runtime = User => disk'.runtime = User
         /\ \A c \in Clients : disk.reg[c] = User => disk'.reg[c] = User
<1> USE DEF IInv
<1> DEFINE Kept == /\ disk.rule = User => disk'.rule = User
                   /\ disk.skill = User => disk'.skill = User
                   /\ disk.runtime = User => disk'.runtime = User
                   /\ \A c \in Clients : disk.reg[c] = User => disk'.reg[c] = User
<1>1. Absent # User /\ User \notin Versions /\ User # None
  BY InstallerAssumption DEF Content
<1>2. CASE Install \/ FailInstall \/ InterruptInstall
  <2>1. pc \in InstallStep
    BY <1>2 DEF Install, PlaceRoot, CheckConfig, PlaceRuntime, WriteRule, WriteSkill,
                AddMarket, AddPlugin, Register, PlaceReceipt, SwapReceipt, FinishInstall,
                FailInstall, InterruptInstall, Step, InstallStep
  <2>2. /\ disk.rule # User /\ disk.skill # User
        /\ "runtime" \in made => disk.runtime # User
        /\ \A c \in Clients : c \in made => disk.reg[c] # User
    BY <1>1, <2>1 DEF FlagsOK, FoundOK, TypeOK, Option
  <2>3. \/ disk'.runtime = disk.runtime
        \/ disk.runtime = Absent
        \/ Rollback
    BY <1>2 DEF Install, PlaceRoot, CheckConfig, PlaceRuntime, WriteRule, WriteSkill,
                AddMarket, AddPlugin, Register, PlaceReceipt, SwapReceipt, FinishInstall,
                FailInstall, InterruptInstall, Step, TypeOK, Disk
  <2>4. \/ disk'.reg = disk.reg
        \/ \E c \in Clients : disk.reg[c] = Absent
             /\ disk' = [disk EXCEPT !.reg[c] = option.version]
        \/ Rollback
    BY <1>2 DEF Install, PlaceRoot, CheckConfig, PlaceRuntime, WriteRule, WriteSkill,
                AddMarket, AddPlugin, Register, PlaceReceipt, SwapReceipt, FinishInstall,
                FailInstall, InterruptInstall, Step, TypeOK, Disk, Clients
  <2>5. CASE Rollback
    <3>1. PICK d \in {disk, Spoilt}, stuck \in SUBSET made, half \in SUBSET made :
            half \subseteq stuck /\ disk' = RolledBack(d, stuck, half)
      BY <2>5 DEF Rollback
    <3>2. /\ d.runtime = disk.runtime
          /\ \A c \in Clients : disk.reg[c] # Absent => d.reg[c] = disk.reg[c]
      BY <2>1, SpoiltIsOneThing
    <3>3. disk'.runtime = FileAfter("runtime", d.runtime, Absent, stuck, half)
      BY <3>1 DEF RolledBack
    <3>4. disk.runtime = User => disk'.runtime = User
      BY <2>2, <3>2, <3>3 DEF FileAfter
    <3>5. \A c \in Clients : disk'.reg[c] = IF c \in made \ stuck THEN Absent ELSE d.reg[c]
      BY <3>1 DEF RolledBack
    <3>6. \A c \in Clients : disk.reg[c] = User => disk'.reg[c] = User
      BY <1>1, <2>2, <3>2, <3>5
    <3> QED
      BY <2>2, <3>4, <3>6
  <2>6. CASE ~Rollback
    <3>1. \A c \in Clients : disk.reg[c] = User => disk'.reg[c] = User
      BY <1>1, <2>4, <2>6 DEF TypeOK, Disk
    <3> QED
      BY <1>1, <2>2, <2>3, <2>6, <3>1
  <2> QED
    BY <2>5, <2>6
<1>3. CASE Uninstall \/ StopUninstall
  <2>1. pc \in RemoveStep
    BY <1>3 DEF Uninstall, DropRegistration, DropPlugin, DropMarket, DropRule, DropSkill,
                DropRuntime, DropReceipt, StopUninstall, Drop, RemoveStep
  <2>2. /\ receipt.rule # User /\ receipt.skill # User /\ receipt.runtime # User
        /\ \A c \in Clients : receipt.reg[c] # User
    <3>1. receipt # None /\ receipt \in Receipt
      BY <2>1 DEF DroppedOK, TypeOK
    <3>2. receipt.runtime \in Versions \cup {None}
      BY <3>1 DEF Receipt
    <3> QED
      BY <1>1, <3>1, <3>2 DEF RecordOK
  <2>3. CASE \E c \in Clients, from, to \in RemoveStep : DropRegistration(c, from, to)
    BY <2>2, <2>3 DEF DropRegistration, Drop, TypeOK, Disk
  <2>4. CASE DropPlugin \/ DropMarket
    BY <2>4 DEF DropPlugin, DropMarket, Drop, TypeOK, Disk
  <2>5. CASE DropRule \/ DropSkill \/ DropRuntime
    BY <2>2, <2>5 DEF DropRule, DropSkill, DropRuntime, RemovesRuntime, Drop, TypeOK, Disk
  <2>6. CASE DropReceipt \/ StopUninstall
    BY <2>2, <2>6 DEF DropReceipt, StopUninstall, RemovesRuntime, TypeOK, Disk
  <2> QED
    BY <1>3, <2>3, <2>4, <2>5, <2>6 DEF Uninstall, Clients, RemoveStep
<1>4. CASE UNCHANGED vars
  BY <1>4 DEF vars
<1> QED
  BY <1>2, <1>3, <1>4 DEF Next, UserChanges, StartInstall, StartUninstall

\* The invariant: what the flags, the receipt and the warnings say is true.
THEOREM Inductive == Spec => []IInv
  BY InitEstablishes, StepPreserves, PTL DEF Spec

\* Type correctness, for any versions, runs and changes.
THEOREM TypeCorrect == Spec => []TypeOK
<1>1. IInv => TypeOK
  BY DEF IInv
<1> QED
  BY Inductive, <1>1, PTL

\* rollback_partial restores what the installation found, whatever step failed
\* and whatever of its own commands failed, but for what these left.
THEOREM FailureIsRolledBack == Spec => []FailureRestores
<1>1. IInv => FailureRestores
  BY DEF IInv, EndOK
<1> QED
  BY Inductive, <1>1, PTL

\* uninstall.sh removes what the receipt records, or gives a warning.
THEOREM RemovalCleans == Spec => []CleanRemoval
<1>1. IInv => CleanRemoval
  BY DEF IInv, EndOK
<1> QED
  BY Inductive, <1>1, PTL

\* No step of either script changes what the user wrote.
THEOREM UserContentStays == Spec => UserContentKept
<1>1. IInv /\ [Next]_vars =>
        [pc # "idle" =>
           /\ disk.rule = User => disk'.rule = User
           /\ disk.skill = User => disk'.skill = User
           /\ disk.runtime = User => disk'.runtime = User
           /\ \A c \in Clients : disk.reg[c] = User => disk'.reg[c] = User]_vars
  BY UserKept
<1> QED
  BY Inductive, <1>1, PTL DEF Spec, UserContentKept

=============================================================================
