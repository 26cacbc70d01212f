--------------------------- MODULE LifecycleProofs ---------------------------
(***************************************************************************)
(* What holds of an agent's life for any places, runtimes and versions.     *)
(* IInv says what a command has established at each of its steps; the        *)
(* properties follow from it at the step where a command ends or touches a   *)
(* file.                                                                   *)
(***************************************************************************)
EXTENDS Lifecycle, TLAPS

\* A running command is a command, and not the absence of one.
LEMMA Running == TypeOK /\ ~Idle => cmd \in Cmd
BY DEF TypeOK, Idle

\* A command that has moved on.
LEMMA MovedOn ==
  ASSUME NEW c \in Cmd, NEW s \in Steps, NEW r
  PROVE  /\ [c EXCEPT !.at = s] \in Cmd
         /\ [c EXCEPT !.todo = @ \ {r}] \in Cmd
         /\ [c EXCEPT !.todo = @ \ {r}, !.failed = TRUE] \in Cmd
         /\ [c EXCEPT !.raced = TRUE] \in Cmd
<1>1. c.todo \ {r} \in SUBSET Runtimes
  BY DEF Cmd
<1> QED
  BY <1>1 DEF Cmd

\* An edited entry leaves the entries of every place what they are.
LEMMA EntryType ==
  ASSUME TypeOK, NEW p \in Places, NEW r \in Runtimes, NEW e \in {"build", "bin", None}
  PROVE  [entry EXCEPT ![p][r] = e] \in [Places -> [Runtimes -> {"build", "bin", None}]]
BY DEF TypeOK

\* A command in hand is not the absence of one.
LEMMA CmdIsCmd == ASSUME NEW c \in Cmd PROVE c # NoCmd
BY AbsenceAssumption

\* Becoming a command, or none, keeps the types of what it sets.
LEMMA BecomeType ==
  ASSUME NEW c \in Cmd \cup {NoCmd}, TypeOK, Become(c)
  PROVE  cmd' \in Cmd \cup {NoCmd} /\ refused' \in BOOLEAN /\ faulty' \in BOOLEAN
BY DEF Become, TypeOK

\* The user leaves the running command as it is, or has raced it.
LEMMA UserRaces ==
  User => Become(cmd) \/ (~Idle /\ Become([cmd EXCEPT !.raced = TRUE]))
<1>1. UserEditsFile => \E p \in Places : Raced(p)
  BY DEF UserEditsFile
<1>2. UserEditsConfig => \E p : Raced(p)
  BY DEF UserEditsConfig
<1>3. UserCleansBuild => Become(cmd)
  BY DEF UserCleansBuild, Idle, Succeed
<1>4. \A p : Raced(p) => Become(cmd) \/ (~Idle /\ Become([cmd EXCEPT !.raced = TRUE]))
  BY DEF Raced, Become
<1> QED
  BY <1>1, <1>2, <1>3, <1>4 DEF User, Become

\* The initial states satisfy the invariant.
LEMMA InitIInv == Init => IInv
<1> SUFFICES ASSUME Init PROVE IInv
  OBVIOUS
<1>1. TypeOK
  BY DEF Init, TypeOK
<1> QED
  BY <1>1 DEF Init, IInv, InstallUnderWay, UninstallUnderWay, BuildUnderWay,
              RegistryTruthful, Truthful, Idle
------------------------------------------------------------------------------
\* The commands that start are commands.
LEMMA InstallCmdType ==
  ASSUME NEW at \in Steps, NEW place \in Places, NEW T \in SUBSET Runtimes,
         NEW v \in Versions, NEW known \in Versions \cup {Unknown}, NEW remote \in BOOLEAN,
         NEW binary \in BOOLEAN, NEW planned \in Versions \cup {None}, NEW force \in BOOLEAN
  PROVE  InstallCmd(at, place, T, v, known, remote, binary, planned, force) \in Cmd
BY DEF InstallCmd, Cmd

\* What an install plans to copy is a version, that of the binary when that is known.
LEMMA PlannedFileType ==
  ASSUME TypeOK, NEW known \in Described
  PROVE  /\ PlannedFile(known) \in Versions \cup {None}
         /\ known \in Versions \cup {Unknown}
         /\ known \in {build.bin, Unknown}
         /\ build.bin # None => build.bin \in Versions
         /\ known # Unknown => PlannedFile(known) \in {None, known}
BY DEF TypeOK, PlannedFile, Described

\* Every step keeps the types; that only an install copies a binary keeps its version
\* known.
LEMMA TypeStep ==
  ASSUME TypeOK, InstallUnderWay, UninstallUnderWay, BuildUnderWay, [Next]_vars
  PROVE  TypeOK'
<1> USE DEF installed
<1>1. ASSUME Build PROVE TypeOK'
  <2> PICK v \in Versions, kind \in BuildKinds, T \in TargetSets :
        \/ /\ kind # "fileOnly"
           /\ build' = [build EXCEPT !.bin = v]
           /\ IF Parses(Project, T)
              THEN Become([kind |-> "build", at |-> "config", place |-> Project,
                          targets |-> T, version |-> v, known |-> v, remote |-> FALSE,
                          binary |-> TRUE,
                          file |-> IF kind = "subagent" THEN v ELSE None,
                          force |-> FALSE, todo |-> T, failed |-> FALSE, raced |-> FALSE])
              ELSE Succeed
        \/ /\ kind = "fileOnly"
           /\ build' = [build EXCEPT !.file = v]
           /\ Succeed
    BY <1>1 DEF Build
  <2> DEFINE c == [kind |-> "build", at |-> "config", place |-> Project,
                   targets |-> T, version |-> v, known |-> v, remote |-> FALSE,
                   binary |-> TRUE,
                   file |-> IF kind = "subagent" THEN v ELSE None,
                   force |-> FALSE, todo |-> T, failed |-> FALSE, raced |-> FALSE]
  <2>1. c \in Cmd
    BY LifecycleAssumption DEF Cmd, Steps
  <2>2. build' \in [bin : Versions \cup {None}, file : Versions \cup {None}]
    BY DEF TypeOK
  <2>3. Become(c) \/ Become(NoCmd)
    BY DEF Succeed
  <2>4. cmd' \in Cmd \cup {NoCmd} /\ refused' \in BOOLEAN /\ faulty' \in BOOLEAN
    BY <2>1, <2>3, BecomeType
  <2> QED
    BY <1>1, <2>2, <2>4 DEF Build, TypeOK
<1>2. ASSUME EmitSubagent PROVE TypeOK'
  <2>1. build' \in [bin : Versions \cup {None}, file : Versions \cup {None}]
    BY <1>2, Running DEF EmitSubagent, TypeOK, Cmd
  <2> QED
    BY <1>2, <2>1, BecomeType DEF EmitSubagent, Succeed, TypeOK
<1>3. ASSUME InstallLocal PROVE TypeOK'
  <2> PICK place \in Places, T \in TargetSets, force \in BOOLEAN, known \in Described :
        \/ refused' = TRUE /\ UNCHANGED <<cmd, faulty>>
        \/ /\ build.bin # None
           /\ Become(InstallCmd("copy", place, T, build.bin, known, FALSE, TRUE,
                                PlannedFile(known), force))
        \/ /\ PlannedFile(known) # None
           /\ Become(InstallCmd("file", place, {}, PlannedFile(known), PlannedFile(known),
                                FALSE, FALSE, PlannedFile(known), force))
    BY <1>3 DEF InstallLocal
  <2> DEFINE f == PlannedFile(known)
  <2>1. /\ f \in Versions \cup {None} /\ known \in Versions \cup {Unknown}
        /\ build.bin # None => build.bin \in Versions
    BY PlannedFileType
  <2>2. T \in SUBSET Runtimes /\ {} \in SUBSET Runtimes /\ "copy" \in Steps /\ "file" \in Steps
    BY LifecycleAssumption DEF Steps
  <2> HIDE DEF f
  <2>3. build.bin # None
          => InstallCmd("copy", place, T, build.bin, known, FALSE, TRUE, f, force) \in Cmd
    BY <2>1, <2>2, InstallCmdType
  <2>4. f # None => InstallCmd("file", place, {}, f, f, FALSE, FALSE, f, force) \in Cmd
    BY <2>1, <2>2, InstallCmdType
  <2>5. cmd' \in Cmd \cup {NoCmd} /\ refused' \in BOOLEAN /\ faulty' \in BOOLEAN
    BY <2>3, <2>4, BecomeType DEF TypeOK, f
  <2> QED
    BY <1>3, <2>5 DEF InstallLocal, TypeOK
<1>4. ASSUME InstallRemote PROVE TypeOK'
  <2> PICK place \in Places, T \in TargetSets, v \in Released :
        Become(InstallCmd("copy", place, T, v, v, TRUE, TRUE, None, FALSE))
    BY <1>4 DEF InstallRemote
  <2>1. InstallCmd("copy", place, T, v, v, TRUE, TRUE, None, FALSE) \in Cmd
    BY InstallCmdType, LifecycleAssumption DEF Steps
  <2> QED
    BY <1>4, <2>1, BecomeType DEF InstallRemote, TypeOK
<1>5. ASSUME Update PROVE TypeOK'
  <2> PICK T \in TargetSets, v \in Released :
        Become(InstallCmd("copy", reg.place, T, v, v, TRUE, TRUE, None, FALSE))
    BY <1>5 DEF Update
  <2>1. InstallCmd("copy", reg.place, T, v, v, TRUE, TRUE, None, FALSE) \in Cmd
    <3>1. reg.place \in Places
      BY <1>5 DEF Update, TypeOK, Entry
    <3> QED
      BY <3>1, InstallCmdType, LifecycleAssumption DEF Steps
  <2> QED
    BY <1>5, <2>1, BecomeType DEF Update, TypeOK
<1>6. ASSUME Uninstall PROVE TypeOK'
  <2> PICK T \in TargetSets :
        Become([kind |-> "uninstall", at |-> IF reg.binary THEN "remove" ELSE "check",
                place |-> reg.place, targets |-> IF reg.binary THEN T ELSE {},
                version |-> reg.version, known |-> reg.version,
                remote |-> reg.remote, binary |-> reg.binary, file |-> reg.file, force |-> FALSE,
                todo |-> {r \in T : reg.binary /\ entry[reg.place][r] # None},
                failed |-> FALSE, raced |-> FALSE])
    BY <1>6 DEF Uninstall
  <2> DEFINE c == [kind |-> "uninstall", at |-> IF reg.binary THEN "remove" ELSE "check",
                   place |-> reg.place, targets |-> IF reg.binary THEN T ELSE {},
                   version |-> reg.version, known |-> reg.version,
                   remote |-> reg.remote, binary |-> reg.binary, file |-> reg.file, force |-> FALSE,
                   todo |-> {r \in T : reg.binary /\ entry[reg.place][r] # None},
                   failed |-> FALSE, raced |-> FALSE]
  <2>1. c \in Cmd
    <3>1. reg \in Entry
      BY <1>6 DEF Uninstall, TypeOK
    <3>2. T \in SUBSET Runtimes
      BY LifecycleAssumption
    <3> QED
      BY <3>1, <3>2 DEF Entry, Cmd, Steps
  <2>2. Become(c)
    OBVIOUS
  <2> HIDE DEF c
  <2> QED
    BY <1>6, <2>1, <2>2, BecomeType DEF Uninstall, TypeOK
<1>7. ASSUME CopyStart \/ CopyEnd PROVE TypeOK'
  <2>1. cmd \in Cmd
    BY <1>7, Running DEF CopyStart, CopyEnd
  <2>2. cmd' \in Cmd /\ refused' \in BOOLEAN /\ faulty' \in BOOLEAN
    BY <1>7, <2>1, MovedOn DEF CopyStart, CopyEnd, Goto, Become, Steps, TypeOK
  <2>3. bin' \in [Places -> Versions \cup {None, Torn}]
    <3>1. cmd.place \in Places /\ cmd # NoCmd /\ cmd.at \in {"copy", "copying"}
      BY <1>7, <2>1 DEF CopyStart, CopyEnd, Idle, Cmd
    <3>2. cmd.version \in Versions
      BY <2>1, <3>1 DEF InstallUnderWay, UninstallUnderWay, BuildUnderWay, Idle, Cmd
    <3> QED
      BY <1>7, <3>1, <3>2 DEF CopyStart, CopyEnd, TypeOK
  <2> QED
    BY <1>7, <2>2, <2>3 DEF CopyStart, CopyEnd, TypeOK
<1>8. ASSUME EditConfig PROVE TypeOK'
  <2>1. cmd \in Cmd
    BY <1>8, Running DEF EditConfig
  <2>2. cmd.todo \in SUBSET Runtimes /\ cmd.place \in Places
    BY <2>1 DEF Cmd
  <2>3. ASSUME NEW r \in cmd.todo,
               entry' = [entry EXCEPT ![cmd.place][r] =
                           IF cmd.kind = "build" THEN "build" ELSE "bin"],
               Become([cmd EXCEPT !.todo = @ \ {r}])
        PROVE  TypeOK'
    <3>1. entry' \in [Places -> [Runtimes -> {"build", "bin", None}]]
      BY <2>2, <2>3, EntryType
    <3>2. [cmd EXCEPT !.todo = @ \ {r}] \in Cmd \cup {NoCmd}
      BY <2>1, MovedOn DEF Steps
    <3>3. cmd' \in Cmd \cup {NoCmd} /\ refused' \in BOOLEAN /\ faulty' \in BOOLEAN
      BY <2>3, <3>2, BecomeType
    <3> QED
      BY <1>8, <3>1, <3>3 DEF EditConfig, TypeOK
  <2>4. ASSUME Stop, UNCHANGED entry PROVE TypeOK'
    BY <1>8, <2>4 DEF EditConfig, Stop, TypeOK
  <2>5. ASSUME NEW s \in {"emit", "track", "file"}, Goto(s), UNCHANGED entry PROVE TypeOK'
    <3>1. [cmd EXCEPT !.at = s] \in Cmd \cup {NoCmd}
      BY <2>1, MovedOn DEF Steps
    <3>2. cmd' \in Cmd \cup {NoCmd} /\ refused' \in BOOLEAN /\ faulty' \in BOOLEAN
      BY <2>5, <3>1, BecomeType DEF Goto
    <3> QED
      BY <1>8, <2>5, <3>2 DEF EditConfig, TypeOK
  <2> QED
    BY <1>8, <2>3, <2>4, <2>5 DEF EditConfig
<1>9. ASSUME FileStart \/ FileEnd \/ RemoveFile PROVE TypeOK'
  <2>1. cmd \in Cmd
    BY <1>9, Running DEF FileStart, FileEnd, RemoveFile
  <2>2. cmd' \in Cmd /\ refused' \in BOOLEAN /\ faulty' \in BOOLEAN
    BY <1>9, <2>1, MovedOn DEF FileStart, FileEnd, RemoveFile, Goto, Become, Steps, TypeOK
  <2>3. file' \in [Places -> Versions \cup {None, Torn, Edited}]
    BY <1>9, <2>1 DEF FileStart, FileEnd, RemoveFile, TypeOK, Cmd
  <2> QED
    BY <1>9, <2>2, <2>3 DEF FileStart, FileEnd, RemoveFile, TypeOK
<1>10. ASSUME Track PROVE TypeOK'
  <2>1. reg' \in Entry
    BY <1>10, Running DEF Track, Cmd, Entry
  <2> QED
    BY <1>10, <2>1 DEF Track, TypeOK
<1>11. ASSUME RemoveBinary PROVE TypeOK'
  <2>1. cmd \in Cmd
    BY <1>11, Running DEF RemoveBinary
  <2>2. cmd' \in Cmd /\ refused' \in BOOLEAN /\ faulty' \in BOOLEAN
    BY <1>11, <2>1, MovedOn DEF RemoveBinary, Goto, Become, Steps, TypeOK
  <2> QED
    BY <1>11, <2>2 DEF RemoveBinary, TypeOK
<1>12. ASSUME RemoveEntry PROVE TypeOK'
  <2>1. cmd \in Cmd
    BY <1>12, Running DEF RemoveEntry
  <2>2. cmd.todo \in SUBSET Runtimes /\ cmd.place \in Places
    BY <2>1 DEF Cmd
  <2>3. ASSUME NEW r \in cmd.todo, NEW c \in Cmd, Become(c),
               entry' \in {entry, [entry EXCEPT ![cmd.place][r] = None]}
        PROVE  TypeOK'
    <3>1. entry' \in [Places -> [Runtimes -> {"build", "bin", None}]]
      <4>1. r \in Runtimes
        BY <2>2
      <4>2. entry' = entry \/ entry' = [entry EXCEPT ![cmd.place][r] = None]
        BY <2>3
      <4>3. [entry EXCEPT ![cmd.place][r] = None] \in [Places -> [Runtimes -> {"build", "bin", None}]]
        BY <2>2, <4>1, EntryType
      <4> QED
        BY <4>2, <4>3 DEF TypeOK
    <3>2. cmd' \in Cmd \cup {NoCmd} /\ refused' \in BOOLEAN /\ faulty' \in BOOLEAN
      BY <2>3, BecomeType
    <3> QED
      BY <1>12, <3>1, <3>2 DEF RemoveEntry, TypeOK
  <2>4. ASSUME Stop, UNCHANGED entry PROVE TypeOK'
    BY <1>12, <2>4 DEF RemoveEntry, Stop, TypeOK
  <2>5. ASSUME Goto("check"), UNCHANGED entry PROVE TypeOK'
    <3>1. [cmd EXCEPT !.at = "check"] \in Cmd \cup {NoCmd}
      BY <2>1, MovedOn DEF Steps
    <3>2. cmd' \in Cmd \cup {NoCmd} /\ refused' \in BOOLEAN /\ faulty' \in BOOLEAN
      BY <2>5, <3>1, BecomeType DEF Goto
    <3> QED
      BY <1>12, <2>5, <3>2 DEF RemoveEntry, TypeOK
  <2>6. \A r : /\ [cmd EXCEPT !.todo = @ \ {r}] \in Cmd
               /\ [cmd EXCEPT !.todo = @ \ {r}, !.failed = TRUE] \in Cmd
    BY <2>1, MovedOn DEF Steps
  <2> QED
    BY <1>12, <2>3, <2>4, <2>5, <2>6 DEF RemoveEntry
<1>13. ASSUME CheckFile PROVE TypeOK'
  <2>1. cmd' \in Cmd /\ refused' \in BOOLEAN /\ faulty' \in BOOLEAN
    BY <1>13, Running, MovedOn DEF CheckFile, Goto, Become, Steps, TypeOK
  <2> QED
    BY <1>13, <2>1 DEF CheckFile, TypeOK
<1>14. ASSUME Untrack PROVE TypeOK'
  BY <1>14 DEF Untrack, Succeed, Become, TypeOK
<1>15. ASSUME Fail PROVE TypeOK'
  BY <1>15 DEF Fail, Stop, TypeOK
<1>16. ASSUME User PROVE TypeOK'
  <2>1. cmd' \in Cmd \cup {NoCmd} /\ refused' \in BOOLEAN /\ faulty' \in BOOLEAN
    <3>1. Become(cmd) \/ (~Idle /\ Become([cmd EXCEPT !.raced = TRUE]))
      BY <1>16, UserRaces
    <3>2. ~Idle => [cmd EXCEPT !.raced = TRUE] \in Cmd \cup {NoCmd}
      BY Running, MovedOn DEF Steps
    <3>3. cmd \in Cmd \cup {NoCmd}
      BY DEF TypeOK
    <3>4. CASE Become(cmd)
      BY <3>3, <3>4, BecomeType
    <3>5. CASE ~Idle /\ Become([cmd EXCEPT !.raced = TRUE])
      BY <3>2, <3>5, BecomeType
    <3> QED
      BY <3>1, <3>4, <3>5
  <2>2. CASE UserEditsFile
    BY <2>1, <2>2 DEF UserEditsFile, TypeOK
  <2>3. CASE UserEditsConfig
    BY <2>1, <2>3, LifecycleAssumption DEF UserEditsConfig, TypeOK
  <2>4. CASE UserCleansBuild
    BY <2>1, <2>4 DEF UserCleansBuild, TypeOK
  <2> QED
    BY <1>16, <2>2, <2>3, <2>4 DEF User
<1>17. ASSUME UNCHANGED vars PROVE TypeOK'
  BY <1>17 DEF vars, TypeOK
<1> QED
  BY <1>1, <1>2, <1>3, <1>4, <1>5, <1>6, <1>7, <1>8, <1>9, <1>10, <1>11, <1>12,
     <1>13, <1>14, <1>15, <1>16, <1>17 DEF Next, Step
------------------------------------------------------------------------------
\* An install that starts has looked at the file it may overwrite.
LEMMA PlanLooks ==
  ASSUME TypeOK, NEW p \in Places, NEW planned \in Versions, NEW force \in BOOLEAN,
         MayReplace(p, planned, force), ~force
  PROVE  file[p] # Edited
BY LifecycleAssumption DEF MayReplace, TypeOK, Entry

\* Every step leaves an install where it should be.
LEMMA InstallStep == ASSUME IInv, [Next]_vars PROVE InstallUnderWay'
<1> USE DEF IInv, Idle
<1>1. ASSUME Build PROVE InstallUnderWay'
  BY <1>1 DEF Build, Become, Succeed, InstallUnderWay
<1>2. ASSUME EmitSubagent \/ Track \/ Untrack \/ Fail PROVE InstallUnderWay'
  BY <1>2 DEF EmitSubagent, Track, Untrack, Fail, Succeed, Become, Stop, InstallUnderWay
<1>3. ASSUME InstallLocal PROVE InstallUnderWay'
  <2> PICK place \in Places, T \in TargetSets, force \in BOOLEAN, known \in Described :
        \/ UNCHANGED cmd
        \/ /\ PlannedFile(known) = None \/ MayReplace(place, PlannedFile(known), force)
           /\ \/ /\ build.bin # None
                 /\ Become(InstallCmd("copy", place, T, build.bin, known, FALSE, TRUE,
                                      PlannedFile(known), force))
              \/ /\ PlannedFile(known) # None
                 /\ Become(InstallCmd("file", place, {}, PlannedFile(known),
                                      PlannedFile(known), FALSE, FALSE, PlannedFile(known),
                                      force))
    BY <1>3 DEF InstallLocal
  <2> DEFINE f == PlannedFile(known)
  <2>1. UNCHANGED installed /\ cmd = NoCmd
    BY <1>3 DEF InstallLocal
  <2>2. /\ f \in Versions \cup {None} /\ known \in {build.bin, Unknown}
        /\ build.bin # None => build.bin \in Versions
        /\ known # Unknown => f \in {None, known}
    BY PlannedFileType
  <2>3. CASE UNCHANGED cmd
    BY <2>1, <2>3 DEF InstallUnderWay
  <2> HIDE DEF f
  <2>4. ASSUME f = None \/ MayReplace(place, f, force)
        PROVE  f = None \/ force \/ file[place] # Edited
    BY <2>2, <2>4, PlanLooks
  <2>5. CASE /\ f = None \/ MayReplace(place, f, force)
             /\ build.bin # None
             /\ Become(InstallCmd("copy", place, T, build.bin, known, FALSE, TRUE, f, force))
    BY <2>1, <2>2, <2>4, <2>5 DEF Become, InstallCmd, InstallUnderWay, installed
  <2>6. CASE /\ f = None \/ MayReplace(place, f, force)
             /\ f # None
             /\ Become(InstallCmd("file", place, {}, f, f, FALSE, FALSE, f, force))
    <3>1. f \in Versions /\ f # Unknown
      BY <2>2, <2>6, LifecycleAssumption
    <3> QED
      BY <2>1, <2>4, <2>6, <3>1 DEF Become, InstallCmd, InstallUnderWay, installed
  <2> QED
    BY <2>3, <2>5, <2>6 DEF f
<1>4. ASSUME InstallRemote \/ Update PROVE InstallUnderWay'
  <2>1. PICK place \in Places, T \in TargetSets, v \in Released :
          cmd' = InstallCmd("copy", place, T, v, v, TRUE, TRUE, None, FALSE)
    <3>1. CASE InstallRemote
      BY <3>1 DEF InstallRemote, Become
    <3>2. CASE Update
      <4>1. reg.place \in Places
        BY <3>2 DEF Update, TypeOK, Entry
      <4> QED
        BY <3>2, <4>1 DEF Update, Become
    <3> QED
      BY <1>4, <3>1, <3>2
  <2>2. v \in Versions
    BY LifecycleAssumption
  <2>3. Unknown \notin Versions
    BY LifecycleAssumption
  <2>4. v # Unknown
    BY <2>2, <2>3
  <2> QED
    BY <2>1, <2>2, <2>4 DEF InstallCmd, InstallUnderWay
<1>5. ASSUME Uninstall PROVE InstallUnderWay'
  BY <1>5 DEF Uninstall, Become, InstallUnderWay
<1>6. ASSUME CopyStart \/ CopyEnd PROVE InstallUnderWay'
  <2>1. cmd \in Cmd
    BY <1>6, Running DEF CopyStart, CopyEnd
  <2>2. /\ cmd # NoCmd /\ cmd.kind = "install" /\ cmd.place \in Places
        /\ cmd.at \in {"copy", "copying"}
    BY <1>6, <2>1 DEF CopyStart, CopyEnd, UninstallUnderWay, BuildUnderWay, Cmd
  <2>3. \/ cmd' = [cmd EXCEPT !.at = "copying"]
        \/ (cmd' = [cmd EXCEPT !.at = "config"] /\ bin'[cmd.place] = cmd.version)
    BY <1>6, <2>2 DEF CopyStart, CopyEnd, Goto, Become, TypeOK
  <2>4. /\ cmd'.place = cmd.place /\ cmd'.file = cmd.file /\ cmd'.binary = cmd.binary
        /\ cmd'.version = cmd.version /\ cmd'.known = cmd.known /\ cmd'.remote = cmd.remote
        /\ cmd'.force = cmd.force /\ cmd'.raced = cmd.raced
        /\ \/ cmd'.at = "copying"
           \/ (cmd'.at = "config" /\ bin'[cmd.place] = cmd.version)
    BY <2>1, <2>3 DEF Cmd
  <2>5. file' = file
    BY <1>6 DEF CopyStart, CopyEnd
  <2> QED
    BY <2>2, <2>4, <2>5 DEF InstallUnderWay
<1>7. ASSUME EditConfig PROVE InstallUnderWay'
  <2>1. cmd \in Cmd
    BY <1>7, Running DEF EditConfig
  <2> QED
    BY <1>7, <2>1 DEF EditConfig, Goto, Become, Stop, InstallUnderWay, Cmd
<1>8. ASSUME FileStart \/ FileEnd PROVE InstallUnderWay'
  <2>1. cmd \in Cmd /\ cmd # NoCmd /\ cmd.at \in {"file", "writing"}
    BY <1>8, Running DEF FileStart, FileEnd
  <2>2. cmd.kind = "install" /\ cmd.file \in Versions
    BY <2>1 DEF InstallUnderWay, UninstallUnderWay, BuildUnderWay, Cmd
  <2>3. cmd.place \in Places
    BY <2>1 DEF Cmd
  <2>4. cmd' \in {[cmd EXCEPT !.at = "writing"], [cmd EXCEPT !.at = "track"]}
    BY <1>8 DEF FileStart, FileEnd, Goto, Become
  <2>5. /\ cmd'.place = cmd.place /\ cmd'.file = cmd.file /\ cmd'.binary = cmd.binary
        /\ cmd'.version = cmd.version /\ cmd'.known = cmd.known /\ cmd'.remote = cmd.remote
        /\ cmd'.force = cmd.force /\ cmd'.raced = cmd.raced
        /\ cmd'.at \in {"writing", "track"}
    BY <2>1, <2>4 DEF Cmd
  <2>6. file'[cmd.place] # Edited /\ (cmd'.at = "track" => file'[cmd.place] = cmd.file)
    BY <1>8, <2>1, <2>2, <2>3, LifecycleAssumption
       DEF FileStart, FileEnd, Goto, Become, TypeOK, Cmd
  <2>7. bin' = bin
    BY <1>8 DEF FileStart, FileEnd
  <2> QED
    BY <2>1, <2>2, <2>5, <2>6, <2>7 DEF InstallUnderWay
<1>9. ASSUME RemoveBinary \/ RemoveEntry \/ CheckFile \/ RemoveFile PROVE InstallUnderWay'
  <2>1. cmd \in Cmd /\ cmd.kind # "install"
    BY <1>9, Running DEF RemoveBinary, RemoveEntry, CheckFile, RemoveFile, InstallUnderWay
  <2>2. cmd' = NoCmd \/ cmd'.kind = cmd.kind
    BY <1>9, <2>1 DEF RemoveBinary, RemoveEntry, CheckFile, RemoveFile, Goto, Become, Stop, Cmd
  <2> QED
    BY <2>1, <2>2 DEF InstallUnderWay
<1>10. ASSUME User PROVE InstallUnderWay'
  <2>1. CASE Idle
    BY <1>10, <2>1
       DEF User, UserEditsFile, UserEditsConfig, UserCleansBuild, Raced, Succeed, Become,
           InstallUnderWay
  <2>2. CASE ~Idle /\ UserEditsFile
    <3>1. cmd \in Cmd
      BY <2>2, Running
    <3>2. PICK p \in Places, f \in {Edited, None} :
            file' = [file EXCEPT ![p] = f] /\ Raced(p) /\ bin' = bin
      BY <2>2 DEF UserEditsFile
    <3>3. CASE cmd.place = p
      <4>1. cmd' = [cmd EXCEPT !.raced = TRUE] /\ file'[cmd.place] \in {Edited, None}
        BY <2>2, <3>2, <3>3 DEF Raced, Become, TypeOK
      <4> QED
        BY <2>2, <3>1, <3>2, <4>1 DEF InstallUnderWay, Cmd
    <3>4. CASE cmd.place # p
      <4>1. cmd' = cmd /\ file'[cmd.place] = file[cmd.place]
        BY <3>1, <3>2, <3>4 DEF Raced, Become, TypeOK, Cmd
      <4> QED
        BY <3>2, <4>1 DEF InstallUnderWay
    <3> QED
      BY <3>3, <3>4
  <2>3. CASE ~Idle /\ UserEditsConfig
    <3>1. cmd \in Cmd
      BY <2>3, Running
    <3> QED
      BY <2>3, <3>1 DEF UserEditsConfig, Raced, Become, installed, InstallUnderWay, Cmd
  <2> QED
    BY <1>10, <2>1, <2>2, <2>3 DEF User, UserCleansBuild
<1>11. ASSUME UNCHANGED vars PROVE InstallUnderWay'
  BY <1>11 DEF vars, InstallUnderWay
<1> QED
  BY <1>1, <1>2, <1>3, <1>4, <1>5, <1>6, <1>7, <1>8, <1>9, <1>10, <1>11 DEF Next, Step
------------------------------------------------------------------------------
\* Every step leaves an uninstall where it should be.
LEMMA UninstallStep == ASSUME IInv, [Next]_vars PROVE UninstallUnderWay'
<1> USE DEF IInv, Idle
<1>1. ASSUME Build \/ InstallLocal \/ InstallRemote \/ Update PROVE UninstallUnderWay'
  BY <1>1 DEF Build, InstallLocal, InstallRemote, Update, InstallCmd, Become, Succeed,
              UninstallUnderWay
<1>2. ASSUME EmitSubagent \/ Track \/ Untrack \/ Fail PROVE UninstallUnderWay'
  BY <1>2 DEF EmitSubagent, Track, Untrack, Fail, Succeed, Become, Stop, UninstallUnderWay
<1>3. ASSUME Uninstall PROVE UninstallUnderWay'
  <2> PICK T \in TargetSets :
        Become([kind |-> "uninstall", at |-> IF reg.binary THEN "remove" ELSE "check",
                place |-> reg.place, targets |-> IF reg.binary THEN T ELSE {},
                version |-> reg.version, known |-> reg.version,
                remote |-> reg.remote, binary |-> reg.binary, file |-> reg.file, force |-> FALSE,
                todo |-> {r \in T : reg.binary /\ entry[reg.place][r] # None},
                failed |-> FALSE, raced |-> FALSE])
    BY <1>3 DEF Uninstall
  <2>1. /\ cmd'.at = (IF reg.binary THEN "remove" ELSE "check")
        /\ cmd'.place = reg.place /\ cmd'.binary = reg.binary /\ cmd'.file = reg.file
        /\ cmd'.failed = FALSE
        /\ cmd'.targets = (IF reg.binary THEN T ELSE {})
        /\ cmd'.todo = {r \in T : reg.binary /\ entry[reg.place][r] # None}
    BY DEF Become
  <2>2. UNCHANGED installed /\ reg # None
    BY <1>3 DEF Uninstall
  <2>3. ~reg.binary => cmd'.todo = {}
    BY <2>1
  <2>4. \A r \in cmd'.targets \ cmd'.todo : entry[reg.place][r] = None
    BY <2>1
  <2> QED
    BY <2>1, <2>2, <2>3, <2>4 DEF UninstallUnderWay, installed
<1>4. ASSUME CopyStart \/ CopyEnd \/ FileStart \/ FileEnd PROVE UninstallUnderWay'
  <2>1. cmd \in Cmd /\ cmd # NoCmd /\ cmd.kind # "uninstall"
    BY <1>4, Running DEF CopyStart, CopyEnd, FileStart, FileEnd, UninstallUnderWay
  <2>2. cmd'.kind = cmd.kind
    BY <1>4, <2>1 DEF CopyStart, CopyEnd, FileStart, FileEnd, Goto, Become, Cmd
  <2> QED
    BY <2>1, <2>2 DEF UninstallUnderWay
<1>5. ASSUME EditConfig PROVE UninstallUnderWay'
  <2>1. cmd \in Cmd /\ cmd.kind # "uninstall"
    BY <1>5, Running DEF EditConfig
  <2>2. cmd' = NoCmd \/ cmd'.kind = cmd.kind
    BY <1>5, <2>1 DEF EditConfig, Goto, Become, Stop, Cmd
  <2> QED
    BY <2>1, <2>2 DEF UninstallUnderWay
<1>6. ASSUME RemoveBinary PROVE UninstallUnderWay'
  <2>1. cmd \in Cmd /\ cmd # NoCmd
    BY <1>6, Running DEF RemoveBinary
  <2>2. cmd.kind = "uninstall"
    BY <1>6, <2>1 DEF RemoveBinary, InstallUnderWay, BuildUnderWay, Cmd
  <2> QED
    BY <1>6, <2>1, <2>2 DEF RemoveBinary, Goto, Become, UninstallUnderWay, TypeOK, Cmd
<1>7. ASSUME RemoveEntry PROVE UninstallUnderWay'
  <2>1. cmd \in Cmd /\ cmd # NoCmd /\ cmd.kind = "uninstall" /\ cmd.at = "config"
    BY <1>7, Running DEF RemoveEntry
  <2>2. UNCHANGED <<bin, file, reg>> /\ cmd.place \in Places
    BY <1>7, <2>1 DEF RemoveEntry, Cmd
  <2>3. ASSUME NEW r \in cmd.todo,
               entry' = [entry EXCEPT ![cmd.place][r] = None],
               Become([cmd EXCEPT !.todo = @ \ {r}])
        PROVE  UninstallUnderWay'
    <3>1. /\ cmd'.place = cmd.place /\ cmd'.binary = cmd.binary /\ cmd'.file = cmd.file
          /\ cmd'.failed = cmd.failed /\ cmd'.at = "config"
          /\ cmd'.targets = cmd.targets /\ cmd'.todo = cmd.todo \ {r}
      BY <2>1, <2>3 DEF Become, Cmd
    <3>2. \A s \in Runtimes : entry'[cmd.place][s] = IF s = r THEN None ELSE entry[cmd.place][s]
      BY <2>2, <2>3 DEF TypeOK
    <3>3. cmd.targets \in SUBSET Runtimes
      BY <2>1 DEF Cmd
    <3>4. cmd.failed \/ \A s \in cmd'.targets \ cmd'.todo : entry'[cmd.place][s] = None
      BY <2>1, <3>1, <3>2, <3>3 DEF UninstallUnderWay
    <3> QED
      BY <2>1, <2>2, <3>1, <3>4 DEF UninstallUnderWay
  <2>4. ASSUME NEW r \in cmd.todo, UNCHANGED entry,
               Become([cmd EXCEPT !.todo = @ \ {r}, !.failed = TRUE])
        PROVE  UninstallUnderWay'
    BY <2>1, <2>2, <2>4 DEF Become, UninstallUnderWay, Cmd
  <2>5. ASSUME cmd.todo = {}, ~cmd.failed, UNCHANGED entry, Goto("check")
        PROVE  UninstallUnderWay'
    BY <2>1, <2>2, <2>5 DEF Goto, Become, UninstallUnderWay, Cmd
  <2>6. ASSUME Stop PROVE UninstallUnderWay'
    BY <2>6 DEF Stop, UninstallUnderWay
  <2> QED
    BY <1>7, <2>3, <2>4, <2>5, <2>6 DEF RemoveEntry
<1>8. ASSUME CheckFile \/ RemoveFile PROVE UninstallUnderWay'
  <2>1. cmd \in Cmd /\ cmd # NoCmd /\ cmd.at \in {"check", "removeFile"}
    BY <1>8, Running DEF CheckFile, RemoveFile
  <2>2. cmd.kind = "uninstall" /\ cmd.place \in Places /\ cmd.file \in Versions \cup {None}
    BY <2>1 DEF InstallUnderWay, BuildUnderWay, Cmd
  <2>3. CASE CheckFile
    <3>1. cmd.file = None \/ cmd.file # Edited
      BY <2>2, LifecycleAssumption
    <3> QED
      BY <2>1, <2>2, <2>3, <3>1 DEF CheckFile, Goto, Become, UninstallUnderWay, installed, Cmd
  <2>4. CASE RemoveFile
    <3>1. file'[cmd.place] = None
      BY <2>2, <2>4 DEF RemoveFile, TypeOK
    <3> QED
      BY <2>1, <2>2, <2>4, <3>1 DEF RemoveFile, Goto, Become, UninstallUnderWay, Cmd
  <2> QED
    BY <1>8, <2>3, <2>4
<1>9. ASSUME User PROVE UninstallUnderWay'
  <2>1. CASE Idle
    BY <1>9, <2>1, UserRaces DEF Become, UninstallUnderWay
  <2>2. CASE ~Idle /\ UserEditsFile
    <3>1. cmd \in Cmd
      BY <2>2, Running
    <3>2. PICK p \in Places, f \in {Edited, None} :
            /\ file' = [file EXCEPT ![p] = f] /\ Raced(p)
            /\ UNCHANGED <<bin, entry, reg>>
      BY <2>2 DEF UserEditsFile
    <3>3. CASE cmd.place = p
      <4>1. cmd' = [cmd EXCEPT !.raced = TRUE]
        BY <2>2, <3>2, <3>3 DEF Raced, Become
      <4> QED
        BY <2>2, <3>1, <3>2, <4>1 DEF UninstallUnderWay, Cmd
    <3>4. CASE cmd.place # p
      <4>1. cmd' = cmd /\ file'[cmd.place] = file[cmd.place]
        BY <3>1, <3>2, <3>4 DEF Raced, Become, TypeOK, Cmd
      <4> QED
        BY <3>2, <4>1 DEF UninstallUnderWay
    <3> QED
      BY <3>3, <3>4
  <2>3. CASE ~Idle /\ UserEditsConfig
    <3>1. cmd \in Cmd
      BY <2>3, Running
    <3> QED
      BY <2>3, <3>1 DEF UserEditsConfig, Raced, Become, installed, UninstallUnderWay, Cmd
  <2> QED
    BY <1>9, <2>1, <2>2, <2>3 DEF User, UserCleansBuild
<1>10. ASSUME UNCHANGED vars PROVE UninstallUnderWay'
  BY <1>10 DEF vars, UninstallUnderWay
<1> QED
  BY <1>1, <1>2, <1>3, <1>4, <1>5, <1>6, <1>7, <1>8, <1>9, <1>10 DEF Next, Step
------------------------------------------------------------------------------
\* What the registry says stays true while nothing is installed or removed.
LEMMA TruthKept ==
  ASSUME TypeOK, Truthful, bin' = bin, reg' = reg,
         file' = file \/ \E p \in Places, f \in {Edited, None} : file' = [file EXCEPT ![p] = f]
  PROVE  Truthful'
<1>1. CASE file' = file
  BY <1>1 DEF Truthful
<1>2. CASE \E p \in Places, f \in {Edited, None} : file' = [file EXCEPT ![p] = f]
  <2>1. reg # None => file'[reg.place] \in {file[reg.place], Edited, None}
    BY <1>2 DEF TypeOK, Entry
  <2> QED
    BY <2>1 DEF Truthful
<1> QED
  BY <1>1, <1>2

\* Every step leaves a build where it should be, and the registry truthful when
\* a command ends.
LEMMA TruthStep == ASSUME IInv, [Next]_vars PROVE BuildUnderWay' /\ RegistryTruthful'
<1> USE DEF IInv, Idle
<1>1. ASSUME Build PROVE BuildUnderWay' /\ RegistryTruthful'
  <2>1. /\ faulty' = faulty /\ UNCHANGED installed /\ cmd = NoCmd
        /\ cmd' = NoCmd \/ cmd'.at = "config"
    BY <1>1 DEF Build, Become, Succeed
  <2>2. faulty \/ Truthful'
    BY <2>1, TruthKept DEF RegistryTruthful, installed
  <2> QED
    BY <2>1, <2>2 DEF BuildUnderWay, RegistryTruthful
<1>2. ASSUME EmitSubagent PROVE BuildUnderWay' /\ RegistryTruthful'
  <2>1. cmd \in Cmd /\ cmd # NoCmd /\ cmd.at = "emit"
    BY <1>2, Running DEF EmitSubagent
  <2>2. cmd.kind = "build"
    BY <2>1 DEF InstallUnderWay, UninstallUnderWay, Cmd
  <2>3. faulty' = faulty /\ UNCHANGED installed /\ cmd' = NoCmd
    BY <1>2 DEF EmitSubagent, Succeed, Become
  <2>4. faulty \/ Truthful'
    BY <2>1, <2>2, <2>3, TruthKept DEF BuildUnderWay, installed
  <2> QED
    BY <2>3, <2>4 DEF BuildUnderWay, RegistryTruthful
<1>3. ASSUME InstallLocal \/ InstallRemote \/ Update \/ Uninstall
      PROVE  BuildUnderWay' /\ RegistryTruthful'
  <2>1. /\ faulty' = faulty /\ UNCHANGED installed /\ cmd = NoCmd
        /\ cmd' = NoCmd \/ cmd'.kind \in {"install", "uninstall"}
    BY <1>3 DEF InstallLocal, InstallRemote, Update, Uninstall, InstallCmd, Become
  <2>2. faulty \/ Truthful'
    BY <2>1, TruthKept DEF RegistryTruthful, installed
  <2> QED
    BY <2>1, <2>2 DEF BuildUnderWay, RegistryTruthful
<1>4. ASSUME CopyStart \/ CopyEnd \/ FileStart \/ FileEnd \/ RemoveBinary
             \/ CheckFile \/ RemoveFile
      PROVE  BuildUnderWay' /\ RegistryTruthful'
  <2>1. cmd \in Cmd /\ cmd # NoCmd /\ cmd.kind # "build"
    BY <1>4, Running
       DEF CopyStart, CopyEnd, FileStart, FileEnd, RemoveBinary, CheckFile, RemoveFile,
           BuildUnderWay
  <2>2. \E s \in Steps : cmd' = [cmd EXCEPT !.at = s]
    BY <1>4 DEF CopyStart, CopyEnd, FileStart, FileEnd, RemoveBinary, CheckFile, RemoveFile,
                Goto, Become, Steps
  <2>3. cmd' \in Cmd
    BY <2>1, <2>2, MovedOn
  <2>4. cmd' # NoCmd /\ cmd'.kind = cmd.kind
    BY <2>1, <2>2, <2>3, CmdIsCmd DEF Cmd
  <2> QED
    BY <2>1, <2>4 DEF BuildUnderWay, RegistryTruthful
<1>5. ASSUME EditConfig PROVE BuildUnderWay' /\ RegistryTruthful'
  <2>1. cmd \in Cmd /\ cmd # NoCmd
    BY <1>5, Running DEF EditConfig
  <2>2. bin' = bin /\ reg' = reg /\ file' = file
    BY <1>5 DEF EditConfig
  <2>3. cmd.kind = "build" => faulty \/ Truthful'
    BY <2>1, <2>2, TruthKept DEF BuildUnderWay
  <2>4. CASE Stop
    BY <2>4 DEF Stop, BuildUnderWay, RegistryTruthful
  <2>5. CASE \E r \in cmd.todo : Become([cmd EXCEPT !.todo = @ \ {r}])
    <3>1. faulty' = faulty /\ cmd' \in Cmd
      BY <2>1, <2>5, MovedOn DEF Become, Steps
    <3>2. cmd' # NoCmd /\ cmd'.kind = cmd.kind /\ cmd'.at = cmd.at
      BY <2>1, <2>5, <3>1, CmdIsCmd DEF Become, Cmd
    <3> QED
      BY <2>1, <2>3, <3>1, <3>2 DEF BuildUnderWay, RegistryTruthful
  <2>6. CASE Goto(IF cmd.kind = "build" THEN "emit"
                  ELSE IF cmd.file = None THEN "track" ELSE "file")
    <3>1. faulty' = faulty /\ cmd' \in Cmd
      BY <2>1, <2>6, MovedOn DEF Goto, Become, Steps
    <3>2. cmd' # NoCmd /\ cmd'.kind = cmd.kind /\ (cmd.kind = "build" => cmd'.at = "emit")
      BY <2>1, <2>6, <3>1, CmdIsCmd DEF Goto, Become, Cmd
    <3> QED
      BY <2>1, <2>3, <3>1, <3>2 DEF BuildUnderWay, RegistryTruthful
  <2> QED
    BY <1>5, <2>4, <2>5, <2>6 DEF EditConfig
<1>6. ASSUME Track PROVE BuildUnderWay' /\ RegistryTruthful'
  <2>1. cmd \in Cmd /\ cmd # NoCmd /\ cmd.at = "track"
    BY <1>6, Running DEF Track
  <2>2. cmd.kind = "install"
    BY <2>1 DEF UninstallUnderWay, BuildUnderWay, Cmd
  <2>3. /\ cmd.binary => bin[cmd.place] = cmd.version
        /\ cmd.file # None => file[cmd.place] \in {cmd.file, Edited, None}
        /\ cmd.version \in Versions /\ cmd.known \in {cmd.version, Unknown}
        /\ cmd.known # Unknown => cmd.file \in {None, cmd.version}
        /\ cmd.remote \/ ~cmd.binary => cmd.known # Unknown
    BY <2>1, <2>2 DEF InstallUnderWay
  <2>4. /\ reg'.place = cmd.place /\ reg'.version = cmd.known /\ reg'.remote = cmd.remote
        /\ reg'.binary = cmd.binary /\ reg'.file = cmd.file
        /\ cmd' = NoCmd /\ UNCHANGED <<bin, file>>
    BY <1>6 DEF Track
  <2>5. Truthful'
    BY <2>3, <2>4 DEF Truthful
  <2> QED
    BY <2>4, <2>5 DEF BuildUnderWay, RegistryTruthful
<1>7. ASSUME RemoveEntry PROVE BuildUnderWay' /\ RegistryTruthful'
  <2>1. cmd \in Cmd /\ cmd.kind = "uninstall"
    BY <1>7, Running DEF RemoveEntry
  <2>2. \/ Stop
        \/ \E r \in cmd.todo : Become([cmd EXCEPT !.todo = @ \ {r}])
        \/ \E r \in cmd.todo : Become([cmd EXCEPT !.todo = @ \ {r}, !.failed = TRUE])
        \/ Goto("check")
    BY <1>7 DEF RemoveEntry
  <2>3. /\ [cmd EXCEPT !.at = "check"] \in Cmd
        /\ \A r : /\ [cmd EXCEPT !.todo = @ \ {r}] \in Cmd
                  /\ [cmd EXCEPT !.todo = @ \ {r}, !.failed = TRUE] \in Cmd
    BY <2>1, MovedOn DEF Steps
  <2>4. /\ [cmd EXCEPT !.at = "check"].kind = "uninstall"
        /\ \A r : /\ [cmd EXCEPT !.todo = @ \ {r}].kind = "uninstall"
                  /\ [cmd EXCEPT !.todo = @ \ {r}, !.failed = TRUE].kind = "uninstall"
    BY <2>1 DEF Cmd
  <2>5. Stop \/ (cmd' \in Cmd /\ cmd'.kind = "uninstall")
    BY <2>2, <2>3, <2>4 DEF Goto, Become
  <2> QED
    BY <2>5, CmdIsCmd DEF Stop, BuildUnderWay, RegistryTruthful
<1>8. ASSUME Untrack PROVE BuildUnderWay' /\ RegistryTruthful'
  BY <1>8 DEF Untrack, Succeed, Become, BuildUnderWay, RegistryTruthful, Truthful
<1>9. ASSUME Fail PROVE BuildUnderWay' /\ RegistryTruthful'
  BY <1>9 DEF Fail, Stop, BuildUnderWay, RegistryTruthful
<1>10. ASSUME User PROVE BuildUnderWay' /\ RegistryTruthful'
  <2>1. /\ bin' = bin /\ reg' = reg
        /\ file' = file \/ \E p \in Places, f \in {Edited, None} : file' = [file EXCEPT ![p] = f]
    BY <1>10 DEF User, UserEditsFile, UserEditsConfig, UserCleansBuild, installed
  <2>2. Truthful => Truthful'
    BY <2>1, TruthKept
  <2>3. CASE Become(cmd)
    BY <2>2, <2>3 DEF Become, BuildUnderWay, RegistryTruthful
  <2>4. CASE ~Idle /\ Become([cmd EXCEPT !.raced = TRUE])
    <3>1. cmd \in Cmd
      BY <2>4, Running
    <3>2. cmd' \in Cmd
      BY <2>4, <3>1, MovedOn DEF Become, Steps
    <3>3. cmd' # NoCmd /\ cmd'.kind = cmd.kind /\ cmd'.at = cmd.at /\ faulty' = faulty
      BY <2>4, <3>1, <3>2, CmdIsCmd DEF Become, Cmd
    <3> QED
      BY <2>2, <2>4, <3>3 DEF BuildUnderWay, RegistryTruthful
  <2> QED
    BY <1>10, <2>3, <2>4, UserRaces
<1>11. ASSUME UNCHANGED vars PROVE BuildUnderWay' /\ RegistryTruthful'
  BY <1>11 DEF vars, BuildUnderWay, RegistryTruthful, Truthful
<1> QED
  BY <1>1, <1>2, <1>3, <1>4, <1>5, <1>6, <1>7, <1>8, <1>9, <1>10, <1>11 DEF Next, Step
------------------------------------------------------------------------------
\* The invariant holds of every behaviour, whatever the commands, their order,
\* the step one dies at and what the user edits meanwhile.
THEOREM Invariance == Spec => []IInv
<1>1. IInv /\ [Next]_vars => IInv'
  BY TypeStep, InstallStep, UninstallStep, TruthStep DEF IInv
<1> QED
  BY InitIInv, <1>1, PTL DEF Spec

\* The variables keep their types: no command ends half a record, and the
\* registry never names a version that was not built or released.
THEOREM TypeCorrect == Spec => []TypeOK
<1>1. IInv => TypeOK
  BY DEF IInv
<1> QED
  BY Invariance, <1>1, PTL

\* Between commands, once an install has ended after the last that failed or died, the
\* registry is truthful for any number of places and versions, whichever binaries
\* describe themselves (trackInstall, planAgentFile).
THEOREM RegistryIsTruthful == Spec => []RegistryTruthful
<1>1. IInv => RegistryTruthful
  BY DEF IInv
<1> QED
  BY Invariance, <1>1, PTL

\* A file the user wrote is not overwritten or removed by a command that was not
\* forced and not raced (checkReplace, removeAgentFile).
THEOREM UserFilesKept == Spec => EditedFileKept
<1> DEFINE A == cmd # NoCmd /\ file[cmd.place] = Edited /\ file'[cmd.place] # Edited
                  /\ (cmd' = NoCmd \/ cmd'.at # cmd.at)
                    => cmd.force \/ cmd.raced
<1>1. IInv /\ [Next]_vars => [A]_vars
  <2> SUFFICES ASSUME IInv, Next, cmd # NoCmd, file[cmd.place] = Edited,
                      file'[cmd.place] # Edited, cmd' = NoCmd \/ cmd'.at # cmd.at
               PROVE  cmd.force \/ cmd.raced
    OBVIOUS
  <2>1. cmd \in Cmd
    BY Running DEF IInv, Idle
  <2>2. FileStart \/ FileEnd \/ RemoveFile \/ User
    BY DEF Next, Step, Build, InstallLocal, InstallRemote, Update, Uninstall, Idle,
           EmitSubagent, CopyStart, CopyEnd, EditConfig, Track, RemoveBinary, RemoveEntry,
           CheckFile, Untrack, Fail, installed
  <2>3. CASE FileStart \/ FileEnd
    <3>1. cmd.at \in {"file", "writing"}
      BY <2>3 DEF FileStart, FileEnd
    <3>2. cmd.kind = "install"
      BY <2>1, <3>1 DEF IInv, UninstallUnderWay, BuildUnderWay, Idle, Cmd
    <3> QED
      BY <3>1, <3>2 DEF IInv, InstallUnderWay, Idle
  <2>4. CASE RemoveFile
    <3>1. cmd.at = "removeFile"
      BY <2>4 DEF RemoveFile
    <3>2. cmd.kind = "uninstall"
      BY <2>1, <3>1 DEF IInv, InstallUnderWay, BuildUnderWay, Idle, Cmd
    <3> QED
      BY <3>1, <3>2 DEF IInv, UninstallUnderWay, Idle
  <2>5. CASE User
    <3>1. cmd' = cmd \/ cmd' = [cmd EXCEPT !.raced = TRUE]
      BY <2>5, UserRaces DEF Become
    <3>2. [cmd EXCEPT !.raced = TRUE] \in Cmd
      BY <2>1, MovedOn DEF Steps
    <3> QED
      BY <2>1, <3>1, <3>2, CmdIsCmd DEF Cmd
  <2> QED
    BY <2>2, <2>3, <2>4, <2>5
<1> QED
  BY Invariance, <1>1, PTL DEF Spec, EditedFileKept

\* The agent is forgotten only when nothing the uninstall was to remove is left
\* (runUninstall), however many runtimes there are and whichever removals fail.
THEOREM ForgottenOnlyWhenGone == Spec => UntrackedOnlyWhenGone
<1> DEFINE A == reg # None /\ reg' = None
                  => /\ reg.binary => bin[reg.place] = None
                     /\ \A r \in cmd.targets : entry[reg.place][r] = None
                     /\ cmd.raced \/ reg.file = None \/ file[reg.place] # reg.file
<1>1. IInv /\ [Next]_vars => [A]_vars
  <2> SUFFICES ASSUME IInv, Next, reg # None, reg' = None
               PROVE  /\ reg.binary => bin[reg.place] = None
                      /\ \A r \in cmd.targets : entry[reg.place][r] = None
                      /\ cmd.raced \/ reg.file = None \/ file[reg.place] # reg.file
    OBVIOUS
  <2>1. Track \/ Untrack
    BY DEF Next, Step, Build, InstallLocal, InstallRemote, Update, Uninstall, EmitSubagent,
           CopyStart, CopyEnd, EditConfig, FileStart, FileEnd, RemoveBinary, RemoveEntry,
           CheckFile, RemoveFile, Fail, User, UserEditsFile, UserEditsConfig,
           UserCleansBuild, installed
  <2>2. CASE Track
    <3>1. reg' \in Entry
      BY <2>2, Running DEF IInv, Track, Cmd, Entry
    <3> QED
      BY <3>1, AbsenceAssumption
  <2>3. CASE Untrack
    <3>1. cmd \in Cmd /\ cmd # NoCmd /\ cmd.at = "untrack"
      BY <2>3, Running DEF IInv, Untrack, Idle
    <3>2. cmd.kind = "uninstall"
      BY <3>1 DEF IInv, InstallUnderWay, BuildUnderWay, Idle, Cmd
    <3> QED
      BY <3>1, <3>2 DEF IInv, UninstallUnderWay, Idle
  <2> QED
    BY <2>1, <2>2, <2>3
<1> QED
  BY Invariance, <1>1, PTL DEF Spec, UntrackedOnlyWhenGone
------------------------------------------------------------------------------
(* One place, every runtime selected, an agent with a binary.               *)

\* The command of a step that moves on is the one there was, but for its place
\* in its list.
Same(d, c) ==
  d \in Cmd /\ d # NoCmd /\ d.kind = c.kind /\ d.binary = c.binary /\ d.targets = c.targets

LEMMA SameCommand ==
  ASSUME NEW c \in Cmd, NEW s \in Steps, NEW r
  PROVE  /\ Same([c EXCEPT !.at = s], c)
         /\ Same([c EXCEPT !.todo = @ \ {r}], c)
         /\ Same([c EXCEPT !.todo = @ \ {r}, !.failed = TRUE], c)
         /\ Same([c EXCEPT !.raced = TRUE], c)
<1>1. /\ [c EXCEPT !.at = s] \in Cmd
      /\ [c EXCEPT !.todo = @ \ {r}] \in Cmd
      /\ [c EXCEPT !.todo = @ \ {r}, !.failed = TRUE] \in Cmd
      /\ [c EXCEPT !.raced = TRUE] \in Cmd
  BY MovedOn
<1>2. \A d \in Cmd : d # NoCmd
  BY AbsenceAssumption
<1>3. DOMAIN c = {"kind", "at", "place", "targets", "version", "known", "remote", "binary", "file",
                  "force", "todo", "failed", "raced"}
  BY DEF Cmd
<1>4. ASSUME NEW d, d.kind = c.kind, d.binary = c.binary, d.targets = c.targets, d \in Cmd
      PROVE  Same(d, c)
  BY <1>2, <1>4 DEF Same
<1>5. Same([c EXCEPT !.at = s], c)
  BY <1>1, <1>3, <1>4
<1>6. Same([c EXCEPT !.todo = @ \ {r}], c)
  BY <1>1, <1>3, <1>4
<1>7. Same([c EXCEPT !.todo = @ \ {r}, !.failed = TRUE], c)
  BY <1>1, <1>3, <1>4
<1>8. Same([c EXCEPT !.raced = TRUE], c)
  BY <1>1, <1>3, <1>4
<1> QED
  BY <1>5, <1>6, <1>7, <1>8

\* A step of a command ends it, or leaves it what it is.
LEMMA StepKeepsCommand ==
  ASSUME TypeOK, Step
  PROVE  cmd \in Cmd /\ ~Idle /\ (cmd' = NoCmd \/ Same(cmd', cmd))
<1>1. cmd \in Cmd /\ ~Idle
  BY Running
     DEF Step, EmitSubagent, CopyStart, CopyEnd, EditConfig, FileStart, FileEnd, Track,
         RemoveBinary, RemoveEntry, CheckFile, RemoveFile, Untrack
<1>2. \/ cmd' = NoCmd
      \/ \E s \in Steps : cmd' = [cmd EXCEPT !.at = s]
      \/ \E r \in cmd.todo : cmd' = [cmd EXCEPT !.todo = @ \ {r}]
      \/ \E r \in cmd.todo : cmd' = [cmd EXCEPT !.todo = @ \ {r}, !.failed = TRUE]
  BY DEF Step, EmitSubagent, CopyStart, CopyEnd, EditConfig, FileStart, FileEnd, Track,
         RemoveBinary, RemoveEntry, CheckFile, RemoveFile, Untrack, Goto, Become, Succeed,
         Stop, Steps
<1>3. "copy" \in Steps
  BY DEF Steps
<1>4. \A s \in Steps : \A r :
        /\ Same([cmd EXCEPT !.at = s], cmd)
        /\ Same([cmd EXCEPT !.todo = @ \ {r}], cmd)
        /\ Same([cmd EXCEPT !.todo = @ \ {r}, !.failed = TRUE], cmd)
  BY <1>1, SameCommand
<1> QED
  BY <1>1, <1>2, <1>3, <1>4

\* The entries name what is there when they are left alone, or a build edits them.
LEMMA NamedStill ==
  ASSUME TypeOK, TypeOK', WholeUnderWay, Idle \/ cmd.kind = "build",
         bin' = bin, reg' = reg, faulty' = faulty \/ faulty',
         \/ entry' = entry
         \/ \E p \in Places, r \in Runtimes : entry' = [entry EXCEPT ![p][r] = "build"]
  PROVE  ~faulty' => \A p \in Places, r \in Runtimes :
                       entry'[p][r] = "bin" => bin'[p] \in Versions /\ reg' # None /\ reg'.place = p
<1>1. \A p \in Places, r \in Runtimes : entry'[p][r] = "bin" => entry[p][r] = "bin"
  BY DEF TypeOK
<1> QED
  BY <1>1 DEF WholeUnderWay

\* Every step keeps it.
LEMMA WholeStep ==
  ASSUME OneWholeInstall, IInv, IInv', WholeUnderWay, [Next]_vars
  PROVE  WholeUnderWay'
<1> USE DEF IInv, Idle
<1>1. ASSUME Build PROVE WholeUnderWay'
  <2>1. PICK v \in Versions : build' = [build EXCEPT !.bin = v]
    BY <1>1 DEF Build, OneWholeInstall
  <2>2. build'.bin # None
    BY <2>1, LifecycleAssumption DEF TypeOK
  <2>3. /\ UNCHANGED <<bin, entry, reg, faulty>>
        /\ cmd' = NoCmd \/ (cmd'.kind = "build" /\ cmd'.binary)
    BY <1>1 DEF Build, installed, Become, Succeed, OneWholeInstall
  <2>4. cmd = NoCmd
    BY <1>1 DEF Build
  <2> QED
    BY <2>2, <2>3, <2>4 DEF WholeUnderWay
<1>2. ASSUME InstallLocal \/ InstallRemote \/ Update PROVE WholeUnderWay'
  <2>1. UNCHANGED <<build, bin, entry, reg, faulty>> /\ cmd = NoCmd
    BY <1>2 DEF InstallLocal, InstallRemote, Update, installed, Become
  <2>2. cmd' = NoCmd \/ (cmd'.kind = "install" /\ cmd'.binary)
    <3>1. CASE InstallLocal
      <4>1. build.bin = None => \A known \in Described : PlannedFile(known) = None
        BY DEF WholeUnderWay, Described, PlannedFile
      <4> QED
        BY <2>1, <3>1, <4>1 DEF InstallLocal, InstallCmd, Become
    <3>2. CASE InstallRemote \/ Update
      BY <3>2 DEF InstallRemote, Update, InstallCmd, Become
    <3> QED
      BY <1>2, <3>1, <3>2
  <2> QED
    BY <2>1, <2>2 DEF WholeUnderWay
<1>3. ASSUME Uninstall PROVE WholeUnderWay'
  <2>1. UNCHANGED <<build, bin, entry, reg, faulty>> /\ cmd = NoCmd
    BY <1>3 DEF Uninstall, installed, Become
  <2>2. reg.binary
    BY <1>3 DEF Uninstall, WholeUnderWay
  <2>3. cmd'.kind = "uninstall" /\ cmd'.binary /\ cmd'.targets = Runtimes
    BY <1>3, <2>2 DEF Uninstall, Become, OneWholeInstall
  <2> QED
    BY <2>1, <2>3 DEF WholeUnderWay
<1>4. ASSUME EmitSubagent PROVE WholeUnderWay'
  <2>1. cmd \in Cmd /\ cmd # NoCmd /\ cmd.at = "emit"
    BY <1>4, Running DEF EmitSubagent
  <2>2. cmd.kind = "build"
    BY <2>1 DEF InstallUnderWay, UninstallUnderWay, Cmd
  <2>3. build.bin # None
    BY <2>1, <2>2 DEF WholeUnderWay
  <2>4. build'.bin # None
    BY <1>4, <2>3 DEF EmitSubagent, TypeOK
  <2>5. UNCHANGED <<bin, entry, reg, faulty>> /\ cmd' = NoCmd
    BY <1>4 DEF EmitSubagent, Succeed, Become, installed
  <2> QED
    BY <2>2, <2>4, <2>5 DEF WholeUnderWay
<1>5. ASSUME EditConfig PROVE WholeUnderWay'
  <2>1. cmd \in Cmd /\ cmd # NoCmd /\ UNCHANGED <<build, bin, reg>> /\ cmd.kind # "uninstall"
    BY <1>5, Running DEF EditConfig
  <2>2. \/ cmd' = NoCmd /\ faulty'
        \/ /\ cmd' \in Cmd /\ cmd'.kind = cmd.kind /\ cmd'.binary = cmd.binary
           /\ cmd'.targets = cmd.targets /\ faulty' = faulty
    <3>1. Step
      BY <1>5 DEF Step
    <3>2. (cmd' = NoCmd => faulty') /\ (cmd' # NoCmd => faulty' = faulty)
      <4>1. \/ Stop
            \/ \E r \in cmd.todo : cmd' = [cmd EXCEPT !.todo = @ \ {r}] /\ faulty' = faulty
            \/ \E s \in Steps : cmd' = [cmd EXCEPT !.at = s] /\ faulty' = faulty
        BY <1>5 DEF EditConfig, Goto, Become, Steps
      <4>2. CASE Stop
        BY <4>2 DEF Stop
      <4>3. ASSUME NEW r \in cmd.todo, cmd' = [cmd EXCEPT !.todo = @ \ {r}], faulty' = faulty
            PROVE  (cmd' = NoCmd => faulty') /\ (cmd' # NoCmd => faulty' = faulty)
        BY <2>1, <4>3, MovedOn, CmdIsCmd DEF Steps
      <4>4. ASSUME NEW s \in Steps, cmd' = [cmd EXCEPT !.at = s], faulty' = faulty
            PROVE  (cmd' = NoCmd => faulty') /\ (cmd' # NoCmd => faulty' = faulty)
        BY <2>1, <4>4, MovedOn, CmdIsCmd
      <4> QED
        BY <4>1, <4>2, <4>3, <4>4
    <3> QED
      BY <3>1, <3>2, StepKeepsCommand DEF Same
  <2>3. CASE cmd.kind = "build"
    <3>1. \/ entry' = entry
          \/ \E p \in Places, r \in Runtimes : entry' = [entry EXCEPT ![p][r] = "build"]
      <4>1. cmd.place \in Places /\ cmd.todo \subseteq Runtimes
        BY <2>1 DEF Cmd
      <4> QED
        BY <1>5, <2>3, <4>1 DEF EditConfig
    <3>2. faulty' = faulty \/ faulty'
      BY <2>2
    <3>3. ~faulty' => \A p \in Places, r \in Runtimes :
            entry'[p][r] = "bin" => bin'[p] \in Versions /\ reg' # None /\ reg'.place = p
      BY <2>1, <2>3, <3>1, <3>2, NamedStill
    <3> QED
      BY <2>1, <2>2, <2>3, <3>3 DEF WholeUnderWay
  <2>4. CASE cmd.kind = "install"
    <3>1. cmd.binary /\ (build.file # None => build.bin # None) /\ (reg # None => reg.binary)
      BY <2>1 DEF WholeUnderWay
    <3>2. (cmd' = NoCmd /\ faulty') \/ (cmd'.kind = "install" /\ cmd'.binary /\ cmd' # NoCmd)
      BY <2>2, <2>4, <3>1, CmdIsCmd
    <3> QED
      BY <2>1, <3>1, <3>2 DEF WholeUnderWay
  <2>5. cmd.kind \in {"build", "install", "uninstall"}
    BY <2>1 DEF Cmd
  <2> QED
    BY <2>1, <2>3, <2>4, <2>5
<1>6. ASSUME CopyStart \/ CopyEnd \/ FileStart \/ FileEnd \/ RemoveBinary \/ CheckFile
             \/ RemoveFile
      PROVE  WholeUnderWay'
  <2>1. UNCHANGED <<build, reg, faulty>>
    BY <1>6 DEF CopyStart, CopyEnd, FileStart, FileEnd, RemoveBinary, CheckFile, RemoveFile,
                Goto, Become, installed
  <2>2. cmd \in Cmd /\ cmd # NoCmd /\ cmd.kind # "build"
    BY <1>6, Running
       DEF CopyStart, CopyEnd, FileStart, FileEnd, RemoveBinary, CheckFile, RemoveFile,
           BuildUnderWay
  <2>3. /\ cmd' \in Cmd /\ cmd' # NoCmd /\ cmd'.kind = cmd.kind
        /\ cmd'.binary = cmd.binary /\ cmd'.targets = cmd.targets
    <3>1. PICK s \in Steps : cmd' = [cmd EXCEPT !.at = s]
      BY <1>6 DEF CopyStart, CopyEnd, FileStart, FileEnd, RemoveBinary, CheckFile, RemoveFile,
                  Goto, Become, Steps
    <3> QED
      BY <2>2, <3>1, SameCommand DEF Same
  <2> QED
    BY <2>1, <2>2, <2>3 DEF WholeUnderWay
<1>7. ASSUME Track PROVE WholeUnderWay'
  <2>1. cmd \in Cmd /\ cmd # NoCmd /\ cmd.at = "track"
    BY <1>7, Running DEF Track
  <2>2. cmd.kind = "install"
    BY <2>1 DEF UninstallUnderWay, BuildUnderWay, Cmd
  <2>3. cmd.binary /\ bin[cmd.place] = cmd.version /\ cmd.version \in Versions
    BY <2>1, <2>2 DEF WholeUnderWay, InstallUnderWay
  <2>4. /\ reg'.binary /\ reg'.place = cmd.place /\ cmd' = NoCmd
        /\ UNCHANGED <<build, bin, entry>>
    BY <1>7, <2>3 DEF Track
  <2>5. reg' # None
    BY <1>7, <2>1, AbsenceAssumption DEF Track, Cmd, Entry
  <2>6. \A p \in Places : p = cmd.place /\ bin[p] \in Versions
    BY <2>1, <2>3 DEF OneWholeInstall, Cmd
  <2> QED
    BY <2>4, <2>5, <2>6 DEF WholeUnderWay
<1>8. ASSUME RemoveEntry PROVE WholeUnderWay'
  <2>1. /\ cmd \in Cmd /\ cmd # NoCmd /\ cmd.kind = "uninstall"
        /\ UNCHANGED <<build, bin, reg>>
    BY <1>8, Running DEF RemoveEntry
  <2>2. \/ cmd' = NoCmd
        \/ /\ cmd' \in Cmd /\ cmd'.kind = cmd.kind /\ cmd'.binary = cmd.binary
           /\ cmd'.targets = cmd.targets
    BY <1>8, StepKeepsCommand DEF Step, Same
  <2>3. cmd' = NoCmd => faulty'
    <3>1. \/ Stop
          \/ \E s \in Steps : cmd' = [cmd EXCEPT !.at = s]
          \/ \E r \in cmd.todo : cmd' = [cmd EXCEPT !.todo = @ \ {r}]
          \/ \E r \in cmd.todo : cmd' = [cmd EXCEPT !.todo = @ \ {r}, !.failed = TRUE]
      BY <1>8 DEF RemoveEntry, Goto, Become, Steps
    <3>2. \A s \in Steps : \A r :
            /\ [cmd EXCEPT !.at = s] # NoCmd
            /\ [cmd EXCEPT !.todo = @ \ {r}] # NoCmd
            /\ [cmd EXCEPT !.todo = @ \ {r}, !.failed = TRUE] # NoCmd
      BY <2>1, MovedOn, CmdIsCmd
    <3>3. "copy" \in Steps
      BY DEF Steps
    <3> QED
      BY <3>1, <3>2, <3>3 DEF Stop
  <2> QED
    BY <2>1, <2>2, <2>3 DEF WholeUnderWay
<1>9. ASSUME Untrack PROVE WholeUnderWay'
  <2>1. cmd \in Cmd /\ cmd # NoCmd /\ cmd.at = "untrack"
    BY <1>9, Running DEF Untrack
  <2>2. cmd.kind = "uninstall"
    BY <2>1 DEF InstallUnderWay, BuildUnderWay, Cmd
  <2>3. cmd.targets = Runtimes /\ cmd.todo = {} /\ ~cmd.failed
    BY <2>1, <2>2 DEF WholeUnderWay, UninstallUnderWay
  <2>4. \A r \in Runtimes : entry[cmd.place][r] = None
    BY <2>1, <2>2, <2>3 DEF UninstallUnderWay
  <2>5. \A p \in Places, r \in Runtimes : entry[p][r] = None
    BY <2>1, <2>4 DEF OneWholeInstall, Cmd
  <2>6. reg' = None /\ cmd' = NoCmd /\ UNCHANGED <<build, bin, entry>>
    BY <1>9 DEF Untrack, Succeed, Become
  <2>7. \A p \in Places, r \in Runtimes : entry[p][r] # "bin"
    BY <2>5, LifecycleAssumption
  <2> QED
    BY <2>6, <2>7 DEF WholeUnderWay
<1>10. ASSUME Fail PROVE WholeUnderWay'
  BY <1>10 DEF Fail, Stop, installed, WholeUnderWay
<1>11. ASSUME User PROVE WholeUnderWay'
  <2>1. /\ UNCHANGED <<bin, entry, reg>>
        /\ build' = build \/ build' = [bin |-> None, file |-> None]
        /\ build' # build => Idle
    BY <1>11 DEF User, UserEditsFile, UserEditsConfig, UserCleansBuild, installed
  <2>2. CASE Become(cmd)
    BY <2>1, <2>2 DEF Become, WholeUnderWay
  <2>3. CASE ~Idle /\ Become([cmd EXCEPT !.raced = TRUE])
    <3>1. cmd \in Cmd
      BY <2>3, Running
    <3>2. /\ cmd' \in Cmd /\ cmd' # NoCmd /\ cmd'.kind = cmd.kind
          /\ cmd'.binary = cmd.binary /\ cmd'.targets = cmd.targets
      <4>1. "copy" \in Steps
        BY DEF Steps
      <4> QED
        BY <2>3, <3>1, <4>1, SameCommand DEF Become, Same
    <3> QED
      BY <2>1, <2>3, <3>2 DEF Become, WholeUnderWay
  <2> QED
    BY <1>11, <2>2, <2>3, UserRaces
<1>12. ASSUME UNCHANGED vars PROVE WholeUnderWay'
  BY <1>12 DEF vars, WholeUnderWay
<1> QED
  BY <1>1, <1>2, <1>3, <1>4, <1>5, <1>6, <1>7, <1>8, <1>9, <1>10, <1>11, <1>12 DEF Next, Step

\* For one place, every runtime always selected and an agent that keeps its
\* binary, no entry is left to run a binary that is not there or that uninstall
\* would not find, whatever fails and whatever the user edits (runUninstall,
\* planRemovals, runLocalInstall).
THEOREM NoEntryDangles ==
  ASSUME OneWholeInstall
  PROVE  Spec => []NoDanglingEntry
<1>1. Init => WholeUnderWay
  <2> SUFFICES ASSUME Init PROVE WholeUnderWay
    OBVIOUS
  <2>1. \A p \in Places, r \in Runtimes : entry[p][r] # "bin"
    BY LifecycleAssumption DEF Init
  <2> QED
    BY <2>1 DEF Init, WholeUnderWay, Idle
<1>2. IInv /\ IInv' /\ WholeUnderWay /\ [Next]_vars => WholeUnderWay'
  BY WholeStep
<1>3. WholeUnderWay => NoDanglingEntry
  BY DEF WholeUnderWay, NoDanglingEntry
<1> QED
  BY <1>1, <1>2, <1>3, Invariance, PTL DEF Spec
==============================================================================
