---------------------------- MODULE RegistryProofs ----------------------------
(***************************************************************************)
(* What holds of the registry file for any number of commands, agents and  *)
(* inodes.  A save is sound when no other overlapped it; IInv says why: a   *)
(* command that has been alone owns the temporary name and works on what   *)
(* is still the registry.                                                  *)
(***************************************************************************)
EXTENDS Registry, TLAPS

\* The initial states satisfy the invariant.
LEMMA InitIInv == Init => IInv
<1> SUFFICES ASSUME Init PROVE IInv
  OBVIOUS
<1>1. TypeOK
  BY DEF Init, TypeOK, Content, Doc, NoAgents
<1> QED
  BY <1>1 DEF Init, IInv, NamesDiffer, AloneExcludes, AloneIsCurrent, AloneOwnsTmp

\* An edit of a registry is a registry.
LEMMA EditType ==
  ASSUME NEW doc \in Doc, NEW j \in Job PROVE Edit(doc, j) \in Doc
BY DEF Edit, Doc, Job

\* What Load returns of a readable registry is a registry.
LEMMA LoadedType == Readable => Loaded \in Doc
BY DEF Readable, Loaded, NoAgents, Doc

\* A command that ends keeps the types.
LEMMA EndType ==
  ASSUME NEW p \in Procs, TypeOK, End(p)
  PROVE /\ pc' \in [Procs -> {"idle", "loaded"} \cup Saving]
        /\ job' \in [Procs -> Job \cup {NoJob}]
        /\ reg' \in [Procs -> Doc]
        /\ fd' \in [Procs -> Inodes \cup {NoFile}]
        /\ alone' \in [Procs -> BOOLEAN]
<1>1. NoAgents \in Doc
  BY DEF NoAgents, Doc
<1> QED
  BY <1>1 DEF TypeOK, End

\* Every step keeps the types.
LEMMA TypeStep ==
  ASSUME IInv, [Next]_vars PROVE TypeOK'
<1> USE DEF IInv
<1>1. ASSUME NEW p \in Procs, Load(p) PROVE TypeOK'
  <2> PICK j \in Job : Take(p, Loaded, j) /\ Readable
    BY <1>1 DEF Load
  <2>1. Edit(Loaded, j) \in Doc
    BY LoadedType, EditType
  <2>2. reg' \in [Procs -> Doc]
    BY <2>1 DEF TypeOK, Take
  <2>3. PICK b \in BOOLEAN : b = (\A q \in Procs : pc[q] \notin Saving)
    OBVIOUS
  <2>4. alone' \in [Procs -> BOOLEAN]
    BY <2>3 DEF TypeOK, Take
  <2> QED
    BY <2>2, <2>4 DEF TypeOK, Take
<1>2. ASSUME NEW p \in Procs, OpenTmp(p) PROVE TypeOK'
  <2> PICK i \in Inodes : /\ tmp' = i
                          /\ fd' = [fd EXCEPT ![p] = i]
                          /\ data' = [data EXCEPT ![i] = Empty]
    BY <1>2 DEF OpenTmp
  <2>1. alone' \in [Procs -> BOOLEAN]
    BY <1>2 DEF OpenTmp, TypeOK
  <2> QED
    BY <1>2, <2>1 DEF OpenTmp, TypeOK, Content, Saving
<1>3. ASSUME NEW p \in Procs, WriteTmp(p) PROVE TypeOK'
  <2>1. PICK c \in {reg[p], Torn} : data' = [data EXCEPT ![fd[p]] = c]
    BY <1>3 DEF WriteTmp
  <2>2. c \in Content
    BY <2>1 DEF TypeOK, Content
  <2>3. data' \in [Inodes -> Content]
    BY <2>1, <2>2 DEF TypeOK
  <2> QED
    BY <1>3, <2>3 DEF WriteTmp, TypeOK, Saving
<1>4. ASSUME NEW p \in Procs, Rename(p) PROVE TypeOK'
  BY <1>4, EndType DEF Rename, TypeOK
<1>5. ASSUME NEW p \in Procs, RenameFails(p) PROVE TypeOK'
  BY <1>5, EndType DEF RenameFails, TypeOK
<1>6. ASSUME NEW p \in Procs, Abort(p) PROVE TypeOK'
  BY <1>6, EndType DEF Abort, TypeOK
<1>7. CASE UNCHANGED vars
  BY <1>7 DEF vars, TypeOK
<1> QED
  BY <1>1, <1>2, <1>3, <1>4, <1>5, <1>6, <1>7 DEF Next

\* A command that ends leaves the others' parts of the invariant to the files.
LEMMA EndKeeps ==
  ASSUME NEW p \in Procs, TypeOK, End(p)
  PROVE /\ pc'[p] = "idle"
        /\ \A q \in Procs \ {p} :
             /\ pc'[q] = pc[q] /\ job'[q] = job[q] /\ reg'[q] = reg[q]
             /\ fd'[q] = fd[q] /\ alone'[q] = alone[q]
BY DEF TypeOK, End

\* The invariant but for the types.
Rest ==
  /\ NamesDiffer
  /\ \A p \in Procs : pc[p] # "idle" => job[p] \in Job
  /\ \A p \in Procs : pc[p] = "opened" => fd[p] \in Inodes
  /\ AloneExcludes
  /\ AloneIsCurrent
  /\ AloneOwnsTmp

\* Loading starts a command that is alone when nobody is saving.
LEMMA LoadStep ==
  ASSUME IInv, NEW p \in Procs, Load(p) PROVE Rest'
<1> USE DEF IInv, TypeOK
<1>1. PICK j \in Job : Take(p, Loaded, j) /\ Readable
  BY DEF Load
<1>2. /\ main' = main /\ tmp' = tmp /\ data' = data /\ fd' = fd
      /\ pc'[p] = "loaded" /\ job'[p] = j /\ reg'[p] = Edit(Loaded, j)
      /\ alone'[p] => \A q \in Procs : pc[q] \notin Saving
      /\ \A q \in Procs \ {p} : /\ pc'[q] = pc[q] /\ job'[q] = job[q]
                                /\ reg'[q] = reg[q] /\ alone'[q] = alone[q]
  BY <1>1 DEF Take
<1>3. Loaded' = Loaded /\ Readable' = Readable
  BY <1>2 DEF Loaded, Readable
<1>4. NamesDiffer'
  BY <1>2 DEF NamesDiffer
<1>5. \A q \in Procs : pc'[q] # "idle" => job'[q] \in Job
  BY <1>2
<1>6. \A q \in Procs : pc'[q] = "opened" => fd'[q] \in Inodes
  BY <1>2
<1>7. AloneExcludes'
  BY <1>2 DEF AloneExcludes, Saving
<1>8. AloneIsCurrent'
  <2> SUFFICES ASSUME NEW q \in Procs, alone'[q], pc'[q] # "idle"
               PROVE Readable' /\ reg'[q] = Edit(Loaded, job[q])'
    BY DEF AloneIsCurrent
  <2>1. CASE q = p
    BY <1>1, <1>2, <1>3, <2>1 DEF Edit
  <2>2. CASE q # p
    <3>1. pc'[q] = pc[q] /\ job'[q] = job[q] /\ reg'[q] = reg[q] /\ alone'[q] = alone[q]
      BY <1>2, <2>2
    <3>2. Readable /\ reg[q] = Edit(Loaded, job[q])
      BY <3>1 DEF AloneIsCurrent
    <3> QED
      BY <1>3, <3>1, <3>2 DEF Edit
  <2> QED
    BY <2>1, <2>2
<1>9. AloneOwnsTmp'
  BY <1>2 DEF AloneOwnsTmp
<1> QED
  BY <1>4, <1>5, <1>6, <1>7, <1>8, <1>9 DEF Rest

\* Opening the temporary file ends the others' being alone.
LEMMA OpenStep ==
  ASSUME IInv, NEW p \in Procs, OpenTmp(p) PROVE Rest'
<1> USE DEF IInv, TypeOK
<1>1. PICK i \in Inodes :
        /\ IF tmp # NoFile THEN i = tmp
           ELSE i # main /\ \A q \in Procs : fd[q] # i
        /\ tmp' = i
        /\ fd' = [fd EXCEPT ![p] = i]
        /\ data' = [data EXCEPT ![i] = Empty]
  BY DEF OpenTmp
<1>2. /\ main' = main /\ job' = job /\ reg' = reg
      /\ pc[p] = "loaded" /\ pc'[p] = "opened"
      /\ \A q \in Procs \ {p} : pc'[q] = pc[q] /\ fd'[q] = fd[q]
      /\ alone'[p] = alone[p]
      /\ \A q \in Procs \ {p} : ~alone'[q]
      /\ fd'[p] = i /\ data'[i] = Empty
      /\ \A k \in Inodes \ {i} : data'[k] = data[k]
  BY <1>1 DEF OpenTmp
<1>3. i # main
  BY <1>1 DEF NamesDiffer
<1>4. Loaded' = Loaded /\ Readable' = Readable
  BY <1>2, <1>3 DEF Loaded, Readable
<1>5. NamesDiffer'
  BY <1>1, <1>2, <1>3 DEF NamesDiffer
<1>6. \A q \in Procs : pc'[q] # "idle" => job'[q] \in Job
  BY <1>2
<1>7. \A q \in Procs : pc'[q] = "opened" => fd'[q] \in Inodes
  BY <1>2
<1>8. AloneExcludes'
  BY <1>2 DEF AloneExcludes, Saving
<1>9. AloneIsCurrent'
  BY <1>2, <1>4 DEF AloneIsCurrent, Edit
<1>10. AloneOwnsTmp'
  BY <1>1, <1>2, RegistryAssumption DEF AloneOwnsTmp
<1> QED
  BY <1>5, <1>6, <1>7, <1>8, <1>9, <1>10 DEF Rest

\* Writing it: by a command that is alone, into its own empty file.
LEMMA WriteStep ==
  ASSUME IInv, NEW p \in Procs, WriteTmp(p) PROVE Rest'
<1> USE DEF IInv, TypeOK
<1>1. PICK c \in {reg[p], Torn} :
        /\ c = Torn => data[fd[p]] \notin {Empty, reg[p]}
        /\ data' = [data EXCEPT ![fd[p]] = c]
  BY DEF WriteTmp
<1>2. /\ main' = main /\ tmp' = tmp /\ job' = job /\ reg' = reg /\ alone' = alone
      /\ pc[p] = "opened" /\ pc'[p] = "written"
      /\ \A q \in Procs \ {p} : pc'[q] = pc[q] /\ fd'[q] = fd[q]
      /\ fd[p] \in Inodes
      /\ data'[fd[p]] = c
      /\ \A k \in Inodes \ {fd[p]} : data'[k] = data[k]
  BY <1>1 DEF WriteTmp
<1>3. \A q \in Procs \ {p} : alone[q] => pc[q] = "idle"
  BY <1>2 DEF AloneExcludes, Saving
<1>4. alone[p] => /\ fd[p] = tmp /\ tmp # NoFile /\ fd[p] # main
                  /\ data[fd[p]] = Empty
  BY <1>2 DEF AloneOwnsTmp, NamesDiffer
<1>5. alone[p] => c = reg[p]
  BY <1>1, <1>4
<1>6. alone[p] => Loaded' = Loaded /\ Readable' = Readable
  BY <1>2, <1>4 DEF Loaded, Readable
<1>7. NamesDiffer'
  BY <1>2 DEF NamesDiffer
<1>8. \A q \in Procs : pc'[q] # "idle" => job'[q] \in Job
  BY <1>2
<1>9. \A q \in Procs : pc'[q] = "opened" => fd'[q] \in Inodes
  BY <1>2
<1>10. AloneExcludes'
  BY <1>2 DEF AloneExcludes, Saving
<1>11. AloneIsCurrent'
  BY <1>2, <1>3, <1>6 DEF AloneIsCurrent, Edit
<1>12. AloneOwnsTmp'
  BY <1>2, <1>3, <1>4, <1>5 DEF AloneOwnsTmp
<1> QED
  BY <1>7, <1>8, <1>9, <1>10, <1>11, <1>12 DEF Rest

\* A command that was saving and has ended left no other one alone.
LEMMA EndOfSaving ==
  ASSUME IInv, NEW p \in Procs, End(p), NamesDiffer'
  PROVE  /\ \A q \in Procs : pc'[q] # "idle" => job'[q] \in Job
         /\ \A q \in Procs : pc'[q] = "opened" => fd'[q] \in Inodes
         /\ AloneExcludes'
         /\ pc[p] \in Saving => Rest'
<1> USE DEF IInv
<1>1. /\ pc'[p] = "idle"
      /\ \A q \in Procs \ {p} :
           /\ pc'[q] = pc[q] /\ job'[q] = job[q] /\ reg'[q] = reg[q]
           /\ fd'[q] = fd[q] /\ alone'[q] = alone[q]
  BY EndKeeps
<1>2. \A q \in Procs : pc'[q] # "idle" => job'[q] \in Job
  BY <1>1
<1>3. \A q \in Procs : pc'[q] = "opened" => fd'[q] \in Inodes
  BY <1>1
<1>4. AloneExcludes'
  BY <1>1 DEF AloneExcludes, Saving
<1>5. ASSUME pc[p] \in Saving PROVE \A q \in Procs : alone'[q] => pc'[q] = "idle"
  BY <1>1, <1>5 DEF AloneExcludes
<1>6. ASSUME pc[p] \in Saving PROVE AloneIsCurrent'
  BY <1>5, <1>6 DEF AloneIsCurrent
<1>7. ASSUME pc[p] \in Saving PROVE AloneOwnsTmp'
  BY <1>5, <1>7 DEF AloneOwnsTmp
<1> QED
  BY <1>2, <1>3, <1>4, <1>6, <1>7 DEF Rest

\* A rename, done or failed, ends a save.
LEMMA RenameStep ==
  ASSUME IInv, NEW p \in Procs, Rename(p) \/ RenameFails(p) PROVE Rest'
<1>1. End(p) /\ tmp' = NoFile /\ pc[p] \in Saving
  BY DEF Rename, RenameFails, Saving
<1>2. NamesDiffer'
  BY <1>1 DEF NamesDiffer
<1> QED
  BY <1>1, <1>2, EndOfSaving

\* Dying touches no file.
LEMMA AbortStep ==
  ASSUME IInv, NEW p \in Procs, Abort(p) PROVE Rest'
<1>1. End(p) /\ main' = main /\ tmp' = tmp /\ data' = data
  BY DEF Abort
<1>2. NamesDiffer'
  BY <1>1 DEF IInv, NamesDiffer
<1>3. /\ pc'[p] = "idle"
      /\ \A q \in Procs \ {p} :
           /\ pc'[q] = pc[q] /\ job'[q] = job[q] /\ reg'[q] = reg[q]
           /\ fd'[q] = fd[q] /\ alone'[q] = alone[q]
  BY <1>1, EndKeeps DEF IInv
<1>4. Loaded' = Loaded /\ Readable' = Readable
  BY <1>1 DEF Loaded, Readable
<1>5. AloneIsCurrent'
  BY <1>3, <1>4 DEF IInv, AloneIsCurrent, Edit
<1>6. AloneOwnsTmp'
  BY <1>1, <1>3 DEF IInv, AloneOwnsTmp
<1> QED
  BY <1>1, <1>2, <1>5, <1>6, EndOfSaving DEF Rest

\* IInv is invariant, for any number of commands.
THEOREM Invariance == Spec => []IInv
<1>1. IInv /\ [Next]_vars => IInv'
  <2> SUFFICES ASSUME IInv, [Next]_vars PROVE Rest'
    BY TypeStep DEF IInv, Rest
  <2>1. ASSUME NEW p \in Procs, Load(p) PROVE Rest'
    BY <2>1, LoadStep
  <2>2. ASSUME NEW p \in Procs, OpenTmp(p) PROVE Rest'
    BY <2>2, OpenStep
  <2>3. ASSUME NEW p \in Procs, WriteTmp(p) PROVE Rest'
    BY <2>3, WriteStep
  <2>4. ASSUME NEW p \in Procs, Rename(p) \/ RenameFails(p) PROVE Rest'
    BY <2>4, RenameStep
  <2>5. ASSUME NEW p \in Procs, Abort(p) PROVE Rest'
    BY <2>5, AbortStep
  <2>6. CASE UNCHANGED vars
    BY <2>6 DEF vars, IInv, Rest, NamesDiffer, AloneExcludes, AloneIsCurrent,
                AloneOwnsTmp, Readable, Loaded, Edit
  <2> QED
    BY <2>1, <2>2, <2>3, <2>4, <2>5, <2>6 DEF Next
<1> QED
  BY InitIInv, <1>1, PTL DEF Spec

\* Save by a command that no other save overlapped: it replaces a readable
\* registry by its own edit of it (trackInstall, runUninstall, Save).
THEOREM LoneSaveSound == Spec => AloneIsSound
<1> DEFINE Sound ==
      \A p \in Procs :
        alone[p] /\ pc[p] = "written" /\ main' # main
          => Readable /\ main' # NoFile /\ data'[main'] = Edit(Loaded, job[p])
<1>1. IInv /\ [Next]_vars => [Sound]_vars
  <2> SUFFICES ASSUME IInv, Next, NEW p \in Procs, alone[p], pc[p] = "written", main' # main
               PROVE Readable /\ main' # NoFile /\ data'[main'] = Edit(Loaded, job[p])
    OBVIOUS
  <2>1. PICK q \in Procs : Rename(q)
    BY DEF Next, Load, Take, OpenTmp, WriteTmp, RenameFails, Abort
  <2>2. q = p
    BY <2>1 DEF IInv, AloneExcludes, Rename, Saving
  <2>3. main' = tmp /\ data' = data
    BY <2>1 DEF Rename
  <2> QED
    BY <2>2, <2>3 DEF IInv, AloneIsCurrent, AloneOwnsTmp
<1> QED
  BY Invariance, <1>1, PTL DEF Spec, AloneIsSound

\* With a single command at a time the registry is readable at every instant,
\* wherever the command dies (Save).
THEOREM SerialAlwaysReadable ==
  ASSUME NEW only \in Procs, Procs = {only}
  PROVE  Spec => []AlwaysReadable
<1> DEFINE Serial == Readable /\ (pc[only] # "idle" => alone[only])
<1>1. Init => Serial
  BY DEF Init, Readable
<1>2. IInv /\ Serial /\ [Next]_vars => Serial'
  <2> SUFFICES ASSUME IInv, Serial, [Next]_vars PROVE Serial'
    OBVIOUS
  <2> USE DEF IInv, TypeOK
  <2>1. CASE Load(only)
    <3>1. PICK j \in Job : Take(only, Loaded, j)
      BY <2>1 DEF Load
    <3>2. main' = main /\ data' = data /\ pc[only] = "idle"
      BY <2>1, <3>1 DEF Load, Take
    <3>3. \A q \in Procs : pc[q] \notin Saving
      BY <3>2 DEF Saving
    <3>4. alone'[only] = TRUE
      BY <3>1, <3>3 DEF Take
    <3> QED
      BY <3>2, <3>4 DEF Readable
  <2>2. CASE OpenTmp(only)
    <3>1. PICK i \in Inodes :
            /\ IF tmp # NoFile THEN i = tmp ELSE i # main
            /\ data' = [data EXCEPT ![i] = Empty]
      BY <2>2 DEF OpenTmp
    <3>2. main' = main /\ alone'[only] = alone[only] /\ pc[only] = "loaded"
      BY <2>2 DEF OpenTmp
    <3> QED
      BY <3>1, <3>2 DEF Readable, NamesDiffer
  <2>3. CASE WriteTmp(only)
    <3>1. main' = main /\ alone' = alone /\ pc[only] = "opened"
          /\ \E c : data' = [data EXCEPT ![fd[only]] = c]
      BY <2>3 DEF WriteTmp
    <3>2. fd[only] # main
      BY <3>1 DEF AloneOwnsTmp, NamesDiffer
    <3> QED
      BY <3>1, <3>2 DEF Readable
  <2>4. CASE Rename(only)
    BY <2>4 DEF Rename, End, AloneOwnsTmp, Readable
  <2>5. CASE RenameFails(only) \/ Abort(only)
    BY <2>5 DEF RenameFails, Abort, End, Readable
  <2>6. CASE UNCHANGED vars
    BY <2>6 DEF vars, Readable
  <2> QED
    BY <2>1, <2>2, <2>3, <2>4, <2>5, <2>6 DEF Next
<1>3. Serial => AlwaysReadable
  BY DEF AlwaysReadable
<1> QED
  BY Invariance, <1>1, <1>2, <1>3, PTL DEF Spec
==============================================================================
