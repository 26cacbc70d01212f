-------------------------- MODULE ConfigFileProofs --------------------------
(***************************************************************************)
(* The properties of ConfigFile for any number of abby processes, server   *)
(* names and contents, and any foreign writer.                             *)
(*                                                                         *)
(* IInv is inductive.  Its parts beyond the properties themselves say what *)
(* an editor knows at each point of its apply: that past the re-read the   *)
(* file is its snapshot unless it was raced (SnapshotCurrent), that the    *)
(* backup comes before the first rename (BackupFirst), that a mismatch was *)
(* a counted change (ChangesCounted).                                      *)
(***************************************************************************)
EXTENDS ConfigFile, TLAPS

\* Editing a content that parses yields a document: edits never break a file
\* (jsonobj.go, upsertJSONServer and removeJSONServer).
LEMMA EditedType ==
  ASSUME NEW c \in Doc \cup {Absent}, NEW j \in Job
  PROVE  Edited(c, j) \in Doc
<1>1. Parsed(c) \in Doc
  BY ConfigAssumption DEF Parsed, EmptyDoc, Doc
<1>2. j.name \in Names
  BY DEF Job
<1>3. NewEntry(Parsed(c).servers[j.name], j) \in Entry \cup {NoEntry}
  BY <1>1, <1>2, ConfigAssumption DEF NewEntry, Upserted, Doc, Entry, Job
<1> QED
  BY <1>1, <1>2, <1>3 DEF Edited, Doc

\* What the content of the entry is after the edit, and that nothing else of
\* the document moved.
LEMMA EditedIsLocal ==
  ASSUME NEW c \in Doc \cup {Absent}, NEW j \in Job
  PROVE  /\ OnlyItsEntry(c, Edited(c, j), j.name)
         /\ Satisfied(Edited(c, j), j)
<1>1. Parsed(c) \in Doc
  BY ConfigAssumption DEF Parsed, EmptyDoc, Doc
<1>2. j.name \in Names
  BY DEF Job
<1> DEFINE before == Parsed(c).servers[j.name]
<1>3. before \in Entry \cup {NoEntry}
  BY <1>1, <1>2 DEF Doc
<1>4. /\ Edited(c, j).servers[j.name] = NewEntry(before, j)
      /\ \A n \in Names \ {j.name} : Edited(c, j).servers[n] = Parsed(c).servers[n]
      /\ Edited(c, j).rest = Parsed(c).rest
  BY <1>1, <1>2 DEF Edited, Doc
<1>5. Edited(c, j) # Absent
  BY EditedType, ConfigAssumption
<1>6. Parsed(Edited(c, j)) = Edited(c, j)
  BY <1>5 DEF Parsed
<1>7. OnlyItsEntry(c, Edited(c, j), j.name)
  BY <1>3, <1>4 DEF OnlyItsEntry, NewEntry, Upserted
<1>8. j.kind = "add" => /\ NewEntry(before, j) \in Entry
                        /\ NewEntry(before, j).cmd = j.cmd
  BY <1>3, ConfigAssumption DEF NewEntry, Upserted, Entry, Job
<1>9. Satisfied(Edited(c, j), j)
  BY <1>4, <1>6, <1>8, ConfigAssumption DEF Satisfied, NewEntry
<1> QED
  BY <1>7, <1>9

\* A content the edit would leave alone is one that already satisfies the job.
LEMMA UnchangedSatisfies ==
  ASSUME NEW c \in Doc \cup {Absent}, NEW j \in Job, ~Changed(c, j)
  PROVE  Satisfied(c, j)
<1>1. Parsed(c) \in Doc
  BY ConfigAssumption DEF Parsed, EmptyDoc, Doc
<1>2. j.name \in Names
  BY DEF Job
<1> DEFINE before == Parsed(c).servers[j.name]
<1>3. before \in Entry \cup {NoEntry}
  BY <1>1, <1>2 DEF Doc
<1>4. NewEntry(before, j) = before
  BY DEF Changed
<1>5. CASE j.kind = "add"
  <2>1. /\ Upserted(before, j.cmd) \in Entry
        /\ Upserted(before, j.cmd).cmd = j.cmd
    BY <1>3, <1>5, ConfigAssumption DEF Upserted, Entry, Job
  <2> QED
    BY <1>4, <1>5, <2>1, ConfigAssumption DEF NewEntry, Satisfied
<1>6. CASE j.kind # "add"
  BY <1>4, <1>6 DEF NewEntry, Satisfied
<1> QED
  BY <1>5, <1>6

------------------------------------------------------------------------------
\* The initial states satisfy the inductive invariant.
LEMMA InitIInv == Init => IInv
<1> SUFFICES ASSUME Init PROVE IInv
  OBVIOUS
<1>1. \A e \in Editors : pc[e] = "idle"
  BY DEF Init
<1>2. TypeOK
  <2>1. file \in Content
    BY ConfigAssumption DEF Init
  <2>2. /\ pc \in [Editors -> Idle \cup Applying]
        /\ job \in [Editors -> Job \cup {NoJob}]
        /\ snap \in [Editors -> Doc \cup {Absent}]
        /\ attempt \in [Editors -> {0, 1}]
        /\ seen \in [Editors -> 0..2]
    BY DEF Init, Idle
  <2>3. /\ old \in [Editors -> BOOLEAN]
        /\ raced \in [Editors -> BOOLEAN]
        /\ wrote \in [Editors -> BOOLEAN]
    BY DEF Init
  <2> QED
    BY <2>1, <2>2, <2>3 DEF Init, TypeOK
<1>3. JobInHand /\ SnapshotCurrent
  BY <1>1 DEF JobInHand, SnapshotCurrent, Applying, InCommit
<1>4. BackupFirst /\ BackupPredatesAbby
  BY <1>1 DEF Init, BackupFirst, BackupPredatesAbby, HasSnapshot, InCommit
<1>5. ChangesCounted /\ UnwrittenUntilBacking
  BY <1>1 DEF Init, ChangesCounted, UnwrittenUntilBacking
<1> QED
  BY <1>2, <1>3, <1>4, <1>5 DEF IInv

\* The bookkeeping of a write keeps its types.
LEMMA DisturbType ==
  ASSUME NEW others \in SUBSET Editors, Disturb(others),
         seen \in [Editors -> 0..2]
  PROVE  raced' \in [Editors -> BOOLEAN] /\ seen' \in [Editors -> 0..2]
<1>1. raced' \in [Editors -> BOOLEAN]
  <2>1. \A e \in Editors : (IF e \in others THEN raced[e] \/ pc[e] \in InCommit ELSE FALSE)
                            \in BOOLEAN
    OBVIOUS
  <2> QED
    BY <2>1 DEF Disturb
<1>2. seen' \in [Editors -> 0..2]
  <2>1. \A e \in Editors : seen[e] \in 0..2 /\ (seen[e] < 2 => seen[e] + 1 \in 0..2)
    OBVIOUS
  <2> QED
    BY <2>1 DEF Disturb
<1> QED
  BY <1>1, <1>2

\* An apply that returns keeps the types of the editors' variables.
LEMMA ReturnType ==
  ASSUME TypeOK, NEW e \in Editors, NEW o \in Idle, Return(e, o)
  PROVE  /\ pc' \in [Editors -> Idle \cup Applying]
         /\ job' \in [Editors -> Job \cup {NoJob}]
         /\ snap' \in [Editors -> Doc \cup {Absent}]
         /\ attempt' \in [Editors -> {0, 1}]
         /\ old' \in [Editors -> BOOLEAN]
         /\ wrote' \in [Editors -> BOOLEAN]
BY DEF TypeOK, Return

\* So does the bookkeeping of an apply that ends without writing.
LEMMA UndisturbedType ==
  ASSUME TypeOK, NEW e \in Editors, Undisturbed(e)
  PROVE  raced' \in [Editors -> BOOLEAN] /\ seen' \in [Editors -> 0..2]
BY DEF TypeOK, Undisturbed

\* Every step keeps the types.
LEMMA TypeStep == IInv /\ [Next]_vars => TypeOK'
<1> SUFFICES ASSUME IInv, [Next]_vars PROVE TypeOK'
  OBVIOUS
<1> USE DEF Idle, Applying, InCommit
<1>1. ASSUME NEW e \in Editors, Plan(e) PROVE TypeOK'
  BY <1>1 DEF Plan, IInv, TypeOK, files, history
<1>2. ASSUME NEW e \in Editors, ReadSnapshot(e) PROVE TypeOK'
  <2>1. TypeOK
    BY DEF IInv
  <2>2. CASE /\ file # Broken
             /\ snap' = [snap EXCEPT ![e] = file]
             /\ old' = [old EXCEPT ![e] = ~touched]
             /\ pc' = [pc EXCEPT ![e] = "read"]
             /\ UNCHANGED <<job, attempt, raced, seen, wrote>>
    <3>1. file \in Doc \cup {Absent}
      BY <2>1, <2>2 DEF TypeOK, Content
    <3>2. /\ pc' \in [Editors -> Idle \cup Applying]
          /\ snap' \in [Editors -> Doc \cup {Absent}]
      BY <2>1, <2>2, <3>1 DEF TypeOK
    <3>3. old' \in [Editors -> BOOLEAN]
      <4>1. PICK b \in BOOLEAN : b = ~touched
        OBVIOUS
      <4>2. old' = [old EXCEPT ![e] = b]
        BY <2>2, <4>1
      <4> QED
        BY <2>1, <4>2 DEF TypeOK
    <3> QED
      BY <1>2, <2>1, <2>2, <3>2, <3>3 DEF ReadSnapshot, TypeOK, files
  <2>3. CASE \E o \in Idle : Return(e, o) /\ Undisturbed(e)
    BY <1>2, <2>1, <2>3, ReturnType, UndisturbedType DEF ReadSnapshot, TypeOK, files
  <2> QED
    BY <1>2, <2>2, <2>3 DEF ReadSnapshot
<1>3. ASSUME NEW e \in Editors, Recheck(e) PROVE TypeOK'
  <2>1. TypeOK
    BY DEF IInv
  <2>2. CASE /\ attempt' = [attempt EXCEPT ![e] = 1] \/ UNCHANGED attempt
             /\ \/ pc' = [pc EXCEPT ![e] = "checked"]
                \/ pc' = [pc EXCEPT ![e] = "planned"]
             /\ UNCHANGED <<job, snap, old, raced, seen, wrote>>
    <3>1. /\ attempt' \in [Editors -> {0, 1}]
          /\ pc' \in [Editors -> Idle \cup Applying]
      BY <2>1, <2>2 DEF TypeOK
    <3> QED
      BY <1>3, <2>1, <2>2, <3>1 DEF Recheck, TypeOK, files
  <2>3. CASE \E o \in Idle : Return(e, o) /\ Undisturbed(e)
    BY <1>3, <2>1, <2>3, ReturnType, UndisturbedType DEF Recheck, TypeOK, files
  <2> QED
    BY <1>3, <2>2, <2>3 DEF Recheck
<1>4. ASSUME NEW e \in Editors, StatBackup(e) PROVE TypeOK'
  BY <1>4 DEF StatBackup, Move, IInv, TypeOK, files, history
<1>5. ASSUME NEW e \in Editors, WriteBackup(e) PROVE TypeOK'
  <2>1. snap[e] \in Doc \cup {Absent} /\ old[e] \in BOOLEAN
    BY DEF IInv, TypeOK
  <2>2. /\ pc' \in [Editors -> Idle \cup Applying]
        /\ wrote' \in [Editors -> BOOLEAN]
    BY <1>5 DEF WriteBackup, Move, IInv, TypeOK
  <2> QED
    BY <1>5, <2>1, <2>2 DEF WriteBackup, IInv, TypeOK
<1>6. ASSUME NEW e \in Editors, Rename(e) PROVE TypeOK'
  <2>1. job[e] \in Job /\ snap[e] \in Doc \cup {Absent}
    BY <1>6 DEF Rename, IInv, TypeOK, JobInHand
  <2>2. file' \in Content
    BY <1>6, <2>1, EditedType DEF Rename, Content
  <2>3. raced' \in [Editors -> BOOLEAN] /\ seen' \in [Editors -> 0..2]
    BY <1>6, DisturbType DEF Rename, IInv, TypeOK
  <2> QED
    BY <1>6, <2>2, <2>3, ReturnType DEF Rename, IInv, TypeOK
<1>7. ASSUME NEW e \in Editors, Abort(e) PROVE TypeOK'
  BY <1>7, ReturnType, UndisturbedType DEF Abort, IInv, TypeOK, files
<1>8. ASSUME ForeignWrite PROVE TypeOK'
  <2>1. raced' \in [Editors -> BOOLEAN] /\ seen' \in [Editors -> 0..2]
    BY <1>8, DisturbType DEF ForeignWrite, IInv, TypeOK
  <2> QED
    BY <1>8, <2>1, ConfigAssumption DEF ForeignWrite, IInv, TypeOK, locals
<1>9. CASE UNCHANGED vars
  BY <1>9 DEF vars, IInv, TypeOK
<1> QED
  BY <1>1, <1>2, <1>3, <1>4, <1>5, <1>6, <1>7, <1>8, <1>9 DEF Next, Step
------------------------------------------------------------------------------
\* Past the re-read, the file is the snapshot until somebody writes it.
LEMMA SnapshotStep == IInv /\ [Next]_vars => SnapshotCurrent' /\ JobInHand'
<1> SUFFICES ASSUME IInv, [Next]_vars PROVE SnapshotCurrent' /\ JobInHand'
  OBVIOUS
<1> USE DEF SnapshotCurrent, JobInHand, InCommit, Applying
<1>1. ASSUME NEW e \in Editors, Plan(e) PROVE SnapshotCurrent' /\ JobInHand'
  BY <1>1 DEF Plan, IInv, TypeOK, files, history, Idle
<1>2. ASSUME NEW e \in Editors, ReadSnapshot(e) PROVE SnapshotCurrent' /\ JobInHand'
  BY <1>2 DEF ReadSnapshot, Return, Undisturbed, IInv, TypeOK, files
<1>3. ASSUME NEW e \in Editors, Recheck(e) PROVE SnapshotCurrent' /\ JobInHand'
  BY <1>3 DEF Recheck, Return, Undisturbed, IInv, TypeOK, files
<1>4. ASSUME NEW e \in Editors, StatBackup(e) PROVE SnapshotCurrent' /\ JobInHand'
  BY <1>4 DEF StatBackup, Move, IInv, TypeOK, files, history
<1>5. ASSUME NEW e \in Editors, WriteBackup(e) PROVE SnapshotCurrent' /\ JobInHand'
  BY <1>5 DEF WriteBackup, Move, IInv, TypeOK
<1>6. ASSUME NEW e \in Editors, Rename(e) PROVE SnapshotCurrent' /\ JobInHand'
  BY <1>6 DEF Rename, Return, Disturb, IInv, TypeOK
<1>7. ASSUME NEW e \in Editors, Abort(e) PROVE SnapshotCurrent' /\ JobInHand'
  BY <1>7 DEF Abort, Return, Undisturbed, IInv, TypeOK, files
<1>8. ASSUME ForeignWrite PROVE SnapshotCurrent' /\ JobInHand'
  BY <1>8 DEF ForeignWrite, Disturb, IInv, TypeOK, locals
<1>9. CASE UNCHANGED vars
  BY <1>9 DEF vars, IInv
<1> QED
  BY <1>1, <1>2, <1>3, <1>4, <1>5, <1>6, <1>7, <1>8, <1>9 DEF Next, Step

\* The backup exists before the first rename and is older than it.
LEMMA BackupStep == IInv /\ [Next]_vars => BackupFirst' /\ BackupPredatesAbby'
<1> SUFFICES ASSUME IInv, [Next]_vars PROVE BackupFirst' /\ BackupPredatesAbby'
  OBVIOUS
<1> USE DEF BackupFirst, BackupPredatesAbby, HasSnapshot, InCommit
<1>1. ASSUME NEW e \in Editors, Plan(e) PROVE BackupFirst' /\ BackupPredatesAbby'
  BY <1>1 DEF Plan, IInv, TypeOK, files, history, Idle
<1>2. ASSUME NEW e \in Editors, ReadSnapshot(e) PROVE BackupFirst' /\ BackupPredatesAbby'
  <2>1. UNCHANGED <<backup, touched, created, backupOld>>
    BY <1>2 DEF ReadSnapshot, files
  <2>2. pc'[e] \notin {"checked", "backing", "backed"}
    BY <1>2 DEF ReadSnapshot, Return, IInv, TypeOK
  <2>3. pc'[e] = "read" => old'[e] = ~touched
    BY <1>2 DEF ReadSnapshot, Return, IInv, TypeOK
  <2>4. \A f \in Editors \ {e} : /\ pc'[f] = pc[f]
                                 /\ snap'[f] = snap[f]
                                 /\ old'[f] = old[f]
    BY <1>2 DEF ReadSnapshot, Return, IInv, TypeOK
  <2> QED
    BY <2>1, <2>2, <2>3, <2>4 DEF IInv
<1>3. ASSUME NEW e \in Editors, Recheck(e) PROVE BackupFirst' /\ BackupPredatesAbby'
  BY <1>3 DEF Recheck, Return, IInv, TypeOK, files
<1>4. ASSUME NEW e \in Editors, StatBackup(e) PROVE BackupFirst' /\ BackupPredatesAbby'
  BY <1>4 DEF StatBackup, Move, IInv, TypeOK, files, history
<1>5. ASSUME NEW e \in Editors, WriteBackup(e) PROVE BackupFirst' /\ BackupPredatesAbby'
  BY <1>5 DEF WriteBackup, Move, IInv, TypeOK
<1>6. ASSUME NEW e \in Editors, Rename(e) PROVE BackupFirst' /\ BackupPredatesAbby'
  BY <1>6 DEF Rename, Return, IInv, TypeOK
<1>7. ASSUME NEW e \in Editors, Abort(e) PROVE BackupFirst' /\ BackupPredatesAbby'
  BY <1>7 DEF Abort, Return, IInv, TypeOK, files
<1>8. ASSUME ForeignWrite PROVE BackupFirst' /\ BackupPredatesAbby'
  BY <1>8 DEF ForeignWrite, IInv, locals
<1>9. CASE UNCHANGED vars
  BY <1>9 DEF vars, IInv
<1> QED
  BY <1>1, <1>2, <1>3, <1>4, <1>5, <1>6, <1>7, <1>8, <1>9 DEF Next, Step

\* Nobody meets a mismatch without a change, or writes before the comparison.
LEMMA CountStep == IInv /\ [Next]_vars => ChangesCounted' /\ UnwrittenUntilBacking'
<1> SUFFICES ASSUME IInv, [Next]_vars PROVE ChangesCounted' /\ UnwrittenUntilBacking'
  OBVIOUS
<1> USE DEF ChangesCounted, UnwrittenUntilBacking, Idle, InCommit, Applying
<1>1. ASSUME NEW e \in Editors, Plan(e) PROVE ChangesCounted' /\ UnwrittenUntilBacking'
  BY <1>1 DEF Plan, IInv, TypeOK, files, history, Idle
<1>2. ASSUME NEW e \in Editors, ReadSnapshot(e) PROVE ChangesCounted' /\ UnwrittenUntilBacking'
  BY <1>2 DEF ReadSnapshot, Return, Undisturbed, IInv, TypeOK, files
<1>3. ASSUME NEW e \in Editors, Recheck(e) PROVE ChangesCounted' /\ UnwrittenUntilBacking'
  BY <1>3 DEF Recheck, Return, Undisturbed, IInv, TypeOK, files
<1>4. ASSUME NEW e \in Editors, StatBackup(e) PROVE ChangesCounted' /\ UnwrittenUntilBacking'
  BY <1>4 DEF StatBackup, Move, IInv, TypeOK, files, history
<1>5. ASSUME NEW e \in Editors, WriteBackup(e) PROVE ChangesCounted' /\ UnwrittenUntilBacking'
  BY <1>5 DEF WriteBackup, Move, IInv, TypeOK
<1>6. ASSUME NEW e \in Editors, Rename(e) PROVE ChangesCounted' /\ UnwrittenUntilBacking'
  BY <1>6 DEF Rename, Return, Disturb, IInv, TypeOK
<1>7. ASSUME NEW e \in Editors, Abort(e) PROVE ChangesCounted' /\ UnwrittenUntilBacking'
  BY <1>7 DEF Abort, Return, Undisturbed, IInv, TypeOK, files
<1>8. ASSUME ForeignWrite PROVE ChangesCounted' /\ UnwrittenUntilBacking'
  BY <1>8 DEF ForeignWrite, Disturb, IInv, TypeOK, locals
<1>9. CASE UNCHANGED vars
  BY <1>9 DEF vars, IInv
<1> QED
  BY <1>1, <1>2, <1>3, <1>4, <1>5, <1>6, <1>7, <1>8, <1>9 DEF Next, Step
------------------------------------------------------------------------------
\* The inductive invariant holds of every instance.
THEOREM Invariance == Spec => []IInv
<1>1. IInv /\ [Next]_vars => IInv'
  BY TypeStep, SnapshotStep, BackupStep, CountStep DEF IInv
<1> QED
  BY InitIInv, <1>1, PTL DEF Spec

\* Types, for every instance.
THEOREM TypeCorrect == Spec => []TypeOK
<1>1. IInv => TypeOK
  BY DEF IInv
<1> QED
  BY Invariance, <1>1, PTL

\* The backup is older than everything abby wrote, whatever the interleaving
\* of abby processes, foreign writers and aborted applies (snapshot.go, Commit).
THEOREM BackupOriginal == Spec => []BackupPredatesAbby
<1>1. IInv => BackupPredatesAbby
  BY DEF IInv
<1> QED
  BY Invariance, <1>1, PTL

\* An unraced rename changes nothing but the planned entry: what others wrote
\* before the re-read survives (snapshot.go, Commit; jsonobj.go).
THEOREM OthersWorkPreserved == Spec => PreservesOthersWork
<1>1. ASSUME IInv, [Next]_vars, NEW e \in Editors,
             pc[e] = "backed", pc'[e] = "done", ~raced[e]
      PROVE  OnlyItsEntry(file, file', job[e].name)
  <2>1. file = snap[e] /\ job[e] \in Job /\ snap[e] \in Doc \cup {Absent}
    BY <1>1 DEF IInv, TypeOK, SnapshotCurrent, JobInHand, InCommit, Applying
  <2>2. Rename(e)
    <3>1. ASSUME NEW f \in Editors, Plan(f) \/ Abort(f) PROVE FALSE
      BY <1>1, <3>1 DEF Plan, Abort, Return, IInv, TypeOK, Idle
    <3>2. ASSUME NEW f \in Editors,
                 ReadSnapshot(f) \/ Recheck(f) \/ StatBackup(f) \/ WriteBackup(f)
          PROVE  FALSE
      BY <1>1, <3>2
         DEF ReadSnapshot, Recheck, StatBackup, WriteBackup, Move, Return, IInv, TypeOK
    <3>3. ASSUME NEW f \in Editors, Rename(f) PROVE f = e
      BY <1>1, <3>3 DEF Rename, Return, IInv, TypeOK
    <3>4. ~ForeignWrite /\ ~UNCHANGED vars
      BY <1>1 DEF ForeignWrite, locals, vars
    <3> QED
      BY <1>1, <3>1, <3>2, <3>3, <3>4 DEF Next, Step
  <2> QED
    BY <2>1, <2>2, EditedIsLocal DEF Rename
<1>2. IInv /\ [Next]_vars
        => [\A e \in Editors : pc[e] = "backed" /\ pc'[e] = "done" /\ ~raced[e]
              => OnlyItsEntry(file, file', job[e].name)]_vars
  BY <1>1
<1> QED
  BY Invariance, <1>2, PTL DEF Spec, PreservesOthersWork

\* Success is reported only over a file in which the job is done
\* (filewriter.go, fileChange).
THEOREM SuccessHolds == Spec => SuccessMeansApplied
<1>1. ASSUME IInv, [Next]_vars, NEW e \in Editors, pc[e] # "done", pc'[e] = "done"
      PROVE  file' # Broken /\ Satisfied(file', job[e])
  <2>1. CASE ReadSnapshot(e)
    <3>1. file # Broken /\ ~Changed(file, job[e]) /\ file' = file
      BY <1>1, <2>1 DEF ReadSnapshot, Return, files, IInv, TypeOK
    <3>2. file \in Doc \cup {Absent} /\ job[e] \in Job
      BY <1>1, <2>1, <3>1 DEF ReadSnapshot, IInv, TypeOK, Content, JobInHand, Applying
    <3> QED
      BY <3>1, <3>2, UnchangedSatisfies
  <2>2. CASE Rename(e)
    <3>1. job[e] \in Job /\ snap[e] \in Doc \cup {Absent}
      BY <1>1, <2>2 DEF Rename, IInv, TypeOK, JobInHand, Applying, InCommit
    <3>2. file' = Edited(snap[e], job[e])
      BY <2>2 DEF Rename
    <3> QED
      BY <3>1, <3>2, EditedType, EditedIsLocal, ConfigAssumption
  <2>3. ReadSnapshot(e) \/ Rename(e)
    <3>1. ASSUME NEW f \in Editors, f # e, Plan(f) \/ Step(f) \/ Abort(f) PROVE FALSE
      BY <1>1, <3>1
         DEF Plan, Step, Abort, ReadSnapshot, Recheck, StatBackup, WriteBackup,
             Rename, Move, Return, IInv, TypeOK
    <3>2. ~Plan(e) /\ ~Recheck(e) /\ ~StatBackup(e) /\ ~WriteBackup(e) /\ ~Abort(e)
      BY <1>1 DEF Plan, Recheck, StatBackup, WriteBackup, Abort, Move, Return,
                  IInv, TypeOK
    <3>3. ~ForeignWrite /\ ~UNCHANGED vars
      BY <1>1 DEF ForeignWrite, locals, vars
    <3> QED
      BY <1>1, <3>1, <3>2, <3>3 DEF Next, Step
  <2> QED
    BY <2>1, <2>2, <2>3
<1>2. IInv /\ [Next]_vars
        => [\A e \in Editors : pc[e] # "done" /\ pc'[e] = "done"
              => file' # Broken /\ Satisfied(file', job[e])]_vars
  BY <1>1
<1> QED
  BY Invariance, <1>2, PTL DEF Spec, SuccessMeansApplied

\* What an apply knows when it gives up: it is at its second re-read, and the file
\* is not its snapshot again.
LEMMA GaveUp ==
  ASSUME IInv, [Next]_vars, NEW e \in Editors, pc[e] # "gaveUp", pc'[e] = "gaveUp"
  PROVE  seen[e] = 2 /\ ~wrote[e]
<1>1. ASSUME NEW f \in Editors, f # e, Plan(f) \/ Step(f) \/ Abort(f) PROVE FALSE
  BY <1>1
     DEF Plan, Step, Abort, ReadSnapshot, Recheck, StatBackup, WriteBackup,
         Rename, Move, Return, IInv, TypeOK
<1>2. /\ ~Plan(e) /\ ~ReadSnapshot(e) /\ ~StatBackup(e) /\ ~WriteBackup(e)
      /\ ~Rename(e) /\ ~Abort(e)
  BY DEF Plan, ReadSnapshot, StatBackup, WriteBackup, Rename, Abort, Move, Return,
         IInv, TypeOK
<1>3. ~ForeignWrite /\ ~UNCHANGED vars
  BY DEF ForeignWrite, locals, vars
<1>4. Recheck(e)
  BY <1>1, <1>2, <1>3 DEF Next, Step
<1>5. file # snap[e] /\ attempt[e] = 1
  BY <1>4 DEF Recheck, IInv, TypeOK
<1> QED
  BY <1>4, <1>5 DEF Recheck, IInv, TypeOK, ChangesCounted, UnwrittenUntilBacking

\* AbsorbsOneChange: an apply gives up only after two changes by others
\* (filewriter.go:100-102).
THEOREM GivesUpRightly == Spec => AbsorbsOneChange
<1>1. IInv /\ [Next]_vars
        => [\A e \in Editors : pc[e] # "gaveUp" /\ pc'[e] = "gaveUp" => seen[e] = 2]_vars
  BY GaveUp
<1> QED
  BY Invariance, <1>1, PTL DEF Spec, AbsorbsOneChange

\* GivesUpUnwritten: an apply that gives up has written nothing (filewriter.go:136).
THEOREM GivesUpClean == Spec => GivesUpUnwritten
<1>1. IInv /\ [Next]_vars
        => [\A e \in Editors : pc[e] # "gaveUp" /\ pc'[e] = "gaveUp" => ~wrote[e]]_vars
  BY GaveUp
<1> QED
  BY Invariance, <1>1, PTL DEF Spec, GivesUpUnwritten
==============================================================================
