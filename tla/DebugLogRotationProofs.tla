----------------------- MODULE DebugLogRotationProofs -----------------------
(***************************************************************************)
(* Proofs about DebugLogRotation, for every segment size and every number  *)
(* of events.  What a step does to the files is one of five things; each   *)
(* of them preserves the order of the names and leaves no gap, and that    *)
(* Next does nothing else follows from the existence tests and Prepared.   *)
(***************************************************************************)
EXTENDS DebugLogRotation, FiniteSetTheorems, TLAPS

\* The renames the code makes, and those that may meet an existing target.
Moves ==
  {<<"backup", "retired">>, <<"retired", "backup">>, <<"pending", "backup">>,
   <<"staging", "pending">>, <<"pending", "staging">>,
   <<"active", "staging">>, <<"staging", "active">>}
Replacing == {<<"backup", "retired">>, <<"pending", "backup">>}

Moved(from, to) ==
  /\ <<from, to>> \in Moves
  /\ from \in DOMAIN file
  /\ to \in DOMAIN file => <<from, to>> \in Replacing
  /\ file' = [n \in (DOMAIN file \ {from}) \cup {to} |->
                IF n = to THEN file[from] ELSE file[n]]
  /\ written' = written

Removed ==
  /\ "backup" \in DOMAIN file
  /\ file' = [n \in DOMAIN file \ {"retired"} |-> file[n]]
  /\ written' = written

Opened == file' = With("active", Content("active")) /\ written' = written

Appended ==
  /\ file' = With("active", Content("active") \cup {written + 1})
  /\ written' = written + 1

FileStep ==
  \/ file' = file /\ written' = written
  \/ \E from, to \in Names : Moved(from, to)
  \/ Removed
  \/ Opened
  \/ Appended

\* The three state predicates that speak of the files only.
FilesOK ==
  /\ DOMAIN file \subseteq Names
  /\ file \in [DOMAIN file -> SUBSET (1..written)]
  /\ written \in Nat
  /\ OlderNamesOlderEvents
  /\ NoGap

-----------------------------------------------------------------------------
(* A rename, fs::rename in the code, keeps the files in order.             *)
LEMMA MovedKeepsOrder ==
  ASSUME FilesOK, NEW from \in Names, NEW to \in Names, Moved(from, to)
  PROVE  /\ DOMAIN file' \subseteq Names
         /\ file' \in [DOMAIN file' -> SUBSET (1..written')]
         /\ written' \in Nat
         /\ OlderNamesOlderEvents'
<1>1. DOMAIN file' = (DOMAIN file \ {from}) \cup {to}
  BY DEF Moved
<1>2. \A n \in DOMAIN file' : file'[n] = IF n = to THEN file[from] ELSE file[n]
  BY <1>1 DEF Moved
<1>3. file' \in [DOMAIN file' -> SUBSET (1..written')]
  BY <1>1, <1>2 DEF Moved, FilesOK
<1>4. \A n \in Names : Content(n)' = IF n = to THEN file[from]
                                     ELSE IF n = from THEN {} ELSE Content(n)
  BY <1>1, <1>2 DEF Content, Exists, Moved, Moves
<1>5. OlderNamesOlderEvents'
  <2> SUFFICES ASSUME NEW a \in Names, NEW b \in Names, Age[a] < Age[b],
                      NEW x \in Content(a)', NEW y \in Content(b)'
               PROVE  x < y
    BY DEF OlderNamesOlderEvents, Age
  <2> DEFINE Old(n) == IF n = to THEN from ELSE n
  <2>1. x \in Content(Old(a)) /\ y \in Content(Old(b))
    BY <1>4 DEF Content, Exists, Moved
  <2>2. a # from \/ a = to
    BY <1>4
  <2>3. b # from \/ b = to
    BY <1>4
  <2>4. Old(a) \in Names /\ Old(b) \in Names
    OBVIOUS
  <2>5. Age[Old(a)] < Age[Old(b)]
    BY <2>2, <2>3 DEF Moved, Moves, Age, Names
  <2> QED
    BY <2>1, <2>4, <2>5 DEF FilesOK, OlderNamesOlderEvents
<1> QED
  BY <1>1, <1>3, <1>5 DEF Moved, FilesOK

\* A rename replaces the retired file or the backup only, so what it destroys
\* is older than what it leaves.
LEMMA MovedKeepsNoGap ==
  ASSUME FilesOK, NEW from \in Names, NEW to \in Names, Moved(from, to)
  PROVE  NoGap'
<1> SUFFICES ASSUME NEW e \in 1..written, e \notin Kept', NEW x \in Kept'
             PROVE  e < x
  BY DEF NoGap, Moved
<1>1. DOMAIN file' = (DOMAIN file \ {from}) \cup {to}
  BY DEF Moved
<1>2. \A n \in DOMAIN file' : file'[n] = IF n = to THEN file[from] ELSE file[n]
  BY <1>1 DEF Moved
<1>3. PICK m \in DOMAIN file' : x \in file'[m] /\ (m = "retired" => "backup" \notin DOMAIN file')
  BY DEF Kept, Exists
<1>4. \A n \in DOMAIN file' :
        (n = "retired" => "backup" \notin DOMAIN file') => e \notin file'[n]
  BY DEF Kept, Exists
<1>5. \A a, b \in DOMAIN file : Age[a] < Age[b] =>
        \A u \in file[a], v \in file[b] : u < v
  BY DEF FilesOK, OlderNamesOlderEvents, Content, Exists
<1> DEFINE Old(n) == IF n = to THEN from ELSE n
<1>6. Old(m) \in DOMAIN file /\ x \in file[Old(m)]
  BY <1>1, <1>2, <1>3 DEF Moved
<1>7. x \in Nat /\ e \in Nat
  BY <1>6 DEF FilesOK
<1>8. CASE e \notin Kept
  <2>1. x \in Kept
    BY <1>1, <1>3, <1>6 DEF Kept, Exists, Moved, Moves, Replacing
  <2> QED
    BY <1>8, <2>1 DEF FilesOK, NoGap
<1>9. CASE e \in Kept
  <2>1. PICK k \in DOMAIN file : e \in file[k] /\ (k = "retired" => "backup" \notin DOMAIN file)
    BY <1>9 DEF Kept, Exists
  <2>2. k # from
    BY <1>1, <1>2, <1>4, <2>1 DEF Moved, Moves
  <2>3. k = to \/ (k = "retired" /\ to = "backup")
    BY <1>1, <1>2, <1>4, <2>1, <2>2
  <2>4. to = "backup" /\ from = "pending" /\ k \in {"backup", "retired"}
    BY <2>1, <2>2, <2>3 DEF Moved, Moves, Replacing
  <2>5. Age[k] < Age[Old(m)]
    BY <1>1, <1>3, <1>6, <2>4 DEF Age, FilesOK, Names
  <2> QED
    BY <1>5, <1>6, <2>1, <2>5
<1> QED
  BY <1>8, <1>9

LEMMA RemovedKeepsFiles ==
  ASSUME FilesOK, Removed
  PROVE  FilesOK'
<1>1. /\ DOMAIN file' = DOMAIN file \ {"retired"}
      /\ \A n \in DOMAIN file' : file'[n] = file[n]
  BY DEF Removed
<1>2. /\ DOMAIN file' \subseteq Names
      /\ file' \in [DOMAIN file' -> SUBSET (1..written')]
      /\ written' \in Nat
  BY <1>1 DEF Removed, FilesOK
<1>3. OlderNamesOlderEvents'
  BY <1>1 DEF FilesOK, OlderNamesOlderEvents, Content, Exists, Age
<1>4. Kept' = Kept
  BY <1>1 DEF Kept, Exists, Removed
<1> QED
  BY <1>2, <1>3, <1>4 DEF FilesOK, NoGap, Removed

\* Creating the active file, or adding the next event to it.
LEMMA WrittenKeepsFiles ==
  ASSUME FilesOK, Opened \/ Appended
  PROVE  FilesOK'
<1> DEFINE added == IF written' = written THEN {} ELSE {written + 1}
<1>1. /\ DOMAIN file' = DOMAIN file \cup {"active"}
      /\ \A n \in DOMAIN file' : n # "active" => file'[n] = file[n]
      /\ file'["active"] = Content("active") \cup added
      /\ written' \in Nat /\ written <= written'
      /\ \A e \in 1..written' : e \in 1..written \/ e \in added
  BY DEF Opened, Appended, With, FilesOK
<1>2. Content("active") \subseteq 1..written /\ added \subseteq 1..written'
  BY DEF Content, Exists, FilesOK, Opened, Appended
<1>3. /\ DOMAIN file' \subseteq Names
      /\ file' \in [DOMAIN file' -> SUBSET (1..written')]
  <2>1. \A n \in DOMAIN file' : file'[n] \subseteq 1..written'
    BY <1>1, <1>2 DEF FilesOK
  <2>2. file' = [n \in DOMAIN file' |-> file'[n]]
    BY DEF Opened, Appended, With
  <2> QED
    BY <1>1, <2>1, <2>2 DEF FilesOK, Names
<1>4. OlderNamesOlderEvents'
  <2> SUFFICES ASSUME NEW a \in Names, NEW b \in Names, Age[a] < Age[b],
                      NEW x \in Content(a)', NEW y \in Content(b)'
               PROVE  x < y
    BY DEF OlderNamesOlderEvents, Age
  <2>1. a # "active"
    BY DEF Age, Names
  <2>2. x \in Content(a) /\ x \in 1..written
    BY <1>1, <2>1 DEF Content, Exists, FilesOK
  <2>3. y \in Content(b) \/ y \in added
    BY <1>1 DEF Content, Exists
  <2>4. CASE y \in Content(b)
    BY <2>2, <2>4 DEF FilesOK, OlderNamesOlderEvents
  <2>5. CASE y \in added
    BY <2>2, <2>5 DEF FilesOK
  <2> QED
    BY <2>3, <2>4, <2>5
<1>5. Kept' = Kept \cup added
  BY <1>1 DEF Kept, Exists, Content
<1>6. NoGap'
  <2> SUFFICES ASSUME NEW e \in 1..written', e \notin Kept', NEW x \in Kept'
               PROVE  e < x
    BY DEF NoGap
  <2>1. e \in 1..written /\ e \notin Kept
    BY <1>1, <1>5
  <2>2. x \in Kept \/ x \in added
    BY <1>5
  <2> QED
    BY <2>1, <2>2 DEF NoGap, FilesOK
<1> QED
  BY <1>1, <1>3, <1>4, <1>6 DEF FilesOK

LEMMA StepKeepsFiles ==
  ASSUME FilesOK, FileStep
  PROVE  FilesOK'
<1>1. CASE file' = file /\ written' = written
  BY <1>1 DEF FilesOK, OlderNamesOlderEvents, NoGap, Content, Kept, Exists
<1>2. CASE \E from, to \in Names : Moved(from, to)
  BY <1>2, MovedKeepsOrder, MovedKeepsNoGap DEF FilesOK
<1> QED
  BY <1>1, <1>2, RemovedKeepsFiles, WrittenKeepsFiles DEF FileStep

-----------------------------------------------------------------------------
\* The control state: which call, which file operation of it.
ControlOK ==
  /\ running \in BOOLEAN
  /\ call \in {"log", "commit"}
  /\ pc \in Steps
  /\ phase \in {"first", "again", "rotate"}
  /\ promoting \in BOOLEAN
  /\ clean \in BOOLEAN

LEMMA IInvParts ==
  IInv <=> FilesOK /\ ControlOK /\ Prepared /\ CleanPass /\ OnePassRepairs
BY DEF IInv, TypeOK, FilesOK, ControlOK

\* The operations of the module, as the five things a step can do.
LEMMA OperationsAreFileSteps ==
  ASSUME FilesOK
  PROVE  /\ \A from, to \in Names :
              <<from, to>> \in Moves /\ Rename(from, to)
                /\ (Exists(to) => <<from, to>> \in Replacing) => FileStep
         /\ \A from, to \in Names :
              <<from, to>> \in Moves /\ Return(from, to) => FileStep
         /\ Remove("retired") /\ (Exists("backup") \/ ~Exists("retired")) => FileStep
         /\ Failed => FileStep
         /\ UNCHANGED <<file, written>> => FileStep
<1>1. ASSUME NEW from \in Names, NEW to \in Names, <<from, to>> \in Moves,
             Rename(from, to), Exists(to) => <<from, to>> \in Replacing
      PROVE  FileStep
  <2>1. Moved(from, to)
    BY <1>1 DEF Rename, Succeeded, Exists, Moved
  <2> QED
    BY <2>1 DEF FileStep
<1>2. Failed => FileStep
  BY DEF Failed, FileStep
<1>3. UNCHANGED <<file, written>> => FileStep
  BY DEF FileStep
<1>4. ASSUME NEW from \in Names, NEW to \in Names, <<from, to>> \in Moves,
             Return(from, to)
      PROVE  FileStep
  <2>1. CASE Rename(from, to) /\ ~Exists(to)
    BY <1>1, <1>4, <2>1
  <2>2. CASE Failed
    BY <1>2, <2>2
  <2>3. CASE Succeeded /\ UNCHANGED file
    BY <1>3, <2>3 DEF Succeeded
  <2> QED
    BY <1>4, <2>1, <2>2, <2>3 DEF Return
<1>5. ASSUME Remove("retired"), Exists("backup") \/ ~Exists("retired")
      PROVE  FileStep
  <2>1. CASE Failed
    BY <1>2, <2>1
  <2>2. CASE /\ file' = [n \in DOMAIN file \ {"retired"} |-> file[n]]
             /\ Succeeded
    <3>1. CASE Exists("backup")
      BY <2>2, <3>1 DEF Succeeded, Exists, Removed, FileStep
    <3>2. CASE ~Exists("retired")
      <4>1. DOMAIN file \ {"retired"} = DOMAIN file
        BY <3>2 DEF Exists
      <4>2. file' = file
        BY <2>2, <4>1 DEF FilesOK
      <4> QED
        BY <2>2, <4>2 DEF Succeeded, FileStep
    <3> QED
      BY <1>5, <3>1, <3>2
  <2> QED
    BY <1>5, <2>1, <2>2 DEF Remove
<1> QED
  BY <1>1, <1>2, <1>3, <1>4, <1>5

LEMMA EveryStepIsAFileStep ==
  ASSUME IInv, [Next]_vars
  PROVE  FileStep
<1> USE OperationsAreFileSteps, IInvParts DEF Names, Moves, Replacing
<1>1. CASE BeginCommit \/ BeginLog
  BY <1>1 DEF BeginCommit, BeginLog, Begin
<1>2. CASE Open
  BY <1>2 DEF Open, FileStep, Opened
<1>3. CASE RetireLeftBackup
  BY <1>3 DEF RetireLeftBackup
<1>4. CASE DropOlderRetired
  BY <1>4 DEF DropOlderRetired
<1>5. CASE AdoptPending
  BY <1>5 DEF AdoptPending
<1>6. CASE ReinstateRetired
  BY <1>6 DEF ReinstateRetired
<1>7. CASE PurgeRetired
  BY <1>7 DEF PurgeRetired, Prepared
<1>8. CASE NothingStaged \/ FinishRotation \/ BeginRotation
  BY <1>8 DEF NothingStaged, FinishRotation, BeginRotation
<1>9. CASE UndoRotation
  BY <1>9 DEF UndoRotation
<1>10. CASE KeepActive
  BY <1>10 DEF KeepActive
<1>11. CASE MoveActive
  BY <1>11 DEF MoveActive
<1>12. CASE RestoreActive
  BY <1>12 DEF RestoreActive
<1>13. CASE Stage
  BY <1>13 DEF Stage, Prepared
<1>14. CASE KeepBackup
  BY <1>14 DEF KeepBackup
<1>15. CASE CommitBackup
  BY <1>15 DEF CommitBackup
<1>16. CASE SweepRetired
  BY <1>16 DEF SweepRetired, Prepared
<1>17. CASE RollBackBackup
  BY <1>17 DEF RollBackBackup
<1>18. CASE RollBackStaging
  BY <1>18 DEF RollBackStaging
<1>19. CASE AppendEvent
  BY <1>19 DEF AppendEvent, FileStep, Opened, Appended
<1>20. CASE Crash \/ UNCHANGED vars
  BY <1>20 DEF Crash, vars
<1> QED
  BY <1>1, <1>2, <1>3, <1>4, <1>5, <1>6, <1>7, <1>8, <1>9, <1>10, <1>11, <1>12, <1>13,
     <1>14, <1>15, <1>16, <1>17, <1>18, <1>19, <1>20
     DEF Next, RecoverStep, RotateStep, PromoteStep

-----------------------------------------------------------------------------
LEMMA StepKeepsControl ==
  ASSUME ControlOK, [Next]_vars
  PROVE  ControlOK'
<1> USE DEF ControlOK, Steps, Succeeded, Failed, Rename, Remove, Return, Goto,
        EndRotation, Recovered, PendingRecovered, PromotionFailed, PendingFailed
<1>1. CASE BeginCommit \/ BeginLog \/ Open \/ AppendEvent \/ Crash
  BY <1>1 DEF BeginCommit, BeginLog, Begin, Open, AppendEvent, Crash
<1>2. CASE RetireLeftBackup \/ DropOlderRetired \/ AdoptPending
  BY <1>2 DEF RetireLeftBackup, DropOlderRetired, AdoptPending
<1>3. CASE ReinstateRetired \/ PurgeRetired \/ NothingStaged
  BY <1>3 DEF ReinstateRetired, PurgeRetired, NothingStaged
<1>4. CASE UndoRotation \/ FinishRotation
  BY <1>4 DEF UndoRotation, FinishRotation
<1>5. CASE RotateStep
  BY <1>5 DEF RotateStep, KeepActive, BeginRotation, MoveActive, RestoreActive
<1>6. CASE Stage \/ KeepBackup \/ CommitBackup
  BY <1>6 DEF Stage, KeepBackup, CommitBackup
<1>7. CASE SweepRetired \/ RollBackBackup \/ RollBackStaging
  BY <1>7 DEF SweepRetired, RollBackBackup, RollBackStaging
<1>8. CASE UNCHANGED vars
  BY <1>8 DEF vars
<1> QED
  BY <1>1, <1>2, <1>3, <1>4, <1>5, <1>6, <1>7, <1>8
     DEF Next, RecoverStep, RotateStep, PromoteStep

\* Prepared speaks of three program points only, so most steps leave it
\* trivially true: they end at another point.
LEMMA StepKeepsPrepared ==
  ASSUME Prepared, [Next]_vars
  PROVE  Prepared'
<1> USE DEF Prepared, Exists
<1>1. CASE pc' \notin {"purge", "sweep", "stage"}
  BY <1>1
<1>2. CASE pc' \in {"purge", "sweep", "stage"} /\ Next
  <2>1. CASE AdoptPending
    <3>1. CASE Rename("pending", "backup")
      BY <2>1, <3>1, <1>2 DEF AdoptPending, Rename
    <3>2. CASE Failed /\ PendingFailed
      BY <2>1, <3>2, <1>2
         DEF PendingFailed, PromotionFailed, Goto, EndRotation
    <3> QED
      BY <2>1, <3>1, <3>2, <1>2 DEF AdoptPending, Goto
  <2>2. CASE CommitBackup
    BY <2>2, <1>2 DEF CommitBackup, Rename, Failed, Goto
  <2>3. CASE ReinstateRetired
    <3>1. CASE Rename("retired", "backup") /\ PendingRecovered
      BY <2>3, <3>1, <1>2 DEF ReinstateRetired, Rename, PendingRecovered, Goto
    <3>2. CASE Failed /\ PendingFailed
      BY <2>3, <3>2, <1>2
         DEF PendingFailed, PromotionFailed, Goto, EndRotation
    <3> QED
      BY <2>3, <3>1, <3>2 DEF ReinstateRetired
  <2>4. CASE PurgeRetired
    BY <2>4, <1>2 DEF PurgeRetired, Remove, Failed, PendingRecovered, Goto
  <2>5. CASE RetireLeftBackup \/ DropOlderRetired \/ NothingStaged
             \/ UndoRotation \/ FinishRotation
    BY <2>5, <1>2
       DEF RetireLeftBackup, DropOlderRetired, NothingStaged, UndoRotation,
           FinishRotation, Goto, Recovered, PendingFailed, PromotionFailed, EndRotation
  <2>6. CASE RotateStep
    BY <2>6, <1>2
       DEF RotateStep, KeepActive, BeginRotation, MoveActive, RestoreActive, EndRotation
  <2>7. CASE Stage \/ KeepBackup \/ SweepRetired \/ RollBackBackup \/ RollBackStaging
    BY <2>7, <1>2
       DEF Stage, KeepBackup, SweepRetired, RollBackBackup, RollBackStaging, Goto,
           Recovered, PromotionFailed, EndRotation
  <2>8. CASE BeginCommit \/ BeginLog \/ Open \/ AppendEvent \/ Crash
    BY <2>8, <1>2 DEF BeginCommit, BeginLog, Begin, Open, AppendEvent, Crash, Goto
  <2> QED
    BY <1>2, <2>1, <2>2, <2>3, <2>4, <2>5, <2>6, <2>7, <2>8
       DEF Next, RecoverStep, PromoteStep
<1>3. CASE UNCHANGED vars
  BY <1>3 DEF vars
<1> QED
  BY <1>1, <1>2, <1>3

\* A step that meets a failure leaves nothing to show about a clean call.
LEMMA StepKeepsCleanPass ==
  ASSUME Prepared, CleanPass, [Next]_vars
  PROVE  CleanPass'
<1> USE DEF CleanPass, Exists
<1>1. CASE BeginCommit \/ BeginLog \/ Open \/ AppendEvent \/ Crash
  BY <1>1 DEF BeginCommit, BeginLog, Begin, Open, AppendEvent, Crash, Goto, Failed
<1>2. CASE RetireLeftBackup
  BY <1>2
     DEF RetireLeftBackup, Rename, Succeeded, Failed, Goto, PendingFailed, PromotionFailed, EndRotation
<1>3. CASE DropOlderRetired
  BY <1>3 DEF DropOlderRetired, Remove, Succeeded, Failed, Goto
<1>4. CASE AdoptPending
  BY <1>4
     DEF AdoptPending, Rename, Succeeded, Failed, Goto, PendingFailed, PromotionFailed, EndRotation
<1>5. CASE ReinstateRetired
  BY <1>5
     DEF ReinstateRetired, Rename, Succeeded, Failed, Goto, PendingRecovered,
         PendingFailed, PromotionFailed, EndRotation
<1>6. CASE PurgeRetired
  BY <1>6 DEF PurgeRetired, Prepared, Remove, Succeeded, Failed, Goto, PendingRecovered
<1>7. CASE NothingStaged \/ FinishRotation
  BY <1>7 DEF NothingStaged, FinishRotation, Recovered
<1>8. CASE UndoRotation
  BY <1>8 DEF UndoRotation, Return, Rename, Succeeded, Failed, Recovered
<1>9. CASE KeepActive \/ BeginRotation
  BY <1>9 DEF KeepActive, BeginRotation, Failed, EndRotation
<1>10. CASE MoveActive
  BY <1>10 DEF MoveActive, Rename, Succeeded, Failed, EndRotation
<1>11. CASE RestoreActive \/ RollBackBackup \/ RollBackStaging
  <2>1. ~clean
    BY <1>11 DEF RestoreActive, RollBackBackup, RollBackStaging
  <2>2. ~clean' \/ clean' = clean
    BY <1>11
       DEF RestoreActive, RollBackBackup, RollBackStaging, Return, Rename, Succeeded, Failed
  <2>3. /\ phase' = phase /\ promoting' = promoting
        /\ pc' \notin {"open", "interrupted", "check", "move"}
    BY <1>11
       DEF RestoreActive, RollBackBackup, RollBackStaging, Goto, PromotionFailed, EndRotation
  <2> QED
    BY <2>1, <2>2, <2>3
<1>12. CASE Stage
  BY <1>12 DEF Stage, Rename, Succeeded, Failed, Goto, PromotionFailed, EndRotation
<1>13. CASE KeepBackup
  BY <1>13 DEF KeepBackup, Rename, Succeeded, Failed, Goto
<1>14. CASE CommitBackup
  BY <1>14 DEF CommitBackup, Rename, Succeeded, Failed, Goto
<1>15. CASE SweepRetired
  BY <1>15 DEF SweepRetired, Prepared, Remove, Succeeded, Failed, EndRotation, Recovered
<1>16. CASE UNCHANGED vars
  BY <1>16 DEF vars
<1> QED
  BY <1>1, <1>2, <1>3, <1>4, <1>5, <1>6, <1>7, <1>8, <1>9, <1>10, <1>11, <1>12, <1>13,
     <1>14, <1>15, <1>16
     DEF Next, RecoverStep, RotateStep, PromoteStep

\* log() is reached without a failure in two ways: nothing was due, or a
\* rotation has moved the active file away.
LEMMA StepKeepsRepairs ==
  ASSUME FilesOK, Prepared, CleanPass, OnePassRepairs, [Next]_vars
  PROVE  OnePassRepairs'
<1>1. CASE pc' # "append" \/ ~clean'
  BY <1>1 DEF OnePassRepairs
<1>2. CASE pc' = "append" /\ clean' /\ Next
  <2>1. CASE KeepActive
    <3>1. ~MustRotate /\ UNCHANGED <<file, clean>> /\ pc = "check"
      BY <2>1, <1>2 DEF KeepActive, Failed
    <3>2. \A name \in Temporary : ~Exists(name)
      BY <1>2, <3>1 DEF CleanPass, Temporary
    <3>3. IsFiniteSet(Content("active"))
      <4>1. Content("active") \in SUBSET (1..written)
        BY DEF FilesOK, Content, Exists
      <4>2. IsFiniteSet(1..written)
        BY FS_Interval DEF FilesOK
      <4> QED
        BY <4>1, <4>2, FS_Subset
    <3>4. Cardinality(Content("active")) < SegmentSize
      BY <3>1, <3>3, FS_CardinalityType, ConstantsAssumption DEF MustRotate
    <3>5. \A name : Exists(name)' = Exists(name) /\ Content(name)' = Content(name)
      BY <3>1 DEF Exists, Content
    <3>6. Cardinality(Content("active"))' = Cardinality(Content("active"))
      BY <3>5
    <3> QED
      BY <3>2, <3>4, <3>5, <3>6 DEF OnePassRepairs
  <2>2. CASE SweepRetired
    <3>1. /\ pc = "sweep" /\ phase = "rotate"
          /\ clean
          /\ file' = [n \in DOMAIN file \ {"retired"} |-> file[n]]
      BY <2>2, <1>2 DEF SweepRetired, Remove, Succeeded, Failed, Recovered
    <3>2. /\ ~Exists("active") /\ ~Exists("staging") /\ ~Exists("pending")
      BY <3>1 DEF CleanPass, Prepared
    <3>3. DOMAIN file' \cap {"active", "staging", "pending", "retired"} = {}
      BY <3>1, <3>2 DEF Exists
    <3>4. Content("active")' = {}
      BY <3>3 DEF Content, Exists
    <3>5. Cardinality(Content("active"))' < SegmentSize
      BY <3>4, FS_EmptySet, ConstantsAssumption
    <3> QED
      BY <3>3, <3>5 DEF OnePassRepairs, Exists, Temporary
  <2>3. ~(BeginCommit \/ BeginLog \/ Open \/ AppendEvent \/ Crash)
    BY <1>2 DEF BeginCommit, BeginLog, Begin, Open, AppendEvent, Crash, Goto
  <2>4. ~(RetireLeftBackup \/ DropOlderRetired \/ AdoptPending \/ ReinstateRetired)
    BY <1>2
       DEF RetireLeftBackup, DropOlderRetired, AdoptPending, ReinstateRetired, Failed, Goto,
           PendingRecovered
  <2>5. ~(PurgeRetired \/ NothingStaged \/ UndoRotation \/ FinishRotation)
    BY <1>2
       DEF PurgeRetired, NothingStaged, UndoRotation, FinishRotation, Goto, Recovered,
           PendingRecovered
  <2>6. ~(BeginRotation \/ MoveActive)
    BY <1>2 DEF BeginRotation, MoveActive, Failed
  <2>7. ~(RestoreActive \/ RollBackStaging \/ RollBackBackup)
    BY <1>2
       DEF RestoreActive, RollBackStaging, RollBackBackup, Return, Rename, Succeeded, Failed,
           CleanPass
  <2>8. ~(Stage \/ KeepBackup \/ CommitBackup)
    BY <1>2 DEF Stage, KeepBackup, CommitBackup, Failed, Goto
  <2> QED
    BY <1>2, <2>1, <2>2, <2>3, <2>4, <2>5, <2>6, <2>7, <2>8
       DEF Next, RecoverStep, RotateStep, PromoteStep
<1>3. CASE UNCHANGED vars
  BY <1>3 DEF vars, OnePassRepairs, Exists, Content
<1> QED
  BY <1>1, <1>2, <1>3

-----------------------------------------------------------------------------
LEMMA InitIInv == Init => IInv
<1> SUFFICES ASSUME Init PROVE IInv
  OBVIOUS
<1>1. DOMAIN file = {}
  BY DEF Init
<1>2. FilesOK
  BY <1>1 DEF Init, FilesOK, OlderNamesOlderEvents, NoGap, Content, Exists, Age, Names
<1>3. ControlOK /\ Prepared /\ CleanPass /\ OnePassRepairs
  BY DEF Init, ControlOK, Prepared, Steps, CleanPass, OnePassRepairs
<1> QED
  BY <1>2, <1>3, IInvParts

LEMMA StepIInv == IInv /\ [Next]_vars => IInv'
<1> SUFFICES ASSUME IInv, [Next]_vars PROVE IInv'
  OBVIOUS
<1>1. FilesOK /\ ControlOK /\ Prepared /\ CleanPass /\ OnePassRepairs
  BY IInvParts
<1>2. FilesOK'
  BY <1>1, EveryStepIsAFileStep, StepKeepsFiles
<1>3. ControlOK' /\ Prepared' /\ CleanPass' /\ OnePassRepairs'
  BY <1>1, StepKeepsControl, StepKeepsPrepared, StepKeepsCleanPass, StepKeepsRepairs
<1> QED
  BY <1>2, <1>3 DEF IInv, TypeOK, FilesOK, ControlOK

\* The inductive invariant holds in every behaviour, crashes and failing file
\* operations included.
THEOREM FilesInvariant == Spec => []IInv
<1>1. Init => IInv
  BY InitIInv
<1>2. IInv /\ [Next]_vars => IInv'
  BY StepIInv
<1> QED
  BY <1>1, <1>2, PTL DEF Spec

\* The files contain events that were written, under the five names only.
THEOREM FilesTypeCorrect == Spec => []TypeOK
<1>1. IInv => TypeOK
  BY DEF IInv
<1> QED
  BY <1>1, FilesInvariant, PTL

\* The name of a file tells its age (recover_interrupted_rotation decides by
\* the names alone), and no event is in two files.
THEOREM NamesTellAge == Spec => []OlderNamesOlderEvents
<1>1. IInv => OlderNamesOlderEvents
  BY DEF IInv
<1> QED
  BY <1>1, FilesInvariant, PTL

\* However a rotation is interrupted, the log loses events from its old end
\* only.
THEOREM LogHasNoGap == Spec => []NoGap
<1>1. IInv => NoGap
  BY DEF IInv
<1> QED
  BY <1>1, FilesInvariant, PTL

\* Whatever earlier calls and crashes left behind, one pass of
\* maybe_rotate_log without a failure repairs it, and log() then writes to a
\* file that is not due.
THEOREM OnePassIsEnough == Spec => []OnePassRepairs
<1>1. IInv => OnePassRepairs
  BY DEF IInv
<1> QED
  BY <1>1, FilesInvariant, PTL

\* promote_staging_to_backup and the recovery never destroy a backup before a
\* later one is committed.
THEOREM PriorBackupIsKept == Spec => PriorBackupKept
<1> DEFINE Later(e) == \E name \in {"backup", "retired"} \cap DOMAIN file' :
                         \A x \in file'[name] : e < x
<1>1. ASSUME IInv, [Next]_vars
      PROVE  \A e \in Stored \ Stored' : Later(e)
  <2> SUFFICES ASSUME NEW e \in Stored, e \notin Stored' PROVE Later(e)
    OBVIOUS
  <2>1. FilesOK
    BY <1>1, IInvParts
  <2>2. PICK k \in DOMAIN file : e \in file[k]
    BY DEF Stored
  <2>3. \A n \in DOMAIN file' : e \notin file'[n]
    BY DEF Stored
  <2>4. \A a, b \in DOMAIN file : Age[a] < Age[b] =>
          \A u \in file[a], v \in file[b] : u < v
    BY <2>1 DEF FilesOK, OlderNamesOlderEvents, Content, Exists
  <2>5. CASE file' = file
    BY <2>5, <2>2, <2>3
  <2>6. ASSUME NEW from \in Names, NEW to \in Names, Moved(from, to)
        PROVE  Later(e)
    <3>1. /\ DOMAIN file' = (DOMAIN file \ {from}) \cup {to}
          /\ \A n \in DOMAIN file' : file'[n] = IF n = to THEN file[from] ELSE file[n]
      BY <2>6 DEF Moved
    <3>2. k = to /\ from # to
      BY <3>1, <2>2, <2>3, <2>6 DEF Moved, Moves
    <3>3. <<from, to>> \in Replacing
      BY <3>2, <2>6 DEF Moved
    <3>4. Age[k] < Age[from] /\ to \in {"backup", "retired"}
      BY <3>2, <3>3 DEF Replacing, Age, Names
    <3>5. \A x \in file'[to] : e < x
      BY <3>1, <3>2, <3>4, <2>2, <2>4, <2>6 DEF Moved
    <3> QED
      BY <3>1, <3>4, <3>5
  <2>7. CASE Removed
    <3>1. /\ DOMAIN file' = DOMAIN file \ {"retired"}
          /\ \A n \in DOMAIN file' : file'[n] = file[n]
      BY <2>7 DEF Removed
    <3>2. k = "retired" /\ "backup" \in DOMAIN file
      BY <3>1, <2>2, <2>3, <2>7 DEF Removed
    <3>3. Age[k] < Age["backup"]
      BY <3>2 DEF Age, Names
    <3> QED
      BY <3>1, <3>2, <3>3, <2>2, <2>4
  <2>8. CASE Opened \/ Appended
    BY <2>8, <2>2, <2>3 DEF Opened, Appended, With, Content, Exists
  <2> QED
    BY <1>1, EveryStepIsAFileStep, <2>5, <2>6, <2>7, <2>8 DEF FileStep
<1> QED
  BY <1>1, FilesInvariant, PTL DEF Spec, PriorBackupKept
=============================================================================
