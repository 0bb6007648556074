-------------------------- MODULE DebugLogRotation --------------------------
(***************************************************************************)
(* The files of the debug log and their rotation (src/src/debug_log.rs).   *)
(* A rotation moves the active file to staging, staging to pending, the    *)
(* backup to retired, pending to the backup, and removes retired.  The     *)
(* process may die between any two of these, any of them may fail, and     *)
(* the next call finds out from the names that exist how far it went.      *)
(*                                                                         *)
(* The writer lock makes a call of log() or of commit_inner() one thread   *)
(* of control, so pc, phase and promoting are its stack: one action per    *)
(* file operation, with the existence tests that precede it.               *)
(*                                                                         *)
(* Simplifications.  One log path, enabled; one process, as the docs ask.  *)
(* A file is the set of the events in it.  A rename replaces its target.   *)
(* A file is due by size at SegmentSize events, and by age at any time.    *)
(* An event that could not be written is gone and has no number.           *)
(***************************************************************************)
EXTENDS Naturals, FiniteSets

CONSTANTS
  SegmentSize,   \* max_log_mb, in events
  MaxEvents      \* bound on the events written

ASSUME ConstantsAssumption ==
  /\ SegmentSize \in Nat \ {0}
  /\ MaxEvents \in Nat

VARIABLES
  file,        \* the content of each file, under its name
  written,     \* events 1..written have been written to the active file
  running,     \* DebugLog::new has succeeded
  call,        \* the call that holds the writer lock
  pc,          \* its next file operation
  phase,       \* which recovery of maybe_rotate_log, or the rotation itself
  promoting,   \* inside promote_staging_to_backup
  clean        \* history: no file operation of this call has failed

vars == <<file, written, running, call, pc, phase, promoting, clean>>

Names == {"active", "staging", "pending", "backup", "retired"}
Temporary == {"staging", "pending", "retired"}

Steps == {"open", "pending", "adopt", "purge", "interrupted", "check", "move",
          "stage", "keep", "commit", "sweep", "undo", "unstage", "restore",
          "append", "idle"}

Exists(name) == name \in DOMAIN file
Content(name) == IF Exists(name) THEN file[name] ELSE {}
Stored == UNION {file[name] : name \in DOMAIN file}

With(name, content) ==
  [n \in DOMAIN file \cup {name} |-> IF n = name THEN content ELSE file[n]]

-----------------------------------------------------------------------------
(* File operations, by what they do when they succeed and when they fail.  *)

Succeeded == UNCHANGED <<written, running, clean>>
Failed == clean' = FALSE /\ UNCHANGED <<file, written, running>>

\* fs::rename: the source must exist; the target is replaced
Rename(from, to) ==
  /\ Exists(from)
  /\ file' = [n \in (DOMAIN file \ {from}) \cup {to} |->
                IF n = to THEN file[from] ELSE file[n]]
  /\ Succeeded

\* let _ = fs::remove_file: gone afterwards, or a failure that nobody looks at
Remove(name) ==
  \/ file' = [n \in DOMAIN file \ {name} |-> file[n]] /\ Succeeded
  \/ Exists(name) /\ Failed

\* Mutant for OlderNamesOlderEvents: the way back copies instead of renaming.
ReturnByCopy(from, to) ==
  LET possible == Exists(from) /\ ~Exists(to)
  IN  \/ possible /\ file' = With(to, file[from]) /\ Succeeded
      \/ ~possible /\ Succeeded /\ UNCHANGED file

\* restore_staged_log, restore_pending_to_staging and the first half of
\* rollback_failed_backup_promotion: the way back, unless it is taken
Return(from, to) ==
  LET possible == Exists(from) /\ ~Exists(to)
  IN  \/ possible /\ Rename(from, to)
      \/ possible /\ Failed
      \/ ~possible /\ Succeeded /\ UNCHANGED file

Goto(step) == pc' = step /\ UNCHANGED <<call, phase, promoting>>

\* maybe_rotate_log has returned, with or without an error: log() goes on to
\* write, commit_inner() is done
EndRotation ==
  /\ pc' = IF call = "log" THEN "append" ELSE "idle"
  /\ UNCHANGED <<call, phase, promoting>>

\* recover_interrupted_rotation has returned Ok to maybe_rotate_log (the
\* first time) or to rotate_log_to_backup (again)
Recovered ==
  /\ pc' = IF phase = "first" THEN "check" ELSE "move"
  /\ promoting' = FALSE
  /\ UNCHANGED <<call, phase>>

\* recover_pending_backup_promotion has returned Ok
PendingRecovered == Goto(IF promoting THEN "stage" ELSE "interrupted")

\* promote_staging_to_backup has returned an error: only the rotation itself
\* puts the staged log back
PromotionFailed ==
  IF phase = "rotate" THEN Goto("restore") ELSE EndRotation

\* Mutant for NoGap: the error is logged and the caller goes on.
PendingFailedIgnored == PendingRecovered

\* recover_pending_backup_promotion has returned an error
PendingFailed == IF promoting THEN PromotionFailed ELSE EndRotation

-----------------------------------------------------------------------------
Init ==
  /\ file = [name \in {} |-> {}]
  /\ written = 0
  /\ running = FALSE
  /\ call = "commit" /\ pc = "idle" /\ phase = "first" /\ promoting = FALSE
  /\ clean = TRUE

Begin(which, step) ==
  /\ pc = "idle"
  /\ call' = which /\ pc' = step /\ phase' = "first" /\ promoting' = FALSE
  /\ clean' = TRUE
  /\ UNCHANGED <<file, written, running>>

\* commit_inner: at the start of the process, or when settings are applied
BeginCommit == Begin("commit", "open")

\* log
BeginLog == running /\ written < MaxEvents /\ Begin("log", "pending")

\* commit_inner: open_debug_log creates the file before anything is recovered
Open ==
  /\ pc = "open"
  /\ \/ /\ file' = With("active", Content("active"))
        /\ running' = TRUE
        /\ UNCHANGED <<written, clean>>
        /\ Goto("pending")
     \/ Failed /\ Goto("idle")

-----------------------------------------------------------------------------
(* recover_pending_backup_promotion.                                       *)

\* a pending segment, and the backup still under its own name
RetireLeftBackup ==
  /\ pc = "pending"
  /\ Exists("pending") /\ Exists("backup") /\ ~Exists("retired")
  /\ \/ Rename("backup", "retired") /\ Goto("adopt")
     \/ Failed /\ PendingFailed

\* all three: the retired one is the oldest
DropOlderRetired ==
  /\ pc = "pending"
  /\ Exists("pending") /\ Exists("backup") /\ Exists("retired")
  /\ Remove("retired")
  /\ Goto("adopt")

\* the pending segment becomes the backup
AdoptPending ==
  /\ \/ pc = "adopt"
     \/ pc = "pending" /\ Exists("pending") /\ ~Exists("backup")
  /\ \/ Rename("pending", "backup") /\ Goto("purge")
     \/ Failed /\ PendingFailed

\* no pending segment: the retired backup comes back
ReinstateRetired ==
  /\ pc = "pending"
  /\ ~Exists("pending") /\ Exists("retired") /\ ~Exists("backup")
  /\ \/ Rename("retired", "backup") /\ PendingRecovered
     \/ Failed /\ PendingFailed

\* Mutant for OnePassRepairs: a retired file is only removed when a pending
\* one is found with it.
PurgeRetiredAfterAdopt ==
  /\ \/ pc = "purge"
     \/ pc = "pending" /\ ~Exists("pending") /\ (Exists("backup") \/ ~Exists("retired"))
  /\ IF pc = "purge" THEN Remove("retired") ELSE Succeeded /\ UNCHANGED file
  /\ PendingRecovered

\* the backup is in place: the retired one, if there still is one, can go
PurgeRetired ==
  /\ \/ pc = "purge"
     \/ pc = "pending" /\ ~Exists("pending") /\ (Exists("backup") \/ ~Exists("retired"))
  /\ Remove("retired")
  /\ PendingRecovered

-----------------------------------------------------------------------------
(* The rest of recover_interrupted_rotation.                               *)

NothingStaged ==
  /\ pc = "interrupted"
  /\ ~Exists("staging")
  /\ Recovered
  /\ UNCHANGED <<file, written, running, clean>>

\* no active log, and a backup: the rotation is undone
UndoRotation ==
  /\ pc = "interrupted"
  /\ Exists("staging") /\ ~Exists("active") /\ Exists("backup")
  /\ Return("staging", "active")
  /\ Recovered

\* an active log was started, or there is no backup: the rotation is finished
FinishRotation ==
  /\ pc = "interrupted"
  /\ Exists("staging")
  /\ Exists("active") \/ ~Exists("backup")
  /\ pc' = "pending" /\ promoting' = TRUE
  /\ UNCHANGED <<call, phase, file, written, running, clean>>

-----------------------------------------------------------------------------
(* maybe_rotate_log and rotate_log_to_backup.                              *)

\* should_rotate_log: by size it must, by age it may; unless the metadata of
\* the file cannot be read
MustRotate == Cardinality(Content("active")) >= SegmentSize

KeepActive ==
  /\ pc = "check"
  /\ \/ ~MustRotate /\ UNCHANGED <<file, written, running, clean>>
     \/ Failed
  /\ EndRotation

BeginRotation ==
  /\ pc = "check"
  /\ Exists("active")
  /\ pc' = "pending" /\ phase' = "again"
  /\ UNCHANGED <<call, promoting, file, written, running, clean>>

\* the file moves, or not: an error, or a staging file the recovery has left
MoveActive ==
  /\ pc = "move"
  /\ \/ /\ ~Exists("staging")
        /\ Rename("active", "staging")
        /\ pc' = "pending" /\ phase' = "rotate" /\ promoting' = TRUE
        /\ UNCHANGED call
     \/ Failed /\ EndRotation

RestoreActive ==
  /\ pc = "restore"
  /\ Return("staging", "active")
  /\ EndRotation

-----------------------------------------------------------------------------
(* promote_staging_to_backup, after the recovery it begins with.           *)

Stage ==
  /\ pc = "stage"
  /\ \/ Rename("staging", "pending") /\ Goto("keep")
     \/ Failed /\ PromotionFailed

\* Mutant for IInv: backups are numbered, and the older one is kept.
KeepBackupNumbered ==
  /\ pc = "keep"
  /\ \/ Rename("backup", "backup2")
     \/ ~Exists("backup") /\ UNCHANGED <<file, written, running, clean>>
  /\ Goto("commit")

\* Mutant for PriorBackupKept: the prior backup is removed to make room.
KeepBackupRemoved ==
  /\ pc = "keep"
  /\ Remove("backup")
  /\ Goto("commit")

\* the prior backup is set aside until the pending segment is in its place
KeepBackup ==
  /\ pc = "keep"
  /\ \/ Rename("backup", "retired") /\ Goto("commit")
     \/ Exists("backup") /\ Failed /\ Goto("unstage")
     \/ /\ ~Exists("backup")
        /\ Goto("commit")
        /\ UNCHANGED <<file, written, running, clean>>

CommitBackup ==
  /\ pc = "commit"
  /\ \/ Rename("pending", "backup") /\ Goto("sweep")
     \/ Failed /\ Goto("undo")

\* the promotion returns Ok to the recovery or to the rotation it was part of
SweepRetired ==
  /\ pc = "sweep"
  /\ Remove("retired")
  /\ IF phase = "rotate" THEN EndRotation ELSE Recovered

RollBackBackup ==
  /\ pc = "undo"
  /\ Return("retired", "backup")
  /\ Goto("unstage")

RollBackStaging ==
  /\ pc = "unstage"
  /\ Return("pending", "staging")
  /\ PromotionFailed

-----------------------------------------------------------------------------
\* log, after maybe_rotate_log: written, created but not written, or neither
AppendEvent ==
  /\ pc = "append"
  /\ \/ /\ written' = written + 1
        /\ file' = With("active", Content("active") \cup {written + 1})
        /\ UNCHANGED <<running, clean>>
     \/ /\ file' = With("active", Content("active"))
        /\ clean' = FALSE
        /\ UNCHANGED <<written, running>>
     \/ Failed
  /\ Goto("idle")

\* the process dies; the files stay
Crash ==
  /\ running \/ pc # "idle"
  /\ running' = FALSE
  /\ pc' = "idle"
  /\ clean' = FALSE
  /\ UNCHANGED <<call, phase, promoting, file, written>>

RecoverStep ==
  \/ RetireLeftBackup \/ DropOlderRetired \/ AdoptPending \/ ReinstateRetired
  \/ PurgeRetired \/ NothingStaged \/ UndoRotation \/ FinishRotation

RotateStep == KeepActive \/ BeginRotation \/ MoveActive \/ RestoreActive

PromoteStep ==
  Stage \/ KeepBackup \/ CommitBackup \/ SweepRetired \/ RollBackBackup \/ RollBackStaging

Next ==
  \/ BeginCommit \/ BeginLog \/ Open
  \/ RecoverStep \/ RotateStep \/ PromoteStep
  \/ AppendEvent \/ Crash

Spec == Init /\ [][Next]_vars

-----------------------------------------------------------------------------
(* What the rotation promises.                                             *)

TypeOK ==
  /\ DOMAIN file \subseteq Names
  /\ file \in [DOMAIN file -> SUBSET (1..written)]
  /\ written \in Nat
  /\ running \in BOOLEAN
  /\ call \in {"log", "commit"}
  /\ pc \in Steps
  /\ phase \in {"first", "again", "rotate"}
  /\ promoting \in BOOLEAN
  /\ clean \in BOOLEAN

\* The names from the oldest content to the newest.
Age == [retired |-> 1, backup |-> 2, pending |-> 3, staging |-> 4, active |-> 5]

\* Whatever crashed or failed on the way, every event is in one file at most,
\* and the events of a file are older than those of the files a rotation
\* empties later: recovery may choose by name alone, because a name never
\* holds older events than the name it would replace.
OlderNamesOlderEvents ==
  \A a, b \in Names : Age[a] < Age[b] =>
    \A x \in Content(a), y \in Content(b) : x < y

\* A retired file beside a backup is only waiting to be removed, and stays as
\* long as its removal fails.  Without it: events are lost from the old end
\* only, never between two that are still there.
Kept ==
  UNION {file[name] : name \in DOMAIN file \ (IF Exists("backup") THEN {"retired"} ELSE {})}

NoGap == \A e \in 1..written : e \notin Kept => \A x \in Kept : e < x

\* "Without deleting the prior backup until the staged segment is committed
\* at the backup path" (promote_staging_to_backup): a step destroys events
\* only when a later committed segment stays, as the backup or as the one a
\* promotion has set aside and can still bring back.
PriorBackupKept ==
  [][\A e \in Stored \ Stored' :
       \E name \in {"backup", "retired"} \cap DOMAIN file' :
         \A x \in file'[name] : e < x]_vars

\* Where the recovery does not look before it acts, this is what it relies on.
Prepared ==
  /\ pc \in {"purge", "sweep"} => Exists("backup") /\ ~Exists("pending")
  /\ pc = "stage" => ~Exists("pending")

\* When a pass of maybe_rotate_log met no failure, it has repaired whatever
\* earlier calls and crashes left behind: no temporary file remains, and the
\* file that log() is about to write to is not due.
OnePassRepairs ==
  pc = "append" /\ clean =>
    /\ \A name \in Temporary : ~Exists(name)
    /\ Cardinality(Content("active")) < SegmentSize
\* How far a call without a failure has got with the files that other calls
\* left: what each file operation finds already repaired.
CleanPass ==
  /\ phase = "rotate" => promoting /\ pc \notin {"open", "interrupted", "check", "move"}
  /\ clean =>
       /\ pc \notin {"undo", "unstage", "restore"}
       /\ pc \in {"interrupted", "check", "move", "stage", "keep"} => ~Exists("retired")
       /\ pc \in {"interrupted", "check", "move"} => ~Exists("pending")
       /\ pc \in {"check", "move", "keep", "commit", "sweep"} => ~Exists("staging")
       /\ phase = "rotate" /\ pc \notin {"append", "idle"} => ~Exists("active")

\* The inductive invariant: the names tell the ages, nothing is missing in
\* between, no rename meets a file it should not replace, and a call that
\* meets no failure repairs as it goes.
IInv ==
  TypeOK /\ OlderNamesOlderEvents /\ NoGap /\ Prepared /\ CleanPass /\ OnePassRepairs
=============================================================================
