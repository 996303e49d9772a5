-------------------------------- MODULE Backups --------------------------------
(***************************************************************************)
(* The backups of one text with unsaved changes (hot exit):                *)
(* WorkingCopyBackupTracker, which makes and discards them while the user  *)
(* works and when the window closes, and WorkingCopyBackupServiceImpl with *)
(* its queue of file operations and its table of the backups it knows of.  *)
(* The window can close, crash, and start again.                           *)
(*                                                                         *)
(* One action is one callback up to its next await.  Texts are numbered as *)
(* they are typed.  A save begins and ends; what it does in between is the *)
(* matter of TextFile.                                                     *)
(*                                                                         *)
(* Bounds: MaxTexts, MaxSaves, MaxReopens, MaxCloses, MaxCrashes and       *)
(* MaxFailures bound what is typed, saved, reopened, the closing of the    *)
(* window, crashes, and failures of the disk.                              *)
(***************************************************************************)
EXTENDS Naturals, Sequences

CONSTANTS
  None, Partial,      \* what the backup file may hold besides a text
  MaxTexts, MaxSaves, MaxReopens, MaxCloses, MaxCrashes, MaxFailures

ASSUME NameAssumption ==
  /\ None # Partial /\ None \notin Nat /\ Partial \notin Nat
  /\ None \notin [version : Nat, mtime : Nat \cup {None}, text : Nat \cup {Partial}]
ASSUME BoundAssumption == MaxTexts \in Nat

VARIABLES
  text, saved,        \* what the editor shows, what the file holds
  dirty,
  mtime,              \* of the file, as the working copy knows it
  contentVersion,     \* mapWorkingCopyToContentVersion
  editor,             \* whether the text is open, or waits in its backup since the start
  saving,             \* the save that is writing the file, and the version it writes
  timer,              \* the tracker's pending backup, before it is queued
  queue,              \* ioOperationQueues, first in line first
  file,               \* the backup file
  model,              \* what the service knows of it: version and meta, or None;
                      \* its text is there for the properties only
  tracker,            \* isReady, and after that whether unrestoredBackups is empty
  phase,              \* how far the window is in closing
  bare,               \* history: an operation failed, or was given up for a shutdown
                      \* that did not happen, or was not made because the tracker was
                      \* not ready, and none has been scheduled since
  late,               \* history: the text became unsaved too late, the user would not
                      \* wait, or the window crashed
  slow,               \* history: the save that made the text a saved one ended when the
                      \* window was past saving
  raced,              \* history: a backup of another text was taken for this one's, the
                      \* folder went while a backup was being written, or writing a
                      \* text over its own backup failed
  used                \* how much of each bound is used

copy == <<text, saved, dirty, mtime, contentVersion, editor, saving>>
store == <<queue, file, model>>
history == <<bare, late, slow, raced>>
vars == <<copy, timer, store, tracker, phase, history, used>>

Up == phase = "up"
Running == phase # "down"

Started == \E i \in DOMAIN queue : queue[i].started
NoTimer == [step |-> "no", text |-> 0]
NotSaving == [going |-> FALSE, text |-> 0, version |-> 0]
Backup(t, final) == [kind |-> "backup", text |-> t, version |-> contentVersion,
                     mtime |-> mtime, cancelled |-> FALSE, started |-> FALSE, final |-> final]
Discard(final) == [kind |-> "discard", text |-> 0, version |-> 0, mtime |-> 0,
                   cancelled |-> FALSE, started |-> FALSE, final |-> final]

Init ==
  /\ text = 0 /\ saved = 0 /\ dirty = FALSE /\ mtime = 0 /\ contentVersion = 0
  /\ editor = "closed" /\ saving = NotSaving
  /\ timer = NoTimer /\ queue = <<>> /\ file = None /\ model = None
  /\ tracker = "starting" /\ phase = "up"
  /\ bare = FALSE /\ late = FALSE /\ slow = FALSE /\ raced = FALSE
  /\ used = [texts |-> 0, saves |-> 0, reopens |-> 0, closes |-> 0, crashes |-> 0,
             failures |-> 0]

Use(what, bound) == used[what] < bound /\ used' = [used EXCEPT ![what] = @ + 1]

----------------------------------------------------------------------------
(* The tracker. *)

\* The tracker cancels its own operations, not those of the shutdown.
Cancelled(final) == [i \in DOMAIN queue |->
                       [queue[i] EXCEPT !.cancelled = @ \/ queue[i].final = final]]

\* Mutant: nothing new is scheduled beside what is pending.
ScheduleBackupAlone ==
  /\ timer' = IF queue = <<>> THEN [step |-> "waiting", text |-> 0] ELSE timer
  /\ bare' = FALSE
  /\ queue' = Cancelled(FALSE)

\* scheduleBackup: whatever was pending is cancelled.
ScheduleBackup ==
  /\ timer' = [step |-> "waiting", text |-> 0]
  /\ bare' = FALSE
  /\ queue' = Cancelled(FALSE)

\* Mutant: the deletion does not wait its turn.
DiscardBackupFirst ==
  /\ timer' = NoTimer
  /\ bare' = FALSE
  /\ queue' = <<Discard(FALSE)>> \o Cancelled(FALSE)

\* discardBackup: whatever was pending is cancelled.
DiscardBackup ==
  /\ timer' = NoTimer
  /\ bare' = FALSE
  /\ queue' = Append(Cancelled(FALSE), Discard(FALSE))

Unscheduled == timer' = timer /\ queue' = queue /\ bare' = bare

\* The tracker takes no notice while onFinalBeforeShutdown is at work, nor
\* after onWillShutdown.
Suspended == phase \notin {"up", "leaving"}

\* The shutdown has not looked yet at what is unsaved, or will look again.
Saving == {"up", "saving", "usersaving", "asking"}

\* The user types.
Type ==
  /\ Running /\ editor = "open" /\ Use("texts", MaxTexts)
  /\ text' = used'.texts /\ dirty' = TRUE /\ contentVersion' = contentVersion + 1
  /\ IF Suspended THEN Unscheduled ELSE ScheduleBackup
  /\ late' = (late \/ phase \notin Saving \cup {"backup"})
  /\ slow' = FALSE
  /\ UNCHANGED <<saved, mtime, editor, saving, file, model, tracker, phase, raced>>

\* The user, an auto save or the shutdown has the text saved.
BeginSave ==
  /\ Running /\ dirty /\ ~saving.going /\ Use("saves", MaxSaves)
  /\ saving' = [going |-> TRUE, text |-> text, version |-> contentVersion]
  /\ UNCHANGED <<text, saved, dirty, mtime, contentVersion, editor, timer, store, tracker, phase,
                 history>>

\* handleSaveSuccess.
SaveEnds ==
  /\ Running /\ saving.going
  /\ saving' = NotSaving /\ saved' = saving.text /\ mtime' = mtime + 1
  /\ \/ /\ dirty /\ saving.version = contentVersion
        /\ dirty' = FALSE
        /\ IF Suspended THEN Unscheduled ELSE DiscardBackup
        /\ slow' = (phase \notin Saving)
     \/ /\ ~dirty \/ saving.version # contentVersion
        /\ Unscheduled /\ UNCHANGED <<dirty, slow>>
  /\ UNCHANGED <<text, contentVersion, editor, file, model, tracker, phase, late, raced, used>>

\* handleSaveError: the text is unsaved, also if it was reverted meanwhile.
SaveFails ==
  /\ Running /\ saving.going /\ Use("failures", MaxFailures)
  /\ saving' = NotSaving /\ dirty' = TRUE
  /\ IF dirty \/ Suspended THEN Unscheduled ELSE ScheduleBackup
  /\ late' = (late \/ (~dirty /\ phase \notin Saving))
  /\ UNCHANGED <<text, saved, mtime, contentVersion, editor, file, model, tracker, phase, slow,
                 raced>>

Save == BeginSave \/ SaveEnds \/ SaveFails

\* The text is reverted; one that is being saved is not read again.
Revert ==
  /\ Up /\ dirty
  /\ dirty' = FALSE
  /\ \/ saving.going /\ UNCHANGED <<text, contentVersion>>
     \/ /\ ~saving.going /\ text' = saved
        /\ contentVersion' = IF text = saved THEN contentVersion ELSE contentVersion + 1
  /\ DiscardBackup
  /\ UNCHANGED <<saved, mtime, editor, saving, file, model, tracker, phase, late, slow, raced, used>>

\* The editor is closed: versions start anew.
CloseEditor ==
  /\ Up /\ editor = "open" /\ ~dirty /\ ~saving.going /\ Use("reopens", MaxReopens)
  /\ editor' = "closed" /\ contentVersion' = 0
  /\ DiscardBackup
  /\ UNCHANGED <<text, saved, dirty, mtime, saving, file, model, tracker, phase, late, slow, raced>>

Readable == file \notin {None, Partial}

\* The text is read from its backup, in turn, or there is none and it is read
\* from the file.  A text that is restored is unsaved, and backed up again.
OpenEditor ==
  /\ Up /\ editor # "open" /\ queue = <<>>
  /\ editor' = "open"
  /\ \/ /\ Readable /\ model # None
        /\ text' = file /\ dirty' = TRUE /\ model' = [model EXCEPT !.mtime = mtime]
        /\ ScheduleBackup
     \/ /\ ~Readable \/ model = None
        /\ text' = saved /\ Unscheduled /\ UNCHANGED <<dirty, model>>
  /\ UNCHANGED <<saved, mtime, contentVersion, saving, file, tracker, phase, late, slow, raced, used>>

\* resolveBackupsToRestore lists the backups, once nothing is in the queue.
Ready ==
  /\ Running /\ tracker = "starting" /\ queue = <<>>
  /\ tracker' = IF Readable /\ model # None THEN "ready" ELSE "restored"
  /\ UNCHANGED <<copy, timer, store, phase, history, used>>

\* restoreBackups has opened an editor for each.
Restored ==
  /\ Running /\ tracker = "ready" /\ editor = "open"
  /\ tracker' = "restored"
  /\ UNCHANGED <<copy, timer, store, phase, history, used>>

\* Mutant: a backup of an earlier content is taken for one of this content.
HasAny(v, m) == model # None

\* WorkingCopyBackupsModel.has.
Has(v, m) == model # None /\ model.version = v /\ model.mtime = m

\* The text is taken when the timer fires.
TimerFires ==
  /\ Running /\ timer.step = "waiting"
  /\ timer' = IF dirty THEN [step |-> "snapshot", text |-> text] ELSE NoTimer
  /\ UNCHANGED <<copy, store, tracker, phase, history, used>>

\* A backup of the table under the same version is taken for this one.
Taken(v, t) == raced' = (raced \/ (model.version = v /\ model.text # t) \/ Started)

QueueBackup ==
  /\ Running /\ timer.step = "snapshot"
  /\ timer' = NoTimer
  /\ \/ Has(contentVersion, mtime) /\ Taken(contentVersion, timer.text) /\ UNCHANGED queue
     \/ /\ ~Has(contentVersion, mtime)
        /\ queue' = Append(queue, Backup(timer.text, FALSE))
        /\ UNCHANGED raced
  /\ UNCHANGED <<copy, file, model, tracker, phase, bare, late, slow, used>>

----------------------------------------------------------------------------
(* The service: one file operation at a time. *)

Busy == queue # <<>> /\ Running
Leave == queue' = Tail(queue)

\* What the end of an operation means for a window that is closing.
Ended(op, step) ==
  phase' = IF op.kind = "backup" /\ op.final /\ ~op.cancelled THEN step
           ELSE IF op.kind = "discard" /\ op.final /\ phase = "discarding" THEN "leaving"
           ELSE phase

\* The operation was cancelled, or its backup is there already.
SkipOperation ==
  /\ Busy /\ ~Head(queue).started
  /\ LET op == Head(queue)
         known == op.kind = "backup" /\ Has(op.version, op.mtime)
     IN /\ op.cancelled \/ known
        /\ \/ op.cancelled /\ UNCHANGED raced
           \/ ~op.cancelled /\ Taken(op.version, op.text)
        /\ Ended(op, "leaving")
  /\ Leave
  /\ UNCHANGED <<copy, timer, file, model, tracker, bare, late, slow, used>>

\* Writing truncates the file.
StartOperation ==
  /\ Busy /\ ~Head(queue).started
  /\ LET op == Head(queue)
     IN /\ ~op.cancelled
        /\ op.kind = "backup" => ~Has(op.version, op.mtime)
        /\ file' = IF op.kind = "backup" THEN Partial ELSE file
  /\ queue' = [queue EXCEPT ![1].started = TRUE]
  /\ UNCHANGED <<copy, timer, model, tracker, phase, history, used>>

\* Mutant: an operation that was cancelled while it ran is not noted.
NoteUncancelled(op) ==
  model' = IF op.cancelled THEN model
           ELSE IF op.kind = "backup"
                THEN [version |-> op.version, mtime |-> op.mtime, text |-> op.text]
           ELSE None

\* The table follows the file, cancelled or not.
Note(op) ==
  model' = IF op.kind = "backup"
           THEN [version |-> op.version, mtime |-> op.mtime, text |-> op.text]
           ELSE None

\* A file whose folder was deleted meanwhile may stay gone.
FinishOperation ==
  /\ Busy /\ Head(queue).started
  /\ LET op == Head(queue)
     IN /\ \/ op.kind = "backup" /\ file' = op.text
           \/ (op.kind = "discard" \/ file = None) /\ file' = None
        /\ Note(op)
        /\ Ended(op, "leaving")
  /\ Leave
  /\ UNCHANGED <<copy, timer, tracker, history, used>>

\* The disk fails: the operation is over, and nothing tries again.
OperationFails ==
  /\ Busy /\ Head(queue).started
  /\ Use("failures", MaxFailures)
  /\ LET op == Head(queue)
     IN /\ Ended(op, "failed")
        /\ raced' = (raced \/ (op.kind = "backup" /\ model # None
                                /\ model.version = op.version /\ model.text = op.text))
  /\ bare' = TRUE
  /\ Leave
  /\ UNCHANGED <<copy, timer, file, model, tracker, late, slow>>

Operate == SkipOperation \/ StartOperation \/ FinishOperation

----------------------------------------------------------------------------
(* Closing the window. *)

CancelAll == timer' = NoTimer /\ queue' = Cancelled(FALSE)

\* The window stays, and nothing of what was cancelled is scheduled again.
Veto == phase' = "up" /\ bare' = TRUE /\ slow' = FALSE /\ queue' = queue

\* onFinalBeforeShutdown, with or without auto save and hot exit.
Close ==
  /\ Up /\ Use("closes", MaxCloses)
  /\ CancelAll
  /\ \/ ~dirty /\ phase' = "clearing"
     \/ dirty /\ phase' \in {"saving", "backup", "asking"}
  /\ late' = FALSE /\ bare' = FALSE
  /\ UNCHANGED <<copy, file, model, tracker, slow, raced>>

\* hasBackupSync is asked without the meta.
BackupExists == model # None /\ model.version = contentVersion

\* backupBeforeShutdown: the backup may exist.
BackupBeforeShutdown ==
  /\ phase = "backup"
  /\ \/ BackupExists /\ Taken(contentVersion, text) /\ phase' = "leaving" /\ UNCHANGED queue
     \/ /\ ~BackupExists
        /\ queue' = Append(queue, Backup(text, TRUE))
        /\ phase' = "backing" /\ UNCHANGED raced
  /\ UNCHANGED <<copy, timer, file, model, tracker, bare, late, slow, used>>

\* The user does not want to wait for the backup, and is asked what to do.
StopWaiting ==
  /\ phase = "backing" /\ phase' = "asking"
  /\ queue' = Cancelled(TRUE)
  /\ UNCHANGED <<copy, timer, file, model, tracker, history, used>>

\* noVeto, discardBackupsBeforeShutdown: the backup goes, if the tracker is ready.
NoVeto ==
  /\ \/ tracker = "starting" /\ phase' = "leaving" /\ bare' = TRUE /\ queue' = queue
     \/ /\ tracker # "starting"
        /\ phase' = "discarding" /\ bare' = bare /\ queue' = Append(queue, Discard(TRUE))
  /\ slow' = slow

\* doSaveAllBeforeShutdown has ended, whether or not it saved the text, or the
\* user does not want to wait for it: a save that has begun goes on.
SavedOrNot ==
  /\ \/ phase = "saving" /\ ~dirty /\ NoVeto
     \/ /\ phase = "saving" /\ dirty /\ phase' \in {"backup", "asking"}
        /\ UNCHANGED <<queue, bare, slow>>
     \/ phase = "usersaving" /\ ~dirty /\ NoVeto
     \/ phase = "usersaving" /\ dirty /\ Veto
  /\ UNCHANGED <<copy, timer, file, model, tracker, late, raced, used>>

\* confirmBeforeShutdown.  A text that has been saved meanwhile is not counted
\* as saved.
Confirm ==
  /\ phase = "asking"
  /\ \/ dirty /\ phase' = "usersaving" /\ UNCHANGED <<queue, bare, slow>>
     \/ Veto
  /\ UNCHANGED <<copy, timer, file, model, tracker, late, raced, used>>

DontSave ==
  /\ phase = "asking"
  /\ dirty' = FALSE
  /\ NoVeto
  /\ UNCHANGED <<text, saved, mtime, contentVersion, editor, saving, timer, file, model, tracker,
                 late, raced, used>>

\* showErrorDialog.
Failed ==
  /\ phase = "failed"
  /\ \/ Veto /\ UNCHANGED late
     \/ phase' = "leaving" /\ late' = TRUE /\ UNCHANGED <<queue, bare, slow>>
  /\ UNCHANGED <<copy, timer, file, model, tracker, raced, used>>

\* The user does not want to wait for backups to go.
StopDiscarding ==
  /\ phase \in {"discarding", "clearing"} /\ phase' = "leaving"
  /\ late' = TRUE
  /\ UNCHANGED <<copy, timer, store, tracker, bare, slow, raced, used>>

\* Mutant: the folder goes also before the tracker has restored the backup.
DeleteFolderAnyway ==
  /\ phase = "clearing" /\ phase' = "leaving"
  /\ file' = None /\ model' = None
  /\ raced' = (raced \/ Started)
  /\ UNCHANGED <<copy, timer, queue, tracker, bare, late, slow, used>>

\* discardBackups deletes the folder, without waiting in the queue, unless the
\* tracker has not restored the backup yet.
DeleteFolder ==
  /\ phase = "clearing" /\ phase' = "leaving"
  /\ \/ /\ tracker = "restored"
        /\ file' = None /\ model' = None
        /\ raced' = (raced \/ Started)
        /\ UNCHANGED <<bare, used>>
     \/ /\ tracker = "restored"
        /\ Use("failures", MaxFailures) /\ bare' = TRUE
        /\ UNCHANGED <<file, model, raced>>
     \/ /\ tracker # "restored" /\ bare' = TRUE
        /\ UNCHANGED <<file, model, raced, used>>
  /\ UNCHANGED <<copy, timer, queue, tracker, late, slow>>

\* onWillShutdown: what is pending is cancelled, for good.
WillShutdown ==
  /\ phase = "leaving" /\ phase' = "joining"
  /\ CancelAll
  /\ UNCHANGED <<copy, file, model, tracker, history, used>>

Closing == \/ BackupBeforeShutdown \/ StopWaiting \/ SavedOrNot \/ Confirm \/ DontSave \/ Failed
           \/ StopDiscarding \/ DeleteFolder \/ WillShutdown

\* What runs is cut off: the text that was being written is in the file or not.
CutOff ==
  /\ phase' = "down" /\ timer' = NoTimer /\ queue' = <<>> /\ saving' = NotSaving
  /\ saved' = saved \/ (saving.going /\ saved' = saving.text)

\* Whatever the window has waited for (joinBackups, joinState), the user may
\* have it leave now.
Quit == /\ phase = "joining" /\ CutOff
        /\ UNCHANGED <<text, dirty, mtime, contentVersion, editor, file, model, tracker, history, used>>

----------------------------------------------------------------------------
(* Crash and start. *)

Crash == /\ Running /\ Use("crashes", MaxCrashes)
         /\ CutOff /\ late' = TRUE
         /\ UNCHANGED <<text, dirty, mtime, contentVersion, editor, file, model, tracker, bare, slow,
                        raced>>

\* The table knows the files of the folder, and their meta once they are read.
Start ==
  /\ phase = "down" /\ phase' = "up" /\ tracker' = "starting"
  /\ text' = IF Readable THEN file ELSE saved
  /\ editor' = IF Readable THEN "unrestored" ELSE "closed"
  /\ dirty' = FALSE /\ contentVersion' = 0
  /\ model' = CASE Readable -> [version |-> 0, mtime |-> mtime, text |-> file]
                [] file = Partial -> [version |-> 0, mtime |-> None, text |-> Partial]
                [] OTHER -> None
  /\ bare' = FALSE /\ late' = FALSE /\ slow' = FALSE /\ raced' = FALSE
  /\ UNCHANGED <<saved, mtime, saving, timer, queue, file, used>>

----------------------------------------------------------------------------

Work == TimerFires \/ QueueBackup \/ Operate

Next == \/ Type \/ Save \/ Revert \/ CloseEditor \/ OpenEditor \/ Ready \/ Restored
        \/ Work \/ OperationFails \/ Close \/ Closing \/ Quit \/ Crash \/ Start

Spec == Init /\ [][Next]_vars

\* Timers fire and the disk answers.
FairSpec == Spec /\ WF_vars(Work)

----------------------------------------------------------------------------
(* Properties *)

Texts == 0..MaxTexts
Operation == [kind : {"backup", "discard"}, text : Texts, version : Nat, mtime : Nat,
              cancelled : BOOLEAN, started : BOOLEAN, final : BOOLEAN]

(* Types; and only the first operation of the queue is running.            *)
TypeOK ==
  /\ text \in Texts /\ saved \in Texts /\ dirty \in BOOLEAN
  /\ mtime \in Nat /\ contentVersion \in Nat
  /\ editor \in {"open", "closed", "unrestored"}
  /\ saving \in [going : BOOLEAN, text : Texts, version : Nat]
  /\ timer \in [step : {"no", "waiting", "snapshot"}, text : Texts]
  /\ queue \in Seq(Operation)
  /\ file \in Texts \cup {None, Partial}
  /\ model # None => model \in [version : Nat, mtime : Nat \cup {None},
                               text : Texts \cup {Partial}]
  /\ tracker \in {"starting", "ready", "restored"}
  /\ phase \in {"up", "saving", "usersaving", "backup", "backing", "asking", "failed",
                "discarding", "clearing", "leaving", "joining", "down"}
  /\ {bare, late, slow, raced} \subseteq BOOLEAN
  /\ \A i \in DOMAIN queue : queue[i].started => i = 1

(* The table of known backups is never out of step with the file, whatever *)
(* was cancelled while it was being written or deleted (the notes in       *)
(* WorkingCopyBackupServiceImpl.backup and doDiscardBackup), as long as    *)
(* no write fails halfway and the folder is not deleted under a write.     *)
TableMatchesFile ==
  Running /\ ~Started /\ ~raced /\ file # Partial =>
    file = IF model = None THEN None ELSE model.text

Quiet == Up /\ timer = NoTimer /\ queue = <<>>

\* The text is in the editor only, or waits in its backup to be restored.
Unsaved == dirty \/ editor = "unrestored"

(* Once the tracker has nothing left to do, the unsaved text is in the     *)
(* backup, and a saved or reverted text has none that would come back: a   *)
(* crash from here on loses nothing.                                       *)
QuietTextIsBackedUp ==
  Quiet /\ ~bare /\ ~raced => IF Unsaved THEN file = text ELSE ~Readable

(* A window that has closed left the unsaved text in the backup, also one  *)
(* it had not restored yet, whatever was pending, failed or was cancelled  *)
(* before.  It left no backup of a text that was saved or reverted, unless *)
(* it could not be deleted or the tracker was not ready to do so; and when *)
(* the save ended only after the text had been backed up, the backup that  *)
(* is left holds what the file holds (onFinalBeforeShutdown,               *)
(* discardBackupsBeforeShutdown).                                          *)
QuitKeepsText ==
  phase = "down" /\ ~late /\ ~raced =>
    IF Unsaved THEN file = text ELSE bare \/ ~Readable \/ (slow /\ file = saved)

(* Whoever types and then pauses finds the text backed up, or saved, or    *)
(* has started to close the window.                                        *)
UnsavedTextIsBackedUp ==
  Up /\ dirty ~> file = text \/ ~dirty \/ ~Up \/ bare \/ raced
=============================================================================
