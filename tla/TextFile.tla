------------------------------- MODULE TextFile -------------------------------
(***************************************************************************)
(* Saving and reloading one open text file: TextFileEditorModel (its text, *)
(* its flags, its saves), the TaskSequentializer that runs its saves, the  *)
(* dirty write prevention of FileService.writeFile, and the reloads that   *)
(* TextFileEditorModelManager queues when the file changes on disk.        *)
(*                                                                         *)
(* One action is one callback up to its next await.  A text is who wrote   *)
(* it and a number; all texts typed here have one size, the others any of  *)
(* Sizes.  Every write gives the file a new modification time.             *)
(*                                                                         *)
(* Bounds: MaxEdits, MaxCalls, MaxOthers, MaxReverts and MaxFailures bound *)
(* edits and undos, calls of save, writes of other programs, reverts and   *)
(* failures of the disk.                                                   *)
(***************************************************************************)
EXTENDS Naturals, Sequences, SequencesExt

CONSTANTS
  Slots,        \* running saves: the code runs one, the model has room for more
  None, OwnSize, Sizes,
  MaxEdits, MaxCalls, MaxOthers, MaxReverts, MaxFailures

ASSUME SizeAssumption == OwnSize \in Nat \ {0} /\ Sizes \subseteq Nat \ {0}
ASSUME SlotAssumption == Slots # {} /\ {"queued", "done"} \cap Slots = {}
ASSUME NoneAssumption ==
  None \notin {"explicit", "auto", "overwrite"} \cup [id : Nat, by : Slots]
                \cup [mtime : Nat, size : Nat]
                \cup [dirty : BOOLEAN, conflict : BOOLEAN, error : BOOLEAN, saved : Nat]
                \cup [text : [by : {"us", "them", "nobody"}, n : Nat, size : Nat], mtime : Nat]

VARIABLES
  buffer,       \* the text in the editor and its alternative version id
  past,         \* the undo stack
  version,      \* versionId
  undid,        \* lastModelContentChangeFromUndoRedo is set
  dirty, inConflictMode, inErrorMode,
  bufferSavedVersionId,
  stat,         \* lastResolvedFileStat: modification time and size, as in the etag
  saves,        \* saveSequentializer and the saves it has to do with
  disk,         \* the file: its text and modification time
  event,        \* a change of the file is to be announced
  reloads,      \* size of modelResolveQueue
  reading,      \* the resolve that is under way
  reverting,    \* the flags a revert that is under way would restore, or None
  kept,         \* history: texts that were on disk or were given up by a revert
  shown,        \* history: the last text of another program that was in the editor
  astray,       \* history: one of the ways in which a clean model can differ from
                \* the file came up; each action that sets it says which
  used          \* how much of each bound is used

flags == <<dirty, inConflictMode, inErrorMode, bufferSavedVersionId>>
text == <<buffer, past, version>>
resolving == <<reloads, reading, reverting>>
history == <<kept, shown, astray>>
vars == <<text, undid, flags, stat, saves, disk, event, resolving, history, used>>

Own(n) == [by |-> "us", n |-> n, size |-> OwnSize]
Foreign(n, size) == [by |-> "them", n |-> n, size |-> size]
Truncated == [by |-> "nobody", n |-> 0, size |-> 0]

StatOf(file) == [mtime |-> file.mtime, size |-> file.text.size]

SaveKinds == {"explicit", "auto", "overwrite"}
NoSave == [step |-> "idle", id |-> 0, version |-> 0, kind |-> "explicit",
           text |-> Truncated, seen |-> [mtime |-> 0, size |-> 0], checked |-> 0,
           cancelled |-> FALSE]
NotReading == [step |-> "no", by |-> "reload", version |-> 0, etag |-> None, stat |-> None,
               found |-> None]

Init ==
  LET first == Foreign(0, OwnSize)
  IN /\ buffer = [alt |-> 1, text |-> first] /\ past = <<>> /\ version = 1
     /\ disk = [text |-> first, mtime |-> 0] /\ stat = StatOf(disk)
     /\ undid = FALSE /\ dirty = FALSE /\ inConflictMode = FALSE /\ inErrorMode = FALSE
     /\ bufferSavedVersionId = 1
     /\ saves = [running |-> None, queued |-> None,
                 ops |-> [s \in Slots |-> NoSave], calls |-> <<>>]
     /\ event = FALSE /\ reloads = 0 /\ reading = NotReading /\ reverting = None
     /\ kept = {first} /\ shown = 0 /\ astray = FALSE
     /\ used = [edits |-> 0, others |-> 0, reverts |-> 0, failures |-> 0]

Use(what, bound) == used[what] < bound /\ used' = [used EXCEPT ![what] = @ + 1]

----------------------------------------------------------------------------
(* Flags. *)

\* setDirty(FALSE): what the editor holds now is what is saved.
SetClean(alt) == /\ dirty' = FALSE /\ inConflictMode' = FALSE /\ inErrorMode' = FALSE
                 /\ bufferSavedVersionId' = alt

SetDirty == dirty' = TRUE /\ UNCHANGED <<inConflictMode, inErrorMode, bufferSavedVersionId>>

\* updateLastResolvedFileStat: never back in time.
UpdateStat(new) == stat' = IF stat.mtime <= new.mtime THEN new ELSE stat

----------------------------------------------------------------------------
(* TaskSequentializer and doSave.  These operators give the saves after a  *)
(* call; callers are numbered in the order of their calls, and calls holds *)
(* for each what its promise waits for.                                    *)

Busy(q) == q.running # None
IsRunning(q, id) == Busy(q) /\ q.running.id = id
Waiting(q, what) == {i \in DOMAIN q.calls : q.calls[i] = what}
Await(q, callers, what) ==
  [q EXCEPT !.calls = [i \in DOMAIN q.calls |-> IF i \in callers THEN what ELSE q.calls[i]]]

\* cancelRunning: only a save that has not got to its participants is cancelled.
CancelRunning(q) ==
  IF q.ops[q.running.by].step = "delay"
  THEN [q EXCEPT !.ops[q.running.by].cancelled = TRUE] ELSE q

Queue(q, kind, callers) ==
  [Await(CancelRunning(q), callers, "queued") EXCEPT !.queued = kind]

Start(q, kind, callers, step) ==
  LET s == CHOOSE slot \in Slots : q.ops[slot].step = "idle"
      op == [NoSave EXCEPT !.step = step, !.id = version, !.kind = kind]
  IN [Await(q, callers, s) EXCEPT !.running = [id |-> version, by |-> s], !.ops[s] = op]

\* doSave: refused while save participants run, joined to a save of the same
\* version, unnecessary unless dirty or forced, queued, or started.
DoSave(q, kind, callers, isDirty, step) ==
  IF \E s \in Slots : q.ops[s].step = "participants" THEN Await(q, callers, "done")
  ELSE IF IsRunning(q, version) THEN Await(q, callers, q.running.by)
  ELSE IF kind # "explicit" /\ ~isDirty THEN Await(q, callers, "done")
  ELSE IF Busy(q) THEN Queue(q, kind, callers)
  ELSE Start(q, kind, callers, step)

\* An auto save waits a while when the last change was an undo.
FirstSteps(kind) == {"participants"} \cup IF kind = "auto" /\ undid THEN {"delay"} ELSE {}

\* Mutant: whoever is done clears the running task.
DoneAnyway(q, id, isDirty, step) ==
  IF q.queued = None THEN [q EXCEPT !.running = None]
  ELSE DoSave([q EXCEPT !.running = None, !.queued = None], q.queued,
              Waiting(q, "queued"), isDirty, step)

\* Mutant: the queued save is left where it is.
DoneAlone(q, id, isDirty, step) ==
  IF IsRunning(q, id) THEN [q EXCEPT !.running = None] ELSE q

\* doneRunning and runQueued.
Done(q, id, isDirty, step) ==
  IF ~IsRunning(q, id) THEN q
  ELSE IF q.queued = None THEN [q EXCEPT !.running = None]
  ELSE DoSave([q EXCEPT !.running = None, !.queued = None], q.queued,
              Waiting(q, "queued"), isDirty, step)

\* The promise of save s settles, and with it those who wait for it: first
\* the write's, known by the version written, then that of the whole save.
Finish(s) ==
  LET op == saves.ops[s]
      freed == [Await(saves, Waiting(saves, s), "done") EXCEPT !.ops[s] = NoSave]
  IN \E step \in FirstSteps(IF saves.queued = None THEN "explicit" ELSE saves.queued) :
       saves' = Done(Done(freed, op.version, dirty', step), op.id, dirty', step)

----------------------------------------------------------------------------
(* People, save participants and other programs. *)

\* The user types, or a save participant edits the text.
Type ==
  /\ Use("edits", MaxEdits)
  /\ version' = version + 1
  /\ buffer' = [alt |-> version + 1, text |-> Own(version + 1)]
  /\ past' = Append(past, buffer)
  /\ SetDirty
  /\ UNCHANGED <<undid, stat, saves, disk, event, resolving, history>>

\* Undo back to the version that was saved last makes the model clean.
Undo ==
  /\ Use("edits", MaxEdits)
  /\ past # <<>>
  /\ buffer' = Last(past) /\ past' = Front(past) /\ version' = version + 1
  /\ undid' = TRUE
  /\ IF buffer'.alt = bufferSavedVersionId
     THEN SetClean(buffer'.alt) /\ astray' = (astray \/ buffer'.text # disk.text \/ Busy(saves))
     ELSE SetDirty /\ UNCHANGED astray
  /\ UNCHANGED <<stat, saves, disk, event, resolving, kept, shown>>

\* save: by the user, by auto save, or by the user who was told of a conflict.
Save(kind) ==
  /\ Len(saves.calls) < MaxCalls
  /\ kind = "overwrite" => inConflictMode
  /\ LET called == [saves EXCEPT !.calls = Append(@, "done")]
     IN IF kind = "auto" /\ (inConflictMode \/ inErrorMode)
        THEN saves' = called
        ELSE \E step \in FirstSteps(kind) :
               saves' = DoSave(called, kind, {Len(called.calls)}, dirty, step)
  /\ UNCHANGED <<text, undid, flags, stat, disk, event, resolving, history, used>>

OthersWrite(size) ==
  /\ Use("others", MaxOthers)
  /\ disk' = [text |-> Foreign(disk.mtime + 1, size), mtime |-> disk.mtime + 1]
  /\ kept' = kept \cup {disk'.text}
  /\ event' = TRUE
  /\ UNCHANGED <<text, undid, flags, stat, saves, resolving, shown, astray>>

----------------------------------------------------------------------------
(* A save. *)

\* A reload that came while the file was being saved has been dropped.
Abandon(s) ==
  /\ UNCHANGED flags
  /\ Finish(s)
  /\ astray' = (astray \/ (~dirty /\ buffer.text # disk.text))

DelayEnds(s) ==
  /\ saves.ops[s].step = "delay"
  /\ IF saves.ops[s].cancelled THEN Abandon(s)
     ELSE /\ saves' = [saves EXCEPT !.ops[s].step = "participants"]
          /\ UNCHANGED <<flags, astray>>
  /\ UNCHANGED <<text, undid, stat, disk, event, resolving, kept, shown, used>>

\* The user, or a participant, cancels the save.
ParticipantsCancel(s) ==
  /\ saves.ops[s].step = "participants"
  /\ Abandon(s)
  /\ UNCHANGED <<text, undid, stat, disk, event, resolving, kept, shown, used>>

\* The text is written as it is now.
BeginWrite(s) ==
  /\ saves.ops[s].step = "participants"
  /\ inErrorMode' = FALSE
  /\ saves' = [saves EXCEPT !.running = [id |-> version, by |-> s],
                            !.ops[s] = [@ EXCEPT !.step = "check", !.version = version,
                                                 !.text = buffer.text, !.seen = stat]]
  /\ UNCHANGED <<text, undid, dirty, inConflictMode, bufferSavedVersionId, stat, disk,
                 event, resolving, history, used>>

\* Mutant: the modification times are compared the wrong way round.
ModifiedBefore(op) == /\ op.kind # "overwrite"
                      /\ op.seen.mtime > disk.mtime /\ op.seen.size # disk.text.size
                      /\ op.text # disk.text

\* validateWriteFile: a newer file of another size, and of another text.
ModifiedSince(op) == /\ op.kind # "overwrite"
                     /\ op.seen.mtime < disk.mtime /\ op.seen.size # disk.text.size
                     /\ op.text # disk.text

\* Mutant: the error shows in the flags of errors only.
SaveErrorKeepsDirty(conflict) ==
  /\ inErrorMode' = TRUE /\ inConflictMode' = (inConflictMode \/ conflict)
  /\ UNCHANGED <<dirty, bufferSavedVersionId>>

\* handleSaveError.
SaveError(conflict) ==
  /\ dirty' = TRUE /\ inErrorMode' = TRUE
  /\ inConflictMode' = (inConflictMode \/ conflict)
  /\ UNCHANGED bufferSavedVersionId

Check(s) ==
  /\ saves.ops[s].step = "check"
  /\ IF ModifiedSince(saves.ops[s]) THEN SaveError(TRUE) /\ Finish(s)
     ELSE saves' = [saves EXCEPT !.ops[s] = [@ EXCEPT !.step = "write", !.checked = disk.mtime]]
          /\ UNCHANGED flags
  /\ UNCHANGED <<text, undid, stat, disk, event, resolving, history, used>>

Overwrite(new) == /\ disk' = [text |-> new, mtime |-> disk.mtime + 1]
                  /\ kept' = kept \cup {new}
                  /\ event' = TRUE

Write(s) ==
  /\ saves.ops[s].step = "write"
  /\ Overwrite(saves.ops[s].text)
  /\ saves' = [saves EXCEPT !.ops[s].step = "stat"]
  /\ UNCHANGED <<text, undid, flags, stat, resolving, shown, astray, used>>

\* The disk fails: before the write, after truncating the file, or after it.
WriteFails(s) ==
  /\ saves.ops[s].step \in {"check", "write", "stat"}
  /\ Use("failures", MaxFailures)
  /\ \/ UNCHANGED <<disk, kept, event>>
     \/ saves.ops[s].step = "write" /\ Overwrite(Truncated)
  /\ SaveError(FALSE) /\ Finish(s)
  /\ UNCHANGED <<text, undid, stat, resolving, shown, astray>>

\* Mutant: the model is clean even if it was changed while the file was written.
SucceededAnyway(op) == SetClean(buffer.alt)

\* handleSaveSuccess: clean, unless the model was changed meanwhile.
Succeeded(op) == IF op.version = version THEN SetClean(buffer.alt) ELSE UNCHANGED flags

\* The stat that ends the write may be of what another program wrote since.
WriteSucceeds(s) ==
  /\ saves.ops[s].step = "stat"
  /\ UpdateStat(StatOf(disk))
  /\ Succeeded(saves.ops[s])
  /\ astray' = (astray \/ disk.text # saves.ops[s].text)
  /\ Finish(s)
  /\ UNCHANGED <<text, undid, disk, event, resolving, kept, shown, used>>

SaveSteps(s) == DelayEnds(s) \/ BeginWrite(s) \/ Check(s) \/ Write(s) \/ WriteSucceeds(s)

----------------------------------------------------------------------------
(* Reloads and reverts. *)

\* Mutant: one reload too many is queued.
FileChangedOnceMore ==
  /\ event /\ event' = FALSE
  /\ reloads' = IF ~dirty /\ reloads <= 2 THEN reloads + 1 ELSE reloads
  /\ UNCHANGED <<text, undid, flags, stat, saves, disk, reading, reverting, history, used>>

\* The file changed: a clean model is reloaded.
FileChanged ==
  /\ event /\ event' = FALSE
  /\ reloads' = IF ~dirty /\ reloads <= 1 THEN reloads + 1 ELSE reloads
  /\ UNCHANGED <<text, undid, flags, stat, saves, disk, reading, reverting, history, used>>

Asked(by, etag) ==
  [step |-> "asked", by |-> by, version |-> version, etag |-> etag, stat |-> None, found |-> None]

\* resolve: never while the model is dirty or being saved.
ReloadStarts ==
  /\ reloads > 0 /\ reading.step = "no"
  /\ IF dirty \/ Busy(saves) THEN reloads' = reloads - 1 /\ UNCHANGED reading
     ELSE reading' = Asked("reload", stat) /\ UNCHANGED reloads
  /\ UNCHANGED <<text, undid, flags, stat, saves, disk, event, reverting, history, used>>

\* A revert of a model that is being saved reads nothing.
RevertReads(isDirty, before) ==
  IF isDirty \/ Busy(saves)
  THEN /\ reverting' = None /\ UNCHANGED reading
       /\ astray' = (astray \/ Busy(saves))
  ELSE /\ reverting' = before /\ reading' = Asked("revert", None)
       /\ UNCHANGED astray

Revert ==
  /\ Use("reverts", MaxReverts)
  /\ reverting = None
  /\ SetClean(buffer.alt)
  /\ kept' = kept \cup {buffer.text}
  /\ LET before == [dirty |-> dirty, conflict |-> inConflictMode, error |-> inErrorMode,
                    saved |-> bufferSavedVersionId]
     IN IF reading.step = "no"
        THEN RevertReads(FALSE, before)
        ELSE reverting' = before /\ UNCHANGED <<reading, astray>>
  /\ UNCHANGED <<text, undid, stat, saves, disk, event, reloads, shown>>

\* The revert had to wait for a reload.
RevertStarts ==
  /\ reverting # None /\ reading.step = "no"
  /\ RevertReads(dirty, reverting)
  /\ UNCHANGED <<text, undid, flags, stat, saves, disk, event, reloads, kept, shown, used>>

\* doReadFileStream: the file's stat and its text are awaited apart, and the
\* reading ends with both, or with a stat that is the one the model knows.
Have(st, found) ==
  reading' = [reading EXCEPT !.stat = st, !.found = found,
                !.step = IF st # None /\ (st = reading.etag \/ found # None)
                         THEN "read" ELSE "asked"]

ReadStat ==
  /\ reading.step = "asked" /\ reading.stat = None
  /\ Have(StatOf(disk), reading.found)
  /\ UNCHANGED <<text, undid, flags, stat, saves, disk, event, reloads, reverting, history, used>>

\* A reload waits for the stat first, a revert does not.
ReadText ==
  /\ reading.step = "asked" /\ reading.found = None
  /\ reading.etag = None \/ reading.stat # None
  /\ Have(reading.stat, disk)
  /\ UNCHANGED <<text, undid, flags, stat, saves, disk, event, reloads, reverting, history, used>>

ReadFile == ReadStat \/ ReadText

EndReading == /\ reading' = NotReading
              /\ reloads' = IF reading.by = "reload" THEN reloads - 1 ELSE reloads
              /\ reverting' = IF reading.by = "revert" THEN None ELSE reverting

\* Mutant: what was read replaces what was typed meanwhile.
ChangedBackwards == reading.version > version

ChangedMeanwhile == reading.version # version

\* resolveFromContent.
Replace(found, st) ==
  /\ UpdateStat(st)
  /\ IF found.text = buffer.text THEN UNCHANGED text
     ELSE /\ buffer' = [alt |-> version + 1, text |-> found.text]
          /\ past' = Append(past, buffer) /\ version' = version + 1
  /\ SetClean(buffer'.alt)
  /\ shown' = IF found.text.by = "them" /\ found.text.n > shown THEN found.text.n ELSE shown
  /\ astray' = (astray \/ dirty \/ Busy(saves) \/ found.mtime < stat'.mtime)

Resolve ==
  /\ reading.step = "read"
  /\ CASE reading.etag = reading.stat ->
            UpdateStat(reading.stat) /\ UNCHANGED <<text, flags, shown, astray>>
       [] reading.etag # reading.stat /\ ChangedMeanwhile ->
            UNCHANGED <<text, flags, stat, shown, astray>>
       [] OTHER -> Replace(reading.found, reading.stat)
  /\ EndReading
  /\ UNCHANGED <<undid, saves, disk, event, kept, used>>

\* The file cannot be read: a revert restores the flags it had reset, whatever
\* has become of the model since.
ReadFails ==
  /\ reading.step = "asked"
  /\ Use("failures", MaxFailures)
  /\ IF reading.by = "revert"
     THEN /\ dirty' = reverting.dirty /\ inConflictMode' = reverting.conflict
          /\ inErrorMode' = reverting.error /\ bufferSavedVersionId' = reverting.saved
          /\ astray' = (astray \/ ~reverting.dirty)
     ELSE UNCHANGED flags /\ astray' = TRUE
  /\ EndReading
  /\ UNCHANGED <<text, undid, stat, saves, disk, event, kept, shown>>

Reload == FileChanged \/ ReloadStarts \/ RevertStarts \/ ReadFile \/ Resolve

----------------------------------------------------------------------------

Next == \/ Type \/ Undo \/ Revert \/ Reload \/ ReadFails
        \/ \E kind \in SaveKinds : Save(kind)
        \/ \E size \in Sizes : OthersWrite(size)
        \/ \E s \in Slots : SaveSteps(s) \/ ParticipantsCancel(s) \/ WriteFails(s)

Spec == Init /\ [][Next]_vars

\* The disk answers, and save participants come to an end.
FairSpec == Spec /\ \A s \in Slots : WF_vars(SaveSteps(s))

----------------------------------------------------------------------------
(* Properties. *)

Texts == [by : {"us", "them", "nobody"}, n : Nat, size : Nat]
Stats == [mtime : Nat, size : Nat]
Files == [text : Texts, mtime : Nat]
Alts == [alt : Nat, text : Texts]

\* Every variable has its type.
TypeOK ==
  /\ buffer \in Alts /\ past \in Seq(Alts) /\ version \in Nat /\ undid \in BOOLEAN
  /\ dirty \in BOOLEAN /\ inConflictMode \in BOOLEAN /\ inErrorMode \in BOOLEAN
  /\ bufferSavedVersionId \in Nat /\ stat \in Stats
  /\ saves.running \in [id : Nat, by : Slots] \cup {None}
  /\ saves.queued \in SaveKinds \cup {None}
  /\ saves.ops \in [Slots ->
       [step : {"idle", "delay", "participants", "check", "write", "stat"}, id : Nat,
        version : Nat, kind : SaveKinds, text : Texts, seen : Stats,
        checked : Nat, cancelled : BOOLEAN]]
  /\ saves.calls \in Seq({"queued", "done"} \cup Slots)
  /\ disk \in Files /\ event \in BOOLEAN /\ reloads \in 0..2
  /\ reading.step \in {"no", "asked", "read"} /\ reading.by \in {"reload", "revert"}
  /\ reading.version \in Nat /\ reading.etag \in Stats \cup {None}
  /\ reading.stat \in Stats \cup {None} /\ reading.found \in Files \cup {None}
  /\ reverting \in [dirty : BOOLEAN, conflict : BOOLEAN, error : BOOLEAN, saved : Nat]
                     \cup {None}
  /\ kept \subseteq Texts /\ shown \in Nat /\ astray \in BOOLEAN
  /\ used \in [edits : Nat, others : Nat, reverts : Nat, failures : Nat]

Saving(s) == saves.ops[s].step # "idle"

\* However saves, auto saves and changes from save participants interleave,
\* no two saves are under way at a time, the sequentializer knows of the one
\* that is, and a save waits in its queue only behind it.
OneSaveAtATime ==
  /\ \A s \in Slots : Saving(s) => saves.running # None /\ saves.running.by = s
  /\ saves.running # None => Saving(saves.running.by)
  /\ saves.queued # None => saves.running # None

\* A model that is clean holds a text that has been on disk or that the user
\* gave up, although texts change while they are being saved and read.
CleanTextWasKept == ~dirty /\ ~astray => buffer.text \in kept

Settled == /\ ~dirty /\ ~event /\ saves.running = None
           /\ reading.step = "no" /\ reloads = 0 /\ reverting = None

\* When everything has been handled, a clean model shows the file as it is.
CleanTextIsOnDisk == Settled /\ ~astray => buffer.text = disk.text

\* A text of another program that the editor never showed is replaced only
\* when the user asks to overwrite it, unless it has the size the save knew of
\* or was written after the save had looked.
OthersKept ==
  [][\A s \in Slots : Write(s) /\ disk.text.by = "them" /\ disk.text.n > shown =>
       \/ saves.ops[s].kind = "overwrite"
       \/ saves.ops[s].seen.size = disk.text.size
       \/ saves.ops[s].checked < disk.mtime]_vars

\* What was typed while the file was being read is never replaced by it.
ReadKeepsTyping ==
  [][~astray /\ reading.step = "read" /\ buffer'.text # buffer.text /\ reading'.step = "no"
       => buffer.text \in kept]_vars

AllAnswered == \A i \in DOMAIN saves.calls : saves.calls[i] = "done"

\* Every call of save is answered, also one that was queued behind a save that
\* was cancelled or failed.
CallsAnswered == []<>AllAnswered
=============================================================================
