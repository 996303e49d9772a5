---------------------------- MODULE BackupsProofs ----------------------------
(***************************************************************************)
(* Proofs about Backups: its variables keep their types, the table of      *)
(* backups follows the file, and neither a tracker that has nothing left   *)
(* to do nor a window that has closed leaves the text without its backup:  *)
(* for any number of texts, closings, crashes and failures.                *)
(*                                                                         *)
(* TableMatchesFile says nothing while an operation runs, so it is not     *)
(* inductive.  Table adds what is true then: a backup that is being        *)
(* written has truncated the file, and a deletion has not touched it yet.  *)
(* A window that is down has an empty queue, so the next one starts from   *)
(* the file alone.                                                         *)
(*                                                                         *)
(* The two properties of the text need more: NumbersInv and CurrentInv     *)
(* say which backup is of the text there is now, so that one the table     *)
(* knows of is in the file; PlanInv says what the queue may hold in each   *)
(* phase of the window; and KeepInv that whatever is not safe yet is still *)
(* to be done.                                                             *)
(***************************************************************************)
EXTENDS Backups, TLAPS

Known == IF model = None THEN None ELSE model.text

\* Only the first operation of a queue has started.
InOrder(q) == q \in Seq(Operation) /\ \A i \in DOMAIN q : q[i].started => i = 1

BackupStarted(q) == q # <<>> /\ q[1].started /\ q[1].kind = "backup"

Table ==
  Running /\ ~raced =>
    /\ file = Partial \/ file = Known
    /\ BackupStarted(queue) => file = Partial

UsedOK == used \in [texts : Texts, saves : Nat, reopens : Nat, closes : Nat, crashes : Nat,
                    failures : Nat]

Phases == {"up", "saving", "usersaving", "backup", "backing", "asking", "failed",
           "discarding", "clearing", "leaving", "joining", "down"}

DownInv == phase = "down" => queue = <<>> /\ timer = NoTimer /\ saving = NotSaving

BackupsInv == TypeOK /\ UsedOK /\ DownInv /\ Table

----------------------------------------------------------------------------
(* Queues. *)

\* Cancelling operations leaves their kinds and their order alone.
LEMMA CancelledInOrder ==
  ASSUME InOrder(queue), NEW final \in BOOLEAN
  PROVE  /\ InOrder(Cancelled(final))
         /\ BackupStarted(Cancelled(final)) => BackupStarted(queue)
         /\ Len(Cancelled(final)) = Len(queue)
<1> DEFINE c == Cancelled(final)
<1>1. DOMAIN queue = 1..Len(queue) /\ Len(queue) \in Nat
  BY DEF InOrder
<1>2. \A i \in DOMAIN queue : /\ c[i] \in Operation
                              /\ c[i].started = queue[i].started
                              /\ c[i].kind = queue[i].kind
  <2> TAKE i \in DOMAIN queue
  <2>1. queue[i] \in Operation
    BY DEF InOrder
  <2>2. c[i] = [queue[i] EXCEPT !.cancelled = queue[i].cancelled \/ queue[i].final = final]
    BY DEF Cancelled
  <2>3. (queue[i].cancelled \/ queue[i].final = final) \in BOOLEAN
    OBVIOUS
  <2> QED BY <2>1, <2>2, <2>3 DEF Operation
<1>3. c \in Seq(Operation) /\ Len(c) = Len(queue) /\ DOMAIN c = DOMAIN queue
  BY <1>1, <1>2 DEF Cancelled
<1>4. InOrder(c)
  BY <1>2, <1>3 DEF InOrder
<1>5. BackupStarted(c) => BackupStarted(queue)
  <2> HAVE BackupStarted(c)
  <2>1. c # <<>> /\ c[1].started /\ c[1].kind = "backup"
    BY DEF BackupStarted
  <2>2. 1 \in DOMAIN queue
    BY <1>1, <1>3, <2>1
  <2> QED BY <1>2, <2>1, <2>2 DEF BackupStarted, InOrder
<1> QED BY <1>3, <1>4, <1>5

\* An operation is put behind the others before it starts.
LEMMA AppendInOrder ==
  ASSUME NEW q, InOrder(q), NEW op \in Operation, ~op.started
  PROVE  /\ InOrder(Append(q, op))
         /\ BackupStarted(Append(q, op)) => BackupStarted(q)
BY DEF InOrder, BackupStarted

\* Behind the first operation nothing has started.
LEMMA TailInOrder ==
  ASSUME NEW q, InOrder(q), q # <<>>
  PROVE  InOrder(Tail(q)) /\ ~BackupStarted(Tail(q))
         /\ \A i \in DOMAIN Tail(q) : ~Tail(q)[i].started
BY DEF InOrder, BackupStarted

\* The operations of tracker and shutdown.
LEMMA OperationsTyped ==
  ASSUME TypeOK, NEW final \in BOOLEAN, NEW t \in Texts
  PROVE  /\ Backup(t, final) \in Operation /\ ~Backup(t, final).started
         /\ Discard(final) \in Operation /\ ~Discard(final).started
BY BoundAssumption DEF TypeOK, Backup, Discard, Operation, Texts

----------------------------------------------------------------------------

LEMMA InitBackups == Init => BackupsInv
<1> HAVE Init
<1> USE NameAssumption, BoundAssumption DEF Init
<1>1. TypeOK
  <2>1. 0 \in Texts /\ text = 0 /\ saved = 0 /\ file = None /\ model = None
    BY DEF Texts
  <2>2. timer \in [step : {"no", "waiting", "snapshot"}, text : Texts]
    BY <2>1 DEF NoTimer
  <2>3. queue \in Seq(Operation) /\ DOMAIN queue = {}
    OBVIOUS
  <2>4. {bare, late, slow, raced} \subseteq BOOLEAN
    OBVIOUS
  <2>5. saving \in [going : BOOLEAN, text : Texts, version : Nat]
    BY <2>1 DEF NotSaving
  <2> QED BY <2>1, <2>2, <2>3, <2>4, <2>5 DEF TypeOK
<1>2. UsedOK
  BY DEF UsedOK, Texts
<1>3. Table /\ DownInv
  BY DEF Table, Known, BackupStarted, DownInv
<1> QED BY <1>1, <1>2, <1>3 DEF BackupsInv

\* No bound is passed, and every text has a number below MaxTexts.
LEMMA Counted ==
  ASSUME UsedOK, \/ Use("texts", MaxTexts)
                 \/ \E bound : \E what \in {"saves", "reopens", "closes", "crashes", "failures"} :
                      Use(what, bound)
  PROVE  UsedOK'
<1> USE BoundAssumption DEF UsedOK, Texts, Use
<1>1. CASE Use("texts", MaxTexts)
  BY <1>1
<1>2. CASE \E bound : \E what \in {"saves", "reopens", "closes", "crashes", "failures"} :
             Use(what, bound)
  BY <1>2
<1> QED BY <1>1, <1>2

\* The editor, the save and the state of the tracker.
LEMMA SideTyped ==
  ASSUME TypeOK, [Next]_vars
  PROVE  /\ editor' \in {"open", "closed", "unrestored"}
         /\ saving' \in [going : BOOLEAN, text : Texts, version : Nat]
         /\ tracker' \in {"starting", "ready", "restored"} /\ slow' \in BOOLEAN
<1> USE BoundAssumption
<1> USE DEF history, copy
<1>1. /\ editor \in {"open", "closed", "unrestored"}
      /\ saving \in [going : BOOLEAN, text : Texts, version : Nat]
      /\ tracker \in {"starting", "ready", "restored"} /\ slow \in BOOLEAN
      /\ text \in Texts /\ contentVersion \in Nat /\ 0 \in Texts
  BY DEF TypeOK, Texts
<1>2. NotSaving \in [going : BOOLEAN, text : Texts, version : Nat]
  BY <1>1 DEF NotSaving
<1>3. CASE Type \/ Save \/ Revert \/ CloseEditor \/ OpenEditor
  <2>1. /\ editor' \in {editor, "open", "closed"} /\ tracker' = tracker
        /\ slow' \in {slow, FALSE, phase \notin Saving}
    BY <1>3 DEF Type, Save, BeginSave, SaveEnds, SaveFails, Revert, CloseEditor, OpenEditor
  <2>2. \/ saving' \in {saving, NotSaving}
        \/ saving' = [going |-> TRUE, text |-> text, version |-> contentVersion]
    BY <1>3 DEF Type, Save, BeginSave, SaveEnds, SaveFails, Revert, CloseEditor, OpenEditor
  <2>3. saving' \in [going : BOOLEAN, text : Texts, version : Nat]
    <3>1. CASE saving' \in {saving, NotSaving}
      BY <1>1, <1>2, <3>1
    <3>2. CASE saving' = [going |-> TRUE, text |-> text, version |-> contentVersion]
      BY Zenon, <1>1, <3>2
    <3> QED BY <2>2, <3>1, <3>2
  <2> QED BY <1>1, <2>1, <2>3
<1>4. CASE Ready \/ Restored \/ TimerFires \/ QueueBackup \/ Operate \/ OperationFails
  BY <1>1, <1>4 DEF Ready, Restored, TimerFires, QueueBackup, Operate, SkipOperation,
     StartOperation, FinishOperation, OperationFails
<1>5. CASE Close \/ Closing
  BY <1>1, <1>5 DEF Close, Closing, BackupBeforeShutdown, StopWaiting, SavedOrNot, Confirm,
     DontSave, Failed, StopDiscarding, DeleteFolder, WillShutdown, Veto, NoVeto
<1>6. CASE Quit \/ Crash \/ Start
  BY <1>1, <1>2, <1>6 DEF Quit, Crash, CutOff, Start
<1>7. CASE UNCHANGED vars
  BY <1>1, <1>7 DEF vars
<1> QED BY <1>3, <1>4, <1>5, <1>6, <1>7 DEF Next, Work

LEMMA TextSteps ==
  ASSUME BackupsInv, Type \/ Save \/ Revert \/ CloseEditor
  PROVE  BackupsInv'
<1> USE NameAssumption, BoundAssumption
<1> USE DEF Save, BeginSave, SaveEnds, SaveFails, history, store
<1>1. TypeOK /\ UsedOK /\ Table /\ InOrder(queue) /\ Running
  BY DEF BackupsInv, TypeOK, InOrder, Type, Revert, CloseEditor, Up, Running
<1>2. InOrder(queue') /\ (BackupStarted(queue') => BackupStarted(queue))
  <2>1. CASE queue' = queue
    BY <1>1, <2>1
  <2>2. CASE queue' = Cancelled(FALSE)
    BY <1>1, <2>2, CancelledInOrder
  <2>3. CASE queue' = Append(Cancelled(FALSE), Discard(FALSE))
    <3>1. InOrder(Cancelled(FALSE)) /\ (BackupStarted(Cancelled(FALSE)) => BackupStarted(queue))
      BY <1>1, CancelledInOrder
    <3>2. Discard(FALSE) \in Operation /\ ~Discard(FALSE).started
      BY <1>1, OperationsTyped DEF Texts, TypeOK
    <3> QED BY <2>3, <3>1, <3>2, AppendInOrder
  <2> QED BY <2>1, <2>2, <2>3
          DEF Type, Revert, CloseEditor, Unscheduled, ScheduleBackup, DiscardBackup
<1>3. UNCHANGED <<file, model, phase, raced>>
  BY DEF Type, Revert, CloseEditor
<1>4. Table'
  BY <1>1, <1>2, <1>3 DEF Table, Known, Running
<1>5. UsedOK' /\ text' \in Texts
  <2>1. CASE Type
    BY <1>1, <2>1, Counted DEF Type, UsedOK
  <2>2. CASE BeginSave \/ SaveFails \/ CloseEditor
    BY <1>1, <2>2, Counted DEF CloseEditor, TypeOK
  <2>3. CASE SaveEnds \/ Revert
    BY <1>1, <2>3 DEF Revert, UsedOK, TypeOK
  <2> QED BY <2>1, <2>2, <2>3
<1>6. /\ saved' \in Texts /\ dirty' \in BOOLEAN /\ mtime' \in Nat /\ contentVersion' \in Nat
      /\ {bare', late'} \subseteq BOOLEAN
      /\ timer' \in [step : {"no", "waiting", "snapshot"}, text : Texts]
  <2>1. 0 \in Texts
    BY DEF Texts
  <2>2. [step |-> "waiting", text |-> 0] \in [step : {"no", "waiting", "snapshot"}, text : Texts]
        /\ NoTimer \in [step : {"no", "waiting", "snapshot"}, text : Texts]
    BY <2>1 DEF NoTimer
  <2>3. timer' \in {timer, [step |-> "waiting", text |-> 0], NoTimer} /\ bare' \in {bare, FALSE}
    BY DEF Type, Revert, CloseEditor, Unscheduled, ScheduleBackup, DiscardBackup
  <2>4. /\ saved' \in {saved, saving.text} /\ dirty' \in {dirty, TRUE, FALSE}
        /\ mtime' \in {mtime, mtime + 1}
        /\ contentVersion' \in {contentVersion, contentVersion + 1, 0}
        /\ late' \in {late, late \/ phase \notin Saving \cup {"backup"},
                     late \/ (~dirty /\ phase \notin Saving)}
    BY DEF Type, Revert, CloseEditor
  <2>5. {bare', late'} \subseteq BOOLEAN
    BY <1>1, <2>3, <2>4 DEF TypeOK
  <2>6. saved' \in Texts /\ mtime' \in Nat /\ contentVersion' \in Nat
    BY <1>1, <2>4 DEF TypeOK
  <2>7. dirty' \in BOOLEAN
    BY <1>1, <2>4 DEF TypeOK
  <2>8. timer' \in [step : {"no", "waiting", "snapshot"}, text : Texts]
    BY <1>1, <2>2, <2>3 DEF TypeOK
  <2> QED BY <2>5, <2>6, <2>7, <2>8
<1>7. /\ editor' \in {"open", "closed", "unrestored"}
      /\ saving' \in [going : BOOLEAN, text : Texts, version : Nat]
      /\ tracker' \in {"starting", "ready", "restored"} /\ slow' \in BOOLEAN
  BY <1>1, SideTyped DEF Next
<1>8. TypeOK'
  BY <1>1, <1>2, <1>3, <1>5, <1>6, <1>7 DEF TypeOK, InOrder
<1> QED BY <1>1, <1>3, <1>4, <1>5, <1>8 DEF BackupsInv, DownInv, Running

\* A text that is read from its backup: the table learns its meta.
LEMMA OpenSteps ==
  ASSUME BackupsInv, OpenEditor
  PROVE  BackupsInv'
<1> USE NameAssumption, BoundAssumption
<1>1. TypeOK /\ UsedOK /\ Table /\ Running /\ queue = <<>>
  BY DEF BackupsInv, OpenEditor, Up, Running
<1>2. /\ UNCHANGED <<saved, mtime, contentVersion, file, phase, late, raced, used>>
      /\ text' \in Texts /\ dirty' \in BOOLEAN /\ bare' \in BOOLEAN
      /\ timer' \in {timer, [step |-> "waiting", text |-> 0]}
      /\ queue' = queue \/ queue' = Cancelled(FALSE)
      /\ model' = model \/ (model # None /\ model' = [model EXCEPT !.mtime = mtime])
  BY <1>1 DEF OpenEditor, ScheduleBackup, Unscheduled, Readable, TypeOK
<1>3. InOrder(queue') /\ ~BackupStarted(queue')
  <2>1. InOrder(queue) /\ ~BackupStarted(queue)
    BY <1>1 DEF TypeOK, InOrder, BackupStarted
  <2> QED BY <1>2, <2>1, CancelledInOrder
<1>4. /\ model' # None => model' \in [version : Nat, mtime : Nat \cup {None},
                                    text : Texts \cup {Partial}]
      /\ Known' = Known
  <2>1. CASE model' = model
    BY <1>1, <2>1 DEF Known, TypeOK
  <2>2. CASE model # None /\ model' = [model EXCEPT !.mtime = mtime]
    <3>1. model \in [version : Nat, mtime : Nat \cup {None}, text : Texts \cup {Partial}] /\ mtime \in Nat
      BY <1>1, <2>2 DEF TypeOK
    <3>2. /\ model' \in [version : Nat, mtime : Nat \cup {None}, text : Texts \cup {Partial}]
          /\ model' \in [version : Nat, mtime : Nat \cup {None}, text : Nat \cup {Partial}]
          /\ model'.text = model.text
      BY <2>2, <3>1 DEF Texts
    <3>3. model' # None
      BY <3>2
    <3> QED BY <2>2, <3>2, <3>3 DEF Known
  <2> QED BY <1>2, <2>1, <2>2
<1>5. timer' \in [step : {"no", "waiting", "snapshot"}, text : Texts]
  <2>1. 0 \in Texts
    BY DEF Texts
  <2> QED BY <1>1, <1>2, <2>1 DEF TypeOK
<1>6. /\ editor' \in {"open", "closed", "unrestored"}
      /\ saving' \in [going : BOOLEAN, text : Texts, version : Nat]
      /\ tracker' \in {"starting", "ready", "restored"} /\ slow' \in BOOLEAN
  BY <1>1, SideTyped DEF Next
<1>7. TypeOK'
  BY <1>1, <1>2, <1>3, <1>4, <1>5, <1>6 DEF TypeOK, InOrder
<1>8. Table'
  BY <1>1, <1>2, <1>3, <1>4 DEF Table, Running
<1> QED BY <1>1, <1>2, <1>7, <1>8 DEF BackupsInv, DownInv, UsedOK, Running

LEMMA ReadySteps ==
  ASSUME BackupsInv, Ready \/ Restored
  PROVE  BackupsInv'
<1>1. UNCHANGED <<copy, timer, store, phase, history, used>> /\ TypeOK
  BY DEF Ready, Restored, BackupsInv
<1>2. tracker' \in {"starting", "ready", "restored"}
  BY <1>1, SideTyped DEF Next
<1>3. TypeOK'
  BY <1>1, <1>2 DEF TypeOK, copy, store, history
<1> QED BY <1>1, <1>3 DEF BackupsInv, UsedOK, DownInv, Table, Known, BackupStarted, Running, copy,
                       store, history

LEMMA TakenTyped ==
  ASSUME TypeOK, NEW v, NEW t, Taken(v, t)
  PROVE  raced' \in BOOLEAN /\ (raced => raced')
BY Zenon DEF Taken, TypeOK

\* Steps of the tracker that put at most one operation on the queue.
LEMMA TimerSteps ==
  ASSUME BackupsInv, TimerFires \/ QueueBackup
  PROVE  BackupsInv'
<1> USE NameAssumption, BoundAssumption
<1>1. TypeOK /\ UsedOK /\ Table /\ InOrder(queue) /\ Running
  BY DEF BackupsInv, TypeOK, InOrder, TimerFires, QueueBackup
<1>2. InOrder(queue') /\ (BackupStarted(queue') => BackupStarted(queue))
  <2>1. CASE queue' = queue
    BY <1>1, <2>1
  <2>2. CASE queue' = Append(queue, Backup(timer.text, FALSE))
    <3>1. timer.text \in Texts
      BY <1>1 DEF TypeOK
    <3>2. Backup(timer.text, FALSE) \in Operation /\ ~Backup(timer.text, FALSE).started
      BY <1>1, <3>1, OperationsTyped
    <3> QED BY <1>1, <2>2, <3>2, AppendInOrder
  <2> QED BY <2>1, <2>2 DEF TimerFires, QueueBackup, store
<1>3. UNCHANGED <<copy, file, model, tracker, phase, bare, late, slow, used>> /\ raced' \in BOOLEAN
      /\ (raced => raced')
  <2>1. UNCHANGED <<copy, file, model, tracker, phase, bare, late, slow, used>>
    BY DEF TimerFires, QueueBackup, store, history
  <2>2. raced' = raced \/ Taken(contentVersion, timer.text)
    BY DEF TimerFires, QueueBackup, history
  <2>3. raced \in BOOLEAN
    BY <1>1 DEF TypeOK
  <2> QED BY <1>1, <2>1, <2>2, <2>3, TakenTyped
<1>4. Table'
  BY <1>1, <1>2, <1>3 DEF Table, Known, Running
<1>5. timer' \in [step : {"no", "waiting", "snapshot"}, text : Texts]
  <2>1. 0 \in Texts
    BY DEF Texts
  <2>2. timer' \in {NoTimer, [step |-> "snapshot", text |-> text]}
    BY DEF TimerFires, QueueBackup
  <2> QED BY <1>1, <2>1, <2>2 DEF NoTimer, TypeOK
<1>6. TypeOK'
  BY <1>1, <1>2, <1>3, <1>5 DEF TypeOK, InOrder, copy
<1> QED BY <1>1, <1>3, <1>4, <1>6 DEF BackupsInv, UsedOK, DownInv, Running

\* How an operation ends: the rest of the queue has not started.
LEMMA OperationLeaves ==
  ASSUME TypeOK, Busy, Leave, NEW step \in {"leaving", "failed"},
         phase' = phase \/ Ended(Head(queue), step)
  PROVE  /\ InOrder(queue') /\ ~BackupStarted(queue')
         /\ phase' \in Phases \ {"down"}
<1>1. InOrder(queue) /\ queue # <<>>
  BY DEF TypeOK, InOrder, Busy
<1>2. InOrder(queue') /\ ~BackupStarted(queue')
  BY <1>1, TailInOrder DEF Leave
<1>3. phase' \in {phase, "leaving", step}
  BY DEF Ended
<1> QED BY <1>2, <1>3 DEF TypeOK, Busy, Running, Phases

LEMMA SkipSteps ==
  ASSUME BackupsInv, SkipOperation
  PROVE  BackupsInv'
<1>1. TypeOK /\ UsedOK /\ Table /\ Busy /\ Leave
  BY DEF BackupsInv, SkipOperation
<1>2. Ended(Head(queue), "leaving")
  BY DEF SkipOperation
<1>3. /\ InOrder(queue') /\ ~BackupStarted(queue')
      /\ phase' \in Phases \ {"down"}
  BY <1>1, <1>2, OperationLeaves
<1>4. UNCHANGED <<copy, timer, file, model, tracker, bare, late, slow, used>> /\ raced' \in BOOLEAN
      /\ (raced => raced')
  <2>1. UNCHANGED <<copy, timer, file, model, tracker, bare, late, slow, used>>
    BY DEF SkipOperation
  <2>2. raced' = raced \/ \E v, t : Taken(v, t)
    BY DEF SkipOperation
  <2>3. raced \in BOOLEAN
    BY <1>1 DEF TypeOK
  <2> QED BY <1>1, <2>1, <2>2, <2>3, TakenTyped
<1>5. Table'
  BY <1>1, <1>3, <1>4 DEF Table, Known, Running, Busy
<1>6. TypeOK'
  BY <1>1, <1>3, <1>4 DEF TypeOK, InOrder, copy, Phases
<1> QED BY <1>1, <1>3, <1>4, <1>5, <1>6 DEF BackupsInv, DownInv, UsedOK, Phases

LEMMA StartSteps ==
  ASSUME BackupsInv, StartOperation
  PROVE  BackupsInv'
<1>1. TypeOK /\ UsedOK /\ Table /\ InOrder(queue) /\ queue # <<>> /\ Running
  BY DEF BackupsInv, TypeOK, InOrder, StartOperation, Busy
<1>2. 1 \in DOMAIN queue /\ Head(queue) = queue[1] /\ queue[1] \in Operation
  BY <1>1 DEF InOrder
<1>3. queue' = [queue EXCEPT ![1] = [queue[1] EXCEPT !.started = TRUE]]
  BY DEF StartOperation
<1>4. [queue[1] EXCEPT !.started = TRUE] \in Operation
  BY <1>2 DEF Operation
<1>5. InOrder(queue')
  BY <1>1, <1>2, <1>3, <1>4 DEF InOrder
<1>6. BackupStarted(queue') => file' = Partial
  <2>1. queue'[1].kind = queue[1].kind
    BY <1>2, <1>3 DEF Operation
  <2> QED BY <1>2, <2>1 DEF BackupStarted, StartOperation
<1>7. UNCHANGED <<copy, timer, model, tracker, phase, history, used>> /\ file' \in {Partial, file}
  BY DEF StartOperation
<1>8. Table'
  BY <1>1, <1>6, <1>7 DEF Table, Known, Running, history
<1>9. TypeOK'
  BY <1>1, <1>5, <1>7 DEF TypeOK, InOrder, copy, history, Phases
<1> QED BY <1>1, <1>7, <1>8, <1>9 DEF BackupsInv, DownInv, UsedOK, Running

LEMMA FinishSteps ==
  ASSUME BackupsInv, FinishOperation
  PROVE  BackupsInv'
<1> USE NameAssumption, BoundAssumption
<1>1. TypeOK /\ UsedOK /\ Table /\ InOrder(queue) /\ Busy /\ Leave
  BY DEF BackupsInv, TypeOK, InOrder, FinishOperation
<1>2. Ended(Head(queue), "leaving")
  BY DEF FinishOperation
<1>3. /\ InOrder(queue') /\ ~BackupStarted(queue')
      /\ phase' \in Phases \ {"down"}
  BY <1>1, <1>2, OperationLeaves
<1>4. Head(queue) = queue[1] /\ queue[1] \in Operation /\ queue # <<>>
  BY <1>1 DEF InOrder, Busy
<1>5. UNCHANGED <<copy, timer, tracker, history, used>>
  BY DEF FinishOperation
<1> DEFINE op == queue[1]
           noted == [version |-> op.version, mtime |-> op.mtime, text |-> op.text]
<1>6. CASE op.kind = "backup"
  <2>1. model' = noted /\ file' \in {op.text, None} /\ (file' = None => file = None \/ op.text = None)
    BY <1>4, <1>6 DEF FinishOperation, Note
  <2>2. noted \in [version : Nat, mtime : Nat \cup {None}, text : Texts \cup {Partial}]
    BY <1>4 DEF Operation
  <2>3. noted # None /\ op.text \in Texts /\ op.text # None
    BY <1>4 DEF Operation, Texts
  <2>4. Table'
    BY <1>1, <1>3, <1>4, <1>5, <1>6, <2>1, <2>3
       DEF Table, Known, Running, Busy, history, BackupStarted, FinishOperation
  <2>5. TypeOK'
    BY <1>1, <1>3, <1>5, <2>1, <2>2, <2>3 DEF TypeOK, InOrder, copy, history, Phases
  <2> QED BY <1>1, <1>3, <1>5, <2>4, <2>5 DEF BackupsInv, DownInv, UsedOK, Phases
<1>7. CASE op.kind = "discard"
  <2>1. model' = None /\ file' = None
    BY <1>4, <1>7 DEF FinishOperation, Note
  <2>2. Table'
    BY <1>3, <2>1 DEF Table, Known
  <2>3. TypeOK'
    BY <1>1, <1>3, <1>5, <2>1 DEF TypeOK, InOrder, copy, history, Phases
  <2> QED BY <1>1, <1>3, <1>5, <2>2, <2>3 DEF BackupsInv, DownInv, UsedOK, Phases
<1> QED BY <1>4, <1>6, <1>7 DEF Operation

LEMMA FailSteps ==
  ASSUME BackupsInv, OperationFails
  PROVE  BackupsInv'
<1>1. TypeOK /\ UsedOK /\ Table /\ Busy /\ Leave
  BY DEF BackupsInv, OperationFails
<1>2. Ended(Head(queue), "failed")
  BY DEF OperationFails
<1>3. /\ InOrder(queue') /\ ~BackupStarted(queue')
      /\ phase' \in Phases \ {"down"}
  BY <1>1, <1>2, OperationLeaves
<1>4. UNCHANGED <<copy, timer, file, model, tracker, late, slow>> /\ bare' = TRUE /\ UsedOK'
      /\ raced' \in BOOLEAN /\ (raced => raced')
  <2>1. \E b \in BOOLEAN : raced' = (raced \/ b)
    BY DEF OperationFails
  <2> QED BY <1>1, <2>1, Counted DEF OperationFails, TypeOK
<1>5. Table'
  BY <1>1, <1>3, <1>4 DEF Table, Known, Running, Busy
<1>6. TypeOK'
  BY <1>1, <1>3, <1>4 DEF TypeOK, InOrder, copy, Phases
<1> QED BY <1>3, <1>4, <1>5, <1>6 DEF BackupsInv, DownInv, Phases
----------------------------------------------------------------------------
(* Closing, crash and start. *)

\* Steps of the shutdown leave the file and the table alone, and at most put
\* an operation on the queue or cancel some.
LEMMA ClosingSteps ==
  ASSUME BackupsInv,
         \/ Close \/ BackupBeforeShutdown \/ StopWaiting \/ SavedOrNot \/ Confirm \/ DontSave
         \/ Failed \/ StopDiscarding \/ WillShutdown
  PROVE  BackupsInv'
<1> USE NameAssumption, BoundAssumption
<1> USE DEF store, history, Veto, NoVeto
<1>1. TypeOK /\ UsedOK /\ Table /\ InOrder(queue) /\ Running
  BY DEF BackupsInv, TypeOK, InOrder, Up, Running, Close, BackupBeforeShutdown, StopWaiting,
         SavedOrNot, Confirm, DontSave, Failed, StopDiscarding, WillShutdown
<1>2. phase' \in Phases \ {"down"} /\ UNCHANGED <<file, model>>
  BY DEF Phases, Close, BackupBeforeShutdown, StopWaiting, SavedOrNot, Confirm, DontSave, Failed,
         StopDiscarding, WillShutdown
<1>3. InOrder(queue') /\ (BackupStarted(queue') => BackupStarted(queue))
  <2>1. CASE queue' = queue
    BY <1>1, <2>1
  <2>2. CASE \E final \in BOOLEAN : queue' = Cancelled(final)
    BY <1>1, <2>2, CancelledInOrder
  <2>3. CASE queue' = Append(queue, Backup(text, TRUE)) \/ queue' = Append(queue, Discard(TRUE))
    <3>1. text \in Texts
      BY <1>1 DEF TypeOK
    <3> QED BY <1>1, <2>3, <3>1, OperationsTyped, AppendInOrder
  <2> QED BY <2>1, <2>2, <2>3
          DEF Close, CancelAll, BackupBeforeShutdown, StopWaiting, SavedOrNot, Confirm, DontSave,
              Failed, StopDiscarding, WillShutdown
<1>4. raced' \in BOOLEAN /\ (raced => raced')
  <2>1. raced' = raced \/ Taken(contentVersion, text)
    BY DEF Close, BackupBeforeShutdown, StopWaiting, SavedOrNot, Confirm, DontSave, Failed,
           StopDiscarding, WillShutdown
  <2>2. raced \in BOOLEAN
    BY <1>1 DEF TypeOK
  <2> QED BY <1>1, <2>1, <2>2, TakenTyped
<1>5. Table'
  BY <1>1, <1>2, <1>3, <1>4 DEF Table, Known, Running
<1>6. UsedOK'
  <2>1. CASE UNCHANGED used
    BY <1>1, <2>1 DEF UsedOK
  <2>2. CASE Use("closes", MaxCloses)
    BY <1>1, <2>2, Counted
  <2> QED BY <2>1, <2>2
          DEF Close, BackupBeforeShutdown, StopWaiting, SavedOrNot, Confirm, DontSave, Failed,
              StopDiscarding, WillShutdown
<1>7. /\ timer' \in {timer, NoTimer} /\ dirty' \in {dirty, FALSE}
      /\ bare' \in {bare, TRUE, FALSE} /\ late' \in {late, TRUE, FALSE}
      /\ UNCHANGED <<text, saved, mtime, contentVersion, editor, saving, tracker>>
      /\ slow' \in {slow, FALSE}
  BY DEF copy, Close, CancelAll, BackupBeforeShutdown, StopWaiting, SavedOrNot, Confirm, DontSave,
         Failed, StopDiscarding, WillShutdown
<1>8. timer' \in [step : {"no", "waiting", "snapshot"}, text : Texts]
  <2>1. 0 \in Texts
    BY DEF Texts
  <2> QED BY <1>1, <1>7, <2>1 DEF NoTimer, TypeOK
<1>9. {bare', late', slow', raced'} \subseteq BOOLEAN /\ dirty' \in BOOLEAN
  BY <1>1, <1>4, <1>7 DEF TypeOK
<1>10. TypeOK'
  BY <1>1, <1>2, <1>3, <1>7, <1>8, <1>9 DEF TypeOK, InOrder, Phases
<1> QED BY <1>2, <1>5, <1>6, <1>10 DEF BackupsInv, DownInv, Phases

LEMMA FolderSteps ==
  ASSUME BackupsInv, DeleteFolder
  PROVE  BackupsInv'
<1>1. TypeOK /\ UsedOK /\ Table /\ InOrder(queue) /\ Running /\ raced \in BOOLEAN
  BY DEF BackupsInv, TypeOK, InOrder, DeleteFolder, Running
<1>2. phase' = "leaving" /\ UNCHANGED <<copy, timer, queue, tracker, late, slow>>
  BY DEF DeleteFolder
<1>3. \/ UNCHANGED <<file, model, raced>>
      \/ /\ file' = None /\ model' = None
         /\ raced' \in BOOLEAN /\ (BackupStarted(queue) => raced')
  <2>1. BackupStarted(queue) => Started
    <3> HAVE BackupStarted(queue)
    <3>1. 1 \in DOMAIN queue
      BY <1>1 DEF BackupStarted, InOrder
    <3> QED BY <3>1 DEF BackupStarted, Started
  <2>2. (raced \/ Started) \in BOOLEAN
    OBVIOUS
  <2> QED BY <2>1, <2>2 DEF DeleteFolder
<1>4. UsedOK' /\ bare' \in {bare, TRUE}
  BY <1>1, Counted DEF DeleteFolder, UsedOK
<1>5. Table'
  BY <1>1, <1>2, <1>3 DEF Table, Known, Running
<1>6. file' \in {file, None} /\ model' \in {model, None} /\ {bare', raced'} \subseteq BOOLEAN
  BY <1>1, <1>3, <1>4 DEF TypeOK
<1>7. TypeOK'
  BY <1>1, <1>2, <1>6 DEF TypeOK, copy
<1> QED BY <1>2, <1>4, <1>5, <1>7 DEF BackupsInv, DownInv

LEMMA EndSteps ==
  ASSUME BackupsInv, Quit \/ Crash
  PROVE  BackupsInv'
<1>1. TypeOK /\ UsedOK
  BY DEF BackupsInv
<1>2. /\ phase' = "down" /\ queue' = <<>> /\ timer' = NoTimer
      /\ saving' = NotSaving /\ saved' \in {saved, saving.text}
      /\ UNCHANGED <<text, dirty, mtime, contentVersion, editor, file, model, tracker, bare, slow,
                     raced>>
      /\ late' \in {late, TRUE}
  BY DEF Quit, Crash, CutOff, history
<1>3. UsedOK'
  BY <1>1, Counted DEF Quit, Crash, UsedOK
<1>4. timer' \in [step : {"no", "waiting", "snapshot"}, text : Texts]
  <2>1. 0 \in Texts
    BY BoundAssumption DEF Texts
  <2> QED BY <1>2, <2>1 DEF NoTimer
<1>5. TypeOK'
  <2>1. queue' \in Seq(Operation) /\ DOMAIN queue' = {}
    BY <1>2
  <2>2. saving' \in [going : BOOLEAN, text : Texts, version : Nat] /\ saved' \in Texts
    BY <1>1, <1>2, SideTyped DEF Next, TypeOK
  <2> QED BY <1>1, <1>2, <1>4, <2>1, <2>2 DEF TypeOK
<1>6. Table'
  BY <1>2 DEF Table, Running
<1> QED BY <1>2, <1>3, <1>5, <1>6 DEF BackupsInv, DownInv

LEMMA StartWindow ==
  ASSUME BackupsInv, Start
  PROVE  BackupsInv'
<1> USE NameAssumption, BoundAssumption
<1>1. TypeOK /\ UsedOK /\ queue = <<>>
  BY DEF BackupsInv, DownInv, Start
<1>2. phase' = "up" /\ UNCHANGED <<saved, mtime, saving, timer, queue, file, used>>
  BY DEF Start
<1>3. /\ text' \in Texts /\ dirty' \in BOOLEAN /\ contentVersion' = 0
      /\ {bare', late', slow', raced'} \subseteq BOOLEAN
  BY <1>1 DEF Start, Readable, TypeOK
<1>4. editor' \in {"open", "closed", "unrestored"} /\ tracker' \in {"starting", "ready", "restored"}
  BY DEF Start
<1>5. /\ model' # None => model' \in [version : Nat, mtime : Nat \cup {None},
                                    text : Texts \cup {Partial}]
      /\ file \notin {Partial} => file = IF model' = None THEN None ELSE model'.text
  <2> DEFINE Noted(m, t) == [version |-> 0, mtime |-> m, text |-> t]
  <2>1. CASE Readable
    <3>1. model' = Noted(mtime, file) /\ file \in Texts
      BY <1>1, <2>1 DEF Start, Readable, TypeOK
    <3>2. Noted(mtime, file) \in [version : Nat, mtime : Nat, text : Nat]
      BY <1>1, <3>1 DEF TypeOK, Texts
    <3>3. Noted(mtime, file) # None
      BY <3>2
    <3> QED BY <3>1, <3>2, <3>3
  <2>2. CASE file = Partial
    BY <2>2 DEF Start, Readable
  <2>3. CASE file = None
    BY <2>3 DEF Start, Readable
  <2> QED BY <2>1, <2>2, <2>3 DEF Readable
<1>6. TypeOK'
  BY <1>1, <1>2, <1>3, <1>4, <1>5 DEF TypeOK
<1>7. Table'
  BY <1>1, <1>2, <1>5 DEF Table, Known, BackupStarted
<1> QED BY <1>1, <1>2, <1>6, <1>7 DEF BackupsInv, DownInv, UsedOK

----------------------------------------------------------------------------

LEMMA BackupsStay == BackupsInv /\ [Next]_vars => BackupsInv'
<1> HAVE BackupsInv /\ [Next]_vars
<1>1. CASE Type \/ Save \/ Revert \/ CloseEditor
  BY <1>1, TextSteps
<1>2. CASE OpenEditor
  BY <1>2, OpenSteps
<1>3. CASE Ready \/ Restored
  BY <1>3, ReadySteps
<1>4. CASE TimerFires \/ QueueBackup
  BY <1>4, TimerSteps
<1>5. CASE SkipOperation
  BY <1>5, SkipSteps
<1>6. CASE StartOperation
  BY <1>6, StartSteps
<1>7. CASE FinishOperation
  BY <1>7, FinishSteps
<1>8. CASE OperationFails
  BY <1>8, FailSteps
<1>9. CASE \/ Close \/ BackupBeforeShutdown \/ StopWaiting \/ SavedOrNot \/ Confirm \/ DontSave
           \/ Failed \/ StopDiscarding \/ WillShutdown
  BY <1>9, ClosingSteps
<1>10. CASE DeleteFolder
  BY <1>10, FolderSteps
<1>11. CASE Quit \/ Crash
  BY <1>11, EndSteps
<1>12. CASE Start
  BY <1>12, StartWindow
<1>13. CASE UNCHANGED vars
  BY <1>13 DEF vars, copy, store, history, BackupsInv, DownInv, TypeOK, UsedOK, Table, Known, Running,
               BackupStarted
<1> QED BY <1>1, <1>2, <1>3, <1>4, <1>5, <1>6, <1>7, <1>8, <1>9, <1>10, <1>11, <1>12, <1>13
        DEF Next, Work, Operate, Closing

\* Whatever is typed, saved, cancelled, closed or crashed, the inductive
\* invariant holds.
THEOREM BackupsFollow == Spec => []BackupsInv
BY InitBackups, BackupsStay, PTL DEF Spec

\* Every variable of tracker and service has its type, and only the first
\* operation of a queue is running.
THEOREM BackupsTypes == Spec => []TypeOK
<1>1. BackupsInv => TypeOK
  BY DEF BackupsInv
<1> QED BY <1>1, BackupsFollow, PTL

\* The table of known backups is in step with the file whenever no operation
\* runs, also after operations that were cancelled while they ran.
THEOREM TableFollowsFile == Spec => []TableMatchesFile
<1>1. BackupsInv => TableMatchesFile
  BY DEF BackupsInv, Table, Known, TableMatchesFile
<1> QED BY <1>1, BackupsFollow, PTL

----------------------------------------------------------------------------
(* Texts are fresh when they are typed (NumbersInv), so as long as the     *)
(* text is unsaved every backup of it is of this version, comes after      *)
(* those of older texts, and is not written twice (CurrentInv).            *)

Numbers == 0..used.texts
NumbersInv ==
  /\ text \in Numbers /\ saved \in Numbers /\ file \in Numbers \cup {None, Partial}
  /\ \A i \in DOMAIN queue : queue[i].text \in Numbers
  /\ model # None => model.text \in Numbers \cup {Partial}
  /\ saving.text \in Numbers

Ours(op) == op.kind = "backup" /\ op.text = text

CurrentQueue ==
  /\ \A i \in DOMAIN queue : Ours(queue[i]) => queue[i].version = contentVersion
  /\ \A i, j \in DOMAIN queue : i < j /\ Ours(queue[i]) /\ queue[j].kind = "backup" => Ours(queue[j])

OursKnown == model # None /\ model.text = text

CurrentModel ==
  OursKnown => \A i \in DOMAIN queue : queue[i].kind = "backup" => Ours(queue[i])

CurrentFile ==
  OursKnown /\ model.version = contentVersion /\ file = Partial => raced \/ BackupStarted(queue)

\* The text is the last one typed, under the version it was typed with.
Live == dirty \/ saving.going \/ slow

CurrentInv == Live /\ Running => CurrentQueue /\ CurrentModel /\ CurrentFile

TimerText == timer.step # "no" => dirty /\ (timer.step = "snapshot" => timer.text = text)

LEMMA CancelledOps ==
  ASSUME TypeOK, NEW final \in BOOLEAN
  PROVE  /\ DOMAIN Cancelled(final) = DOMAIN queue /\ Len(Cancelled(final)) = Len(queue)
         /\ \A i \in DOMAIN queue :
              /\ Cancelled(final)[i].kind = queue[i].kind
              /\ Cancelled(final)[i].text = queue[i].text
              /\ Cancelled(final)[i].version = queue[i].version
              /\ Cancelled(final)[i].mtime = queue[i].mtime
              /\ Cancelled(final)[i].final = queue[i].final
              /\ Cancelled(final)[i].started = queue[i].started
              /\ Cancelled(final)[i].cancelled <=> queue[i].cancelled \/ queue[i].final = final
<1> DEFINE c == Cancelled(final)
<1>1. DOMAIN queue = 1..Len(queue) /\ Len(queue) \in Nat /\ queue \in Seq(Operation)
  BY DEF TypeOK
<1>2. DOMAIN c = DOMAIN queue /\ Len(c) = Len(queue)
  BY CancelledInOrder, <1>1 DEF Cancelled, TypeOK, InOrder
<1>3. ASSUME NEW i \in DOMAIN queue
      PROVE  /\ c[i].kind = queue[i].kind /\ c[i].text = queue[i].text
             /\ c[i].version = queue[i].version /\ c[i].mtime = queue[i].mtime
             /\ c[i].final = queue[i].final /\ c[i].started = queue[i].started
             /\ c[i].cancelled <=> queue[i].cancelled \/ queue[i].final = final
  <2>1. queue[i] \in Operation
    BY <1>1
  <2>2. c[i] = [queue[i] EXCEPT !.cancelled = queue[i].cancelled \/ queue[i].final = final]
    BY DEF Cancelled
  <2> QED BY <2>1, <2>2 DEF Operation
<1> QED BY <1>2, <1>3

LEMMA TailOps ==
  ASSUME NEW q \in Seq(Operation), q # <<>>
  PROVE  /\ Head(q) = q[1] /\ 1 \in DOMAIN q /\ Len(q) \in DOMAIN q
         /\ Len(Tail(q)) = Len(q) - 1 /\ Len(q) \in Nat
         /\ Tail(q) # <<>> <=> Len(q) > 1
         /\ \A i \in DOMAIN Tail(q) : /\ i + 1 \in DOMAIN q /\ Tail(q)[i] = q[i + 1] /\ i + 1 > 1
                                      /\ i \in Nat
                                      /\ i = Len(Tail(q)) <=> i + 1 = Len(q)
<1>1. /\ Head(q) = q[1] /\ Len(q) \in Nat /\ Len(q) >= 1 /\ DOMAIN q = 1..Len(q)
      /\ Len(Tail(q)) = Len(q) - 1 /\ Tail(q) \in Seq(Operation)
  OBVIOUS
<1>2. DOMAIN Tail(q) = 1..(Len(q) - 1) /\ (Tail(q) # <<>> <=> Len(q) > 1)
  <2>1. ASSUME NEW t \in Seq(Operation) PROVE t = <<>> <=> Len(t) = 0
    OBVIOUS
  <2>2. Tail(q) = <<>> <=> Len(Tail(q)) = 0
    BY <1>1, <2>1
  <2> QED BY <1>1, <2>2
<1>3. ASSUME NEW i \in DOMAIN Tail(q)
      PROVE  /\ i + 1 \in DOMAIN q /\ i + 1 > 1 /\ i \in Nat
             /\ i = Len(Tail(q)) <=> i + 1 = Len(q)
  BY <1>1, <1>2
<1>4. ASSUME NEW i \in DOMAIN Tail(q) PROVE Tail(q)[i] = q[i + 1]
  BY <1>1, <1>2
<1> QED BY <1>1, <1>2, <1>3, <1>4

LEMMA AppendOps ==
  ASSUME NEW q \in Seq(Operation), NEW op
  PROVE  /\ Len(Append(q, op)) = Len(q) + 1 /\ Len(q) \in Nat
         /\ Append(q, op) # <<>> /\ Append(q, op)[Len(q) + 1] = op
         /\ \A i \in DOMAIN Append(q, op) : \/ i = Len(q) + 1 /\ Append(q, op)[i] = op
                                            \/ i \in DOMAIN q /\ Append(q, op)[i] = q[i] /\ i < Len(q) + 1
OBVIOUS

\* Every operation of the queue after a step was there before, or is of the
\* text or of no text.
LEMMA QueueNumbers ==
  ASSUME TypeOK, UsedOK, NumbersInv, TimerText,
         \/ queue' = queue
         \/ \E final \in BOOLEAN : queue' = Cancelled(final)
         \/ queue' = Append(Cancelled(FALSE), Discard(FALSE))
         \/ queue' = Append(queue, Discard(TRUE))
         \/ timer.step = "snapshot" /\ queue' = Append(queue, Backup(timer.text, FALSE))
         \/ queue' = Append(queue, Backup(text, TRUE))
         \/ queue # <<>> /\ Leave
         \/ queue # <<>> /\ queue' = [queue EXCEPT ![1].started = TRUE]
         \/ queue' = <<>>
  PROVE  \A i \in DOMAIN queue' : queue'[i].text \in Numbers
<1>0. /\ queue \in Seq(Operation) /\ InOrder(queue) /\ 0 \in Numbers /\ text \in Numbers
      /\ \A i \in DOMAIN queue : queue[i].text \in Numbers
  <2>1. used.texts \in Nat
    BY BoundAssumption DEF UsedOK, Texts
  <2> QED BY <2>1 DEF TypeOK, InOrder, NumbersInv, Numbers
<1>1. CASE queue' = queue \/ queue' = <<>>
  BY <1>0, <1>1
<1>2. ASSUME NEW final \in BOOLEAN
      PROVE  /\ Cancelled(final) \in Seq(Operation)
             /\ \A i \in DOMAIN Cancelled(final) : Cancelled(final)[i].text \in Numbers
  BY <1>0, CancelledOps, CancelledInOrder DEF InOrder
<1>3. ASSUME NEW q \in Seq(Operation), \A i \in DOMAIN q : q[i].text \in Numbers,
             NEW op, op.text \in Numbers, queue' = Append(q, op)
      PROVE  \A i \in DOMAIN queue' : queue'[i].text \in Numbers
  BY <1>3, AppendOps
<1>4. CASE \E final \in BOOLEAN : queue' = Cancelled(final)
  BY <1>2, <1>4
<1>5. CASE queue' = Append(Cancelled(FALSE), Discard(FALSE)) \/ queue' = Append(queue, Discard(TRUE))
  <2>1. Discard(FALSE).text \in Numbers /\ Discard(TRUE).text \in Numbers
    BY <1>0 DEF Discard
  <2> QED BY <1>0, <1>2, <1>3, <1>5, <2>1
<1>6. CASE \/ timer.step = "snapshot" /\ queue' = Append(queue, Backup(timer.text, FALSE))
           \/ queue' = Append(queue, Backup(text, TRUE))
  <2>1. /\ Backup(text, TRUE).text \in Numbers
        /\ timer.step = "snapshot" => Backup(timer.text, FALSE).text \in Numbers
    BY <1>0 DEF Backup, TimerText
  <2> QED BY <1>0, <1>3, <1>6, <2>1
<1>7. CASE queue # <<>> /\ Leave
  BY <1>0, <1>7, TailOps DEF Leave
<1>8. CASE queue # <<>> /\ queue' = [queue EXCEPT ![1].started = TRUE]
  <2>1. DOMAIN queue' = DOMAIN queue /\ \A i \in DOMAIN queue : queue'[i].text = queue[i].text
    <3>1. 1 \in DOMAIN queue /\ queue[1] \in Operation
      BY <1>0, <1>8
    <3> QED BY <1>0, <1>8, <3>1 DEF Operation
  <2> QED BY <1>0, <2>1
<1> QED BY <1>1, <1>4, <1>5, <1>6, <1>7, <1>8

\* The ways in which one step changes the queue.
LEMMA QueueSteps ==
  ASSUME [Next]_vars
  PROVE  \/ queue' = queue
         \/ \E final \in BOOLEAN : queue' = Cancelled(final)
         \/ queue' = Append(Cancelled(FALSE), Discard(FALSE))
         \/ queue' = Append(queue, Discard(TRUE))
         \/ timer.step = "snapshot" /\ queue' = Append(queue, Backup(timer.text, FALSE))
         \/ queue' = Append(queue, Backup(text, TRUE))
         \/ queue # <<>> /\ Leave
         \/ queue # <<>> /\ queue' = [queue EXCEPT ![1].started = TRUE]
         \/ queue' = <<>>
<1> USE DEF store, history
<1>1. CASE Type \/ Save
  BY <1>1 DEF Type, Save, BeginSave, SaveEnds, SaveFails, Unscheduled, ScheduleBackup, DiscardBackup
<1>2. CASE Revert \/ CloseEditor \/ OpenEditor
  BY <1>2 DEF Revert, CloseEditor, OpenEditor, Unscheduled, ScheduleBackup, DiscardBackup
<1>3. CASE Ready \/ Restored \/ TimerFires \/ QueueBackup
  BY <1>3 DEF Ready, Restored, TimerFires, QueueBackup
<1>4. CASE SkipOperation \/ FinishOperation \/ OperationFails
  BY <1>4 DEF SkipOperation, FinishOperation, OperationFails, Busy
<1>5. CASE StartOperation
  BY <1>5 DEF StartOperation, Busy
<1>6. CASE Close \/ StopWaiting \/ WillShutdown
  BY <1>6 DEF Close, CancelAll, StopWaiting, WillShutdown
<1>7. CASE BackupBeforeShutdown \/ SavedOrNot \/ DontSave
  BY <1>7 DEF BackupBeforeShutdown, SavedOrNot, DontSave, Veto, NoVeto
<1>8. CASE Confirm \/ Failed \/ StopDiscarding \/ DeleteFolder
  BY <1>8 DEF Confirm, Failed, Veto, StopDiscarding, DeleteFolder
<1>9. CASE Quit \/ Crash \/ Start \/ UNCHANGED vars
  BY <1>9 DEF Quit, Crash, CutOff, Start, vars
<1> QED BY <1>1, <1>2, <1>3, <1>4, <1>5, <1>6, <1>7, <1>8, <1>9 DEF Next, Work, Operate, Closing

\* Of the numbered texts only one is new after a step.
LEMMA TextsStay ==
  ASSUME TypeOK, [Next]_vars
  PROVE  /\ UNCHANGED used \/ \E what, bound : Use(what, bound)
         /\ Type \/ (Readable /\ text' = file) \/ text' \in {text, saved}
         /\ saved' \in {saved, saving.text}
         /\ saving' \in {saving, NotSaving} \/ saving'.text = text
<1> USE DEF copy, store, history
<1>1. CASE Type
  BY <1>1 DEF Type
<1>2. CASE Save
  BY <1>2 DEF Save, BeginSave, SaveEnds, SaveFails
<1>3. CASE Revert \/ CloseEditor \/ OpenEditor
  BY <1>3 DEF Revert, CloseEditor, OpenEditor
<1>4. CASE \/ Ready \/ Restored \/ TimerFires \/ QueueBackup \/ SkipOperation \/ StartOperation
           \/ FinishOperation \/ OperationFails
  BY <1>4 DEF Ready, Restored, TimerFires, QueueBackup, SkipOperation, StartOperation,
              FinishOperation, OperationFails
<1>5. CASE Close \/ Closing
  BY <1>5 DEF Close, Closing, BackupBeforeShutdown, StopWaiting, SavedOrNot, Confirm, DontSave,
              Failed, StopDiscarding, DeleteFolder, WillShutdown
<1>6. CASE Quit \/ Crash \/ Start
  BY <1>6 DEF Quit, Crash, CutOff, Start
<1>7. CASE UNCHANGED vars
  BY <1>7 DEF vars
<1> QED BY <1>1, <1>2, <1>3, <1>4, <1>5, <1>6, <1>7 DEF Next, Work, Operate

\* The file and the table after a step that neither ends an operation, nor
\* opens an editor, nor starts the window.
LEMMA StoreStays ==
  ASSUME [Next]_vars, ~FinishOperation, ~Start, ~OpenEditor
  PROVE  file' \in {file, None, Partial} /\ model' \in {model, None}
<1> USE DEF store
<1>1. CASE Type \/ Save \/ Revert \/ CloseEditor
  BY <1>1 DEF Type, Save, BeginSave, SaveEnds, SaveFails, Revert, CloseEditor
<1>2. CASE \/ Ready \/ Restored \/ TimerFires \/ QueueBackup \/ SkipOperation \/ StartOperation
           \/ OperationFails
  BY <1>2 DEF Ready, Restored, TimerFires, QueueBackup, SkipOperation, StartOperation,
              OperationFails
<1>3. CASE Close \/ Closing
  BY <1>3 DEF Close, Closing, BackupBeforeShutdown, StopWaiting, SavedOrNot, Confirm, DontSave,
              Failed, StopDiscarding, DeleteFolder, WillShutdown
<1>4. CASE Quit \/ Crash \/ UNCHANGED vars
  BY <1>4 DEF Quit, Crash, CutOff, vars
<1> QED BY <1>1, <1>2, <1>3, <1>4 DEF Next, Work, Operate

LEMMA NumbersStay == ASSUME TypeOK, UsedOK, NumbersInv, TimerText, [Next]_vars PROVE NumbersInv'
<1>1. Numbers \subseteq Numbers' /\ 0 \in Numbers /\ (Type => text' \in Numbers')
  <2>1. used.texts \in Nat /\ (used'.texts = used.texts \/ used'.texts = used.texts + 1)
    <3>1. used \in [texts : Texts, saves : Nat, reopens : Nat, closes : Nat, crashes : Nat,
                    failures : Nat]
      BY DEF UsedOK
    <3>2. UNCHANGED used \/ \E what, bound : Use(what, bound)
      BY TextsStay
    <3>3. used'.texts = used.texts \/ used'.texts = used.texts + 1
      BY <3>1, <3>2 DEF Use
    <3> QED BY <3>1, <3>3, BoundAssumption DEF Texts
  <2>2. Type => text' = used'.texts
    BY DEF Type
  <2> QED BY <2>1, <2>2 DEF Numbers
<1>2. \A i \in DOMAIN queue' : queue'[i].text \in Numbers
  BY QueueNumbers, QueueSteps
<1>3. text' \in Numbers' /\ saved' \in Numbers' /\ saving'.text \in Numbers'
  BY <1>1, TextsStay DEF NumbersInv, NotSaving, Readable
<1>4. /\ file' \in Numbers \cup {None, Partial}
      /\ model' # None => model'.text \in Numbers \cup {Partial}
  <2>1. CASE FinishOperation
    <3>1. Head(queue) = queue[1] /\ queue[1].text \in Numbers
      BY <2>1, TailOps DEF FinishOperation, Busy, TypeOK, NumbersInv
    <3>2. file' \in {None, queue[1].text}
      BY <2>1, <3>1 DEF FinishOperation
    <3>3. model' = None \/ model'.text = queue[1].text
      BY <2>1, <3>1 DEF FinishOperation, Note
    <3> QED BY <3>1, <3>2, <3>3
  <2>2. CASE Start
    <3>1. file' = file /\ (model' # None => model'.text \in {file, Partial})
      <4>1. CASE Readable
        BY <2>2, <4>1 DEF Start
      <4>2. CASE ~Readable
        BY <2>2, <4>2 DEF Start, Readable
      <4> QED BY <4>1, <4>2
    <3>2. model' # None => model'.text # None
      BY <2>2, NameAssumption DEF Start, Readable
    <3> QED BY <3>1, <3>2 DEF NumbersInv
  <2>3. CASE OpenEditor
    <3>1. file' = file /\ (model' = model \/ (model # None /\ model' = [model EXCEPT !.mtime = mtime]))
      BY <2>3 DEF OpenEditor
    <3>2. CASE model' = model
      BY <3>1, <3>2 DEF NumbersInv
    <3>3. CASE model # None /\ model' = [model EXCEPT !.mtime = mtime]
      BY <3>1, <3>3 DEF NumbersInv, TypeOK
    <3> QED BY <3>1, <3>2, <3>3
  <2>4. CASE ~FinishOperation /\ ~Start /\ ~OpenEditor
    BY <2>4, StoreStays DEF NumbersInv
  <2> QED BY <2>1, <2>2, <2>3, <2>4
<1> QED BY <1>1, <1>2, <1>3, <1>4 DEF NumbersInv

\* A save writes what is shown, unless something was typed since; one that
\* ended too late has saved what is shown.
SavingInv ==
  /\ dirty \/ saving.going => editor = "open"
  /\ saving.going => /\ Running /\ saving.version <= contentVersion
                     /\ saving.version = contentVersion => saving.text = text
  /\ slow => ~dirty /\ ~saving.going /\ saved = text /\ ~Up

Alike(op, old) == op.kind = old.kind /\ op.text = old.text /\ op.version = old.version

\* What stays of the queue stays in its order.
LEMMA CurrentOnwards ==
  ASSUME TypeOK, CurrentQueue, UNCHANGED <<text, contentVersion>>, queue' \in Seq(Operation),
         NEW d \in Nat,
         \A i \in DOMAIN queue' : i + d \in DOMAIN queue /\ Alike(queue'[i], queue[i + d])
  PROVE  CurrentQueue' /\ (CurrentModel /\ UNCHANGED model => CurrentModel')
<1>1. \A i \in DOMAIN queue' : i \in Nat
  OBVIOUS
<1>2. \A i \in DOMAIN queue' : Ours(queue[i + d]) <=> Ours(queue[i])'
  BY DEF Alike, Ours
<1>3. ASSUME NEW i \in DOMAIN queue', Ours(queue[i])'
      PROVE  queue'[i].version = contentVersion'
  <2>1. Ours(queue[i + d])
    BY <1>2, <1>3
  <2> QED BY <2>1 DEF CurrentQueue, Alike
<1>4. ASSUME NEW i \in DOMAIN queue', NEW j \in DOMAIN queue', i < j, Ours(queue[i])',
             queue'[j].kind = "backup"
      PROVE  Ours(queue[j])'
  <2>1. i + d < j + d /\ Ours(queue[i + d]) /\ queue[j + d].kind = "backup"
    BY <1>1, <1>2, <1>4 DEF Alike
  <2>2. Ours(queue[j + d])
    BY <2>1 DEF CurrentQueue
  <2> QED BY <1>2, <2>2
<1>5. CurrentQueue'
  BY <1>3, <1>4 DEF CurrentQueue, Ours
<1>6. ASSUME CurrentModel, UNCHANGED model, OursKnown'
      PROVE  \A i \in DOMAIN queue' : queue'[i].kind = "backup" => Ours(queue[i])'
  BY <1>2, <1>6 DEF CurrentModel, OursKnown, Alike
<1>7. CurrentModel /\ UNCHANGED model => CurrentModel'
  BY <1>6 DEF CurrentModel, OursKnown, Ours
<1> QED BY <1>5, <1>7

\* An operation that is put on the queue is of the text as it is, or deletes.
LEMMA CurrentAppend ==
  ASSUME NEW q \in Seq(Operation), NEW op, queue' = Append(q, op),
         UNCHANGED <<text, contentVersion, model>>,
         op.kind = "backup" => Ours(op) /\ op.version = contentVersion,
         \A i \in DOMAIN q : Ours(q[i]) => q[i].version = contentVersion,
         \A i, j \in DOMAIN q : i < j /\ Ours(q[i]) /\ q[j].kind = "backup" => Ours(q[j]),
         OursKnown => \A i \in DOMAIN q : q[i].kind = "backup" => Ours(q[i])
  PROVE  CurrentQueue' /\ CurrentModel'
<1>1. /\ Len(q) \in Nat
      /\ \A i \in DOMAIN queue' : \/ i = Len(q) + 1 /\ queue'[i] = op
                                  \/ i \in DOMAIN q /\ queue'[i] = q[i] /\ i < Len(q) + 1
  BY AppendOps
<1>2. \A o : Ours(o)' <=> Ours(o)
  BY DEF Ours
<1>3. ASSUME NEW i \in DOMAIN queue', Ours(queue[i])' PROVE queue'[i].version = contentVersion'
  BY <1>1, <1>3 DEF Ours
<1>4. ASSUME NEW i \in DOMAIN queue', NEW j \in DOMAIN queue', i < j, Ours(queue[i])',
             queue'[j].kind = "backup"
      PROVE  Ours(queue[j])'
  <2>1. CASE queue'[j] = op
    BY <1>4, <2>1 DEF Ours
  <2>2. CASE j \in DOMAIN q /\ queue'[j] = q[j] /\ j < Len(q) + 1
    <3>1. i \in DOMAIN q /\ queue'[i] = q[i]
      <4>1. j \in Nat /\ i \in Nat
        BY <1>1, <2>2
      <4> QED BY <1>1, <1>4, <2>2, <4>1
    <3> QED BY <1>4, <2>2, <3>1 DEF Ours
  <2> QED BY <1>1, <2>1, <2>2
<1>5. ASSUME OursKnown' PROVE \A i \in DOMAIN queue' : queue'[i].kind = "backup" => Ours(queue[i])'
  BY <1>1, <1>5 DEF Ours, OursKnown
<1> QED BY <1>3, <1>4, <1>5 DEF CurrentQueue, CurrentModel, Ours

\* A file that was left half written stays the failure of an older version.
LEMMA CurrentFileStays ==
  ASSUME CurrentFile, raced => raced', BackupStarted(queue) => BackupStarted(queue)',
         UNCHANGED <<text, contentVersion, model>>, file' = file
  PROVE  CurrentFile'
BY DEF CurrentFile, OursKnown

\* Operations are cancelled, or are not.
LEMMA CurrentCancelled ==
  ASSUME TypeOK, CurrentQueue, CurrentModel, CurrentFile, raced => raced',
         UNCHANGED <<text, contentVersion, model, file>>,
         queue' = queue \/ \E final \in BOOLEAN : queue' = Cancelled(final)
  PROVE  CurrentQueue' /\ CurrentModel' /\ CurrentFile'
<1>1. queue \in Seq(Operation) /\ InOrder(queue)
  BY DEF TypeOK, InOrder
<1>2. /\ queue' \in Seq(Operation)
      /\ \A i \in DOMAIN queue' : i + 0 \in DOMAIN queue /\ Alike(queue'[i], queue[i + 0])
      /\ BackupStarted(queue) => BackupStarted(queue)'
  <2>1. \A i \in DOMAIN queue : i + 0 = i
    BY <1>1
  <2>2. CASE queue' = queue
    BY <1>1, <2>1, <2>2 DEF Alike, BackupStarted
  <2>3. CASE \E final \in BOOLEAN : queue' = Cancelled(final)
    <3>1. PICK final \in BOOLEAN : queue' = Cancelled(final)
      BY <2>3
    <3>2. /\ queue' \in Seq(Operation) /\ Len(queue') = Len(queue)
          /\ \A i \in DOMAIN queue' : i \in DOMAIN queue /\ Alike(queue'[i], queue[i])
      BY <1>1, <3>1, CancelledOps, CancelledInOrder DEF Alike, InOrder
    <3>3. BackupStarted(queue) => BackupStarted(queue)'
      <4> HAVE BackupStarted(queue)
      <4>1. 1 \in DOMAIN queue /\ queue[1].started /\ queue[1].kind = "backup"
        BY <1>1 DEF BackupStarted
      <4>2. queue'[1].started /\ queue'[1].kind = "backup" /\ 1 \in DOMAIN queue'
        BY <3>1, <4>1, CancelledOps
      <4>3. queue' # <<>>
        BY <4>2
      <4> QED BY <4>2, <4>3 DEF BackupStarted
    <3> QED BY <2>1, <3>2, <3>3
  <2> QED BY <2>2, <2>3
<1> QED BY <1>2, CurrentOnwards, CurrentFileStays

\* A backup of the text as it is, or a deletion, comes last.
LEMMA CurrentQueued ==
  ASSUME TypeOK, CurrentQueue, CurrentModel, CurrentFile, raced => raced',
         UNCHANGED <<text, contentVersion, model, file>>,
         \/ \E final \in BOOLEAN : queue' = Append(queue, Backup(text, final))
         \/ queue' = Append(queue, Discard(TRUE))
         \/ queue' = Append(Cancelled(FALSE), Discard(FALSE))
  PROVE  CurrentQueue' /\ CurrentModel' /\ CurrentFile'
<1>1. queue \in Seq(Operation) /\ InOrder(queue)
  BY DEF TypeOK, InOrder
<1>2. ASSUME NEW q \in Seq(Operation), BackupStarted(queue) => BackupStarted(q), NEW op,
             queue' = Append(q, op)
      PROVE  CurrentFile'
  <2>1. BackupStarted(q) => BackupStarted(queue)'
    <3> HAVE BackupStarted(q)
    <3>1. 1 \in DOMAIN q /\ q[1].started /\ q[1].kind = "backup"
      BY DEF BackupStarted
    <3>2. queue'[1] = q[1] /\ queue' # <<>>
      BY <1>2, <3>1
    <3> QED BY <3>1, <3>2 DEF BackupStarted
  <2> QED BY <1>2, <2>1, CurrentFileStays
<1>3. CASE \E final \in BOOLEAN : queue' = Append(queue, Backup(text, final))
  <2>1. PICK final \in BOOLEAN : queue' = Append(queue, Backup(text, final))
    BY <1>3
  <2> DEFINE op == Backup(text, final)
  <2>2. Ours(op) /\ op.version = contentVersion /\ queue' = Append(queue, op)
    BY <2>1 DEF Ours, Backup
  <2> HIDE DEF op
  <2>3. CurrentQueue' /\ CurrentModel'
    BY <1>1, <2>2, CurrentAppend DEF CurrentQueue, CurrentModel
  <2> QED BY <1>1, <1>2, <2>2, <2>3
<1>4. CASE queue' = Append(queue, Discard(TRUE))
  <2>1. Discard(TRUE).kind # "backup"
    BY DEF Discard
  <2>2. CurrentQueue' /\ CurrentModel'
    BY <1>1, <1>4, <2>1, CurrentAppend DEF CurrentQueue, CurrentModel
  <2> QED BY <1>1, <1>2, <1>4, <2>2
<1>5. CASE queue' = Append(Cancelled(FALSE), Discard(FALSE))
  <2> DEFINE c == Cancelled(FALSE)
  <2>1. Discard(FALSE).kind # "backup"
    BY DEF Discard
  <2>2. /\ c \in Seq(Operation) /\ DOMAIN c = DOMAIN queue /\ Len(c) = Len(queue)
        /\ \A i \in DOMAIN queue : Alike(c[i], queue[i]) /\ c[i].started = queue[i].started
    BY <1>1, CancelledOps, CancelledInOrder DEF Alike, InOrder
  <2> HIDE DEF c
  <2>3. \A i \in DOMAIN queue : Ours(c[i]) <=> Ours(queue[i])
    BY <2>2 DEF Alike, Ours
  <2>4. /\ \A i \in DOMAIN c : Ours(c[i]) => c[i].version = contentVersion
        /\ OursKnown => \A i \in DOMAIN c : c[i].kind = "backup" => Ours(c[i])
    BY <2>2, <2>3 DEF CurrentQueue, CurrentModel, Alike
  <2>5. \A i, j \in DOMAIN c : i < j /\ Ours(c[i]) /\ c[j].kind = "backup" => Ours(c[j])
    BY <2>2, <2>3 DEF CurrentQueue, Alike
  <2>6. queue' = Append(c, Discard(FALSE))
    BY <1>5 DEF c
  <2>7. CurrentQueue' /\ CurrentModel'
    BY <2>1, <2>2, <2>4, <2>5, <2>6, CurrentAppend
  <2>8. BackupStarted(queue) => BackupStarted(c)
    <3> HAVE BackupStarted(queue)
    <3>1. 1 \in DOMAIN queue /\ queue[1].started /\ queue[1].kind = "backup"
      BY <1>1 DEF BackupStarted
    <3>2. c[1].started /\ c[1].kind = "backup" /\ c # <<>>
      BY <2>2, <3>1 DEF Alike
    <3> QED BY <3>2 DEF BackupStarted
  <2> QED BY <1>2, <2>2, <2>6, <2>7, <2>8
<1> QED BY <1>3, <1>4, <1>5

\* The first operation leaves the queue.
LEMMA CurrentLeave ==
  ASSUME TypeOK, CurrentQueue, UNCHANGED <<text, contentVersion>>, Busy, Leave
  PROVE  CurrentQueue' /\ (CurrentModel /\ UNCHANGED model => CurrentModel')
<1>1. queue \in Seq(Operation) /\ queue # <<>> /\ queue' = Tail(queue)
  BY DEF TypeOK, Busy, Leave
<1>2. queue' \in Seq(Operation)
  BY <1>1
<1>3. \A i \in DOMAIN queue' : i + 1 \in DOMAIN queue /\ Alike(queue'[i], queue[i + 1])
  BY <1>1, TailOps DEF Alike
<1> QED BY <1>2, <1>3, CurrentOnwards

LEMMA CurrentType == ASSUME TypeOK, UsedOK, NumbersInv, TimerText, Type PROVE CurrentInv'
<1>1. used.texts \in Nat /\ text' = used.texts + 1 /\ UNCHANGED model
  BY BoundAssumption DEF Type, Use, UsedOK, Texts
<1>2. text' \notin Numbers /\ text' # Partial
  BY <1>1, NameAssumption DEF Numbers
<1>3. [Next]_vars
  BY DEF Next
<1>4. \A i \in DOMAIN queue' : queue'[i].text \in Numbers
  BY <1>3, QueueNumbers, QueueSteps
<1> QED
  BY <1>1, <1>2, <1>4
  DEF CurrentInv, CurrentQueue, CurrentModel, CurrentFile, OursKnown, Ours, NumbersInv

\* Writing begins with nothing in the file.
LEMMA CurrentStartOperation ==
  ASSUME TypeOK, CurrentInv, StartOperation PROVE CurrentInv'
<1> SUFFICES ASSUME CurrentQueue, CurrentModel, CurrentFile
             PROVE  CurrentQueue' /\ CurrentModel' /\ CurrentFile'
  BY DEF CurrentInv, Live, StartOperation, Busy, copy, history
<1>1. /\ UNCHANGED <<text, contentVersion, model, raced>> /\ queue # <<>>
      /\ queue' = [queue EXCEPT ![1].started = TRUE] /\ queue \in Seq(Operation)
  BY DEF StartOperation, copy, history, Busy, TypeOK
<1>2. Head(queue) = queue[1] /\ 1 \in DOMAIN queue /\ queue[1] \in Operation
  BY <1>1
<1>3. /\ queue' \in Seq(Operation) /\ queue' # <<>>
      /\ queue'[1].started /\ queue'[1].kind = queue[1].kind
      /\ \A i \in DOMAIN queue' : i + 0 \in DOMAIN queue /\ Alike(queue'[i], queue[i + 0])
  <2>1. queue' = [queue EXCEPT ![1] = [queue[1] EXCEPT !.started = TRUE]]
    BY <1>1
  <2>2. [queue[1] EXCEPT !.started = TRUE] \in Operation
    BY <1>2 DEF Operation
  <2>3. Alike([queue[1] EXCEPT !.started = TRUE], queue[1])
    BY <1>2 DEF Operation, Alike
  <2>4. /\ [queue[1] EXCEPT !.started = TRUE].started
        /\ [queue[1] EXCEPT !.started = TRUE].kind = queue[1].kind
    BY <1>2 DEF Operation
  <2> DEFINE op == [queue[1] EXCEPT !.started = TRUE]
  <2> HIDE DEF op
  <2>5. queue' = [queue EXCEPT ![1] = op] /\ op \in Operation
    BY <2>1, <2>2 DEF op
  <2>6. /\ queue' \in Seq(Operation) /\ DOMAIN queue' = DOMAIN queue /\ queue' # <<>>
        /\ queue'[1] = op /\ \A i \in DOMAIN queue : i # 1 => queue'[i] = queue[i]
    <3>0. queue \in Seq(Operation) /\ 1 \in DOMAIN queue
      BY <1>1, <1>2
    <3>1. DOMAIN queue' = DOMAIN queue /\ queue'[1] = op
      BY <1>2, <2>5
    <3>2. \A i \in DOMAIN queue : i # 1 => queue'[i] = queue[i]
      BY <2>5
    <3>3. queue' \in Seq(Operation)
      BY <2>5, <3>0
    <3>4. queue' # <<>>
      BY <1>2, <3>1
    <3> QED BY <3>1, <3>2, <3>3, <3>4
  <2>7. \A i \in DOMAIN queue : i + 0 = i
    BY <1>1
  <2>8. op.started /\ op.kind = queue[1].kind /\ Alike(op, queue[1])
    BY <2>3, <2>4 DEF op
  <2>9. \A i \in DOMAIN queue : Alike(queue'[i], queue[i])
    BY <2>6, <2>8 DEF Alike
  <2> QED BY <2>6, <2>7, <2>8, <2>9
<1>4. CurrentQueue' /\ CurrentModel'
  BY <1>1, <1>3, CurrentOnwards
<1>5. CASE queue[1].kind = "backup"
  BY <1>3, <1>4, <1>5 DEF CurrentFile, BackupStarted
<1>6. CASE queue[1].kind # "backup"
  <2>1. file' = file /\ ~BackupStarted(queue)
    BY <1>2, <1>6 DEF StartOperation, BackupStarted
  <2> QED BY <1>1, <1>4, <2>1, CurrentFileStays
<1> QED BY <1>5, <1>6

LEMMA CurrentFinish == ASSUME TypeOK, CurrentInv, FinishOperation PROVE CurrentInv'
<1> SUFFICES ASSUME CurrentQueue, CurrentModel PROVE CurrentQueue' /\ CurrentModel' /\ CurrentFile'
  BY DEF CurrentInv, Live, FinishOperation, Busy, copy, history
<1>1. /\ UNCHANGED <<text, contentVersion>> /\ Busy /\ Leave
      /\ queue' = Tail(queue) /\ queue # <<>> /\ queue \in Seq(Operation)
  BY DEF FinishOperation, copy, Busy, TypeOK, Leave
<1>2. Head(queue) = queue[1] /\ 1 \in DOMAIN queue /\ queue[1] \in Operation
  BY <1>1
<1>3. CurrentQueue'
  BY <1>1, CurrentLeave
<1> DEFINE op == queue[1]
<1>4. CASE op.kind = "backup"
  <2>1. /\ model' = [version |-> op.version, mtime |-> op.mtime, text |-> op.text]
        /\ file' = op.text \/ file' = None
    BY <1>2, <1>4 DEF FinishOperation, Note
  <2>2. file' # Partial
    BY <1>2, <2>1, NameAssumption DEF Operation, Texts
  <2>3. op.text = text => \A i \in DOMAIN queue' : queue'[i].kind = "backup" => Ours(queue'[i])
    <3> HAVE op.text = text
    <3>1. Ours(op)
      BY <1>4 DEF Ours
    <3>2. ASSUME NEW i \in DOMAIN queue', queue'[i].kind = "backup" PROVE Ours(queue'[i])
      <4>1. i + 1 \in DOMAIN queue /\ queue'[i] = queue[i + 1] /\ i + 1 > 1
        BY <1>1, TailOps
      <4> QED BY <1>2, <3>1, <3>2, <4>1 DEF CurrentQueue
    <3> QED BY <3>2
  <2>4. model'.text = op.text
    BY <2>1
  <2> QED BY <1>1, <1>3, <2>2, <2>3, <2>4 DEF CurrentModel, CurrentFile, OursKnown, Ours
<1>5. CASE op.kind # "backup"
  <2>1. model' = None
    BY <1>2, <1>5 DEF FinishOperation, Note
  <2> QED BY <1>3, <2>1 DEF CurrentModel, CurrentFile, OursKnown
<1> QED BY <1>4, <1>5

\* A write that fails over a backup of the same version is noted as raced.
LEMMA CurrentFails == ASSUME TypeOK, CurrentInv, OperationFails PROVE CurrentInv'
<1> SUFFICES ASSUME CurrentQueue, CurrentModel, CurrentFile
             PROVE  CurrentQueue' /\ CurrentModel' /\ CurrentFile'
  BY DEF CurrentInv, Live, OperationFails, Busy, copy
<1>1. UNCHANGED <<text, contentVersion, model, file>> /\ Busy /\ Leave
  BY DEF OperationFails, copy
<1>2. CurrentQueue' /\ CurrentModel'
  BY <1>1, CurrentLeave
<1>3. Head(queue) = queue[1] /\ 1 \in DOMAIN queue
  BY <1>1, TailOps DEF TypeOK, Busy
<1>4. ASSUME OursKnown, model.version = contentVersion, file = Partial PROVE raced'
  <2>1. CASE raced
    BY <2>1 DEF OperationFails
  <2>2. CASE BackupStarted(queue)
    <3>1. Ours(queue[1]) /\ queue[1].version = contentVersion /\ queue[1].kind = "backup"
      BY <1>3, <1>4, <2>2 DEF BackupStarted, CurrentModel, CurrentQueue
    <3> QED BY <1>3, <1>4, <3>1 DEF OperationFails, OursKnown, Ours
  <2> QED BY <1>4, <2>1, <2>2 DEF CurrentFile
<1>5. CurrentFile'
  BY <1>1, <1>4 DEF CurrentFile, OursKnown
<1> QED BY <1>2, <1>5

\* The text of a backup that is opened is the only one there is.
LEMMA CurrentOpen == ASSUME TypeOK, CurrentInv, SavingInv, OpenEditor PROVE CurrentInv'
<1>1. Up /\ ~dirty /\ ~saving.going /\ ~slow /\ queue = <<>> /\ UNCHANGED <<saving, slow, file>>
  BY DEF OpenEditor, SavingInv
<1>2. CASE UNCHANGED dirty
  BY <1>1, <1>2 DEF CurrentInv, Live
<1>3. CASE Readable /\ ScheduleBackup
  <2>1. queue' = Cancelled(FALSE) /\ DOMAIN queue' = {} /\ file' # Partial
    BY <1>1, <1>3 DEF ScheduleBackup, Cancelled, Readable
  <2> QED BY <2>1 DEF CurrentInv, CurrentQueue, CurrentModel, CurrentFile
<1> QED BY <1>2, <1>3 DEF OpenEditor

LEMMA CurrentStay ==
  ASSUME BackupsInv, NumbersInv, TimerText, CurrentInv, SavingInv, [Next]_vars PROVE CurrentInv'
<1> USE DEF copy, store, history
<1>0. TypeOK /\ UsedOK
  BY DEF BackupsInv
<1>1. CASE Type
  BY <1>0, <1>1, CurrentType
<1>2. CASE Save
  <2>1. /\ UNCHANGED <<text, contentVersion, model, file, raced>> /\ (Live' => Live)
        /\ queue' = queue \/ queue' = Cancelled(FALSE) \/ queue' = Append(Cancelled(FALSE), Discard(FALSE))
        /\ Running
    BY <1>2 DEF Save, BeginSave, SaveEnds, SaveFails, Live, Unscheduled, ScheduleBackup,
                DiscardBackup, NotSaving
  <2> QED BY <1>0, <2>1, CurrentCancelled, CurrentQueued DEF CurrentInv
<1>3. CASE Revert \/ CloseEditor
  <2>1. /\ UNCHANGED <<model, file, raced, saving, slow>> /\ Running /\ Up /\ ~slow
        /\ queue' = Append(Cancelled(FALSE), Discard(FALSE))
    BY <1>3 DEF Revert, CloseEditor, DiscardBackup, SavingInv, Up, Running
  <2>2. ~dirty' /\ (saving.going => UNCHANGED <<text, contentVersion>>)
    BY <1>3 DEF Revert, CloseEditor
  <2>3. Live' => Live /\ UNCHANGED <<text, contentVersion>>
    BY <2>1, <2>2 DEF Live
  <2> QED BY <1>0, <2>1, <2>3, CurrentQueued DEF CurrentInv
<1>4. CASE OpenEditor
  BY <1>0, <1>4, CurrentOpen
<1>5. CASE \/ Ready \/ Restored \/ TimerFires \/ Close \/ StopWaiting \/ Confirm \/ Failed
           \/ StopDiscarding \/ WillShutdown \/ UNCHANGED vars
  <2>1. /\ UNCHANGED <<text, contentVersion, model, file, dirty, saving, raced>>
        /\ slow' \in {slow, FALSE} /\ (Running' => Running)
        /\ queue' = queue \/ \E final \in BOOLEAN : queue' = Cancelled(final)
    BY <1>5 DEF Ready, Restored, TimerFires, Close, CancelAll, StopWaiting, Confirm, Failed, Veto,
                StopDiscarding, WillShutdown, vars, Running, Up
  <2> QED BY <1>0, <2>1, CurrentCancelled DEF CurrentInv, Live
<1>6. CASE QueueBackup \/ BackupBeforeShutdown
  <2>1. /\ UNCHANGED <<text, contentVersion, model, file, dirty, saving, slow>> /\ Running
        /\ queue' = queue \/ \E final \in BOOLEAN : queue' = Append(queue, Backup(text, final))
        /\ raced' = raced \/ \E v, t : Taken(v, t)
    BY <1>6 DEF QueueBackup, BackupBeforeShutdown, TimerText, Running
  <2>2. raced => raced'
    BY <1>0, <2>1, TakenTyped DEF TypeOK
  <2> QED BY <1>0, <2>1, <2>2, CurrentCancelled, CurrentQueued DEF CurrentInv, Live
<1>7. CASE SavedOrNot \/ DontSave
  <2>1. /\ UNCHANGED <<text, contentVersion, model, file, saving, raced>> /\ Running
        /\ dirty' \in {dirty, FALSE} /\ slow' \in {slow, FALSE}
        /\ queue' = queue \/ queue' = Append(queue, Discard(TRUE))
    BY <1>7 DEF SavedOrNot, DontSave, Veto, NoVeto, Running
  <2> QED BY <1>0, <2>1, CurrentCancelled, CurrentQueued DEF CurrentInv, Live
<1>8. CASE SkipOperation
  <2>1. /\ UNCHANGED <<text, contentVersion, model, file, dirty, saving, slow>> /\ Busy /\ Leave
        /\ raced' = raced \/ \E v, t : Taken(v, t)
        /\ ~BackupStarted(queue)
    BY <1>0, <1>8 DEF SkipOperation, BackupStarted, TypeOK, Busy
  <2>2. raced => raced'
    BY <1>0, <2>1, TakenTyped DEF TypeOK
  <2> QED BY <1>0, <2>1, <2>2, CurrentLeave, CurrentFileStays DEF CurrentInv, Live, Busy
<1>9. CASE StartOperation
  BY <1>0, <1>9, CurrentStartOperation
<1>10. CASE FinishOperation
  BY <1>0, <1>10, CurrentFinish
<1>11. CASE OperationFails
  BY <1>0, <1>11, CurrentFails
<1>12. CASE DeleteFolder
  <2>1. /\ UNCHANGED <<text, contentVersion, dirty, saving, slow, queue>> /\ Running
        /\ raced => raced'
        /\ UNCHANGED <<model, file>> \/ model' = None
    BY <1>0, <1>12 DEF DeleteFolder, Running, TypeOK
  <2>2. CASE UNCHANGED <<model, file>>
    BY <1>0, <2>1, <2>2, CurrentCancelled DEF CurrentInv, Live
  <2>3. CASE model' = None
    BY <2>1, <2>3 DEF CurrentInv, Live, CurrentQueue, CurrentModel, CurrentFile, OursKnown, Ours
  <2> QED BY <2>1, <2>2, <2>3
<1>13. CASE Quit \/ Crash
  BY <1>13 DEF Quit, Crash, CutOff, CurrentInv, Running
<1>14. CASE Start
  <2>1. ~dirty' /\ ~saving'.going /\ ~slow'
    BY <1>14 DEF Start, BackupsInv, DownInv, NotSaving
  <2> QED BY <2>1 DEF CurrentInv, Live
<1> QED BY <1>1, <1>2, <1>3, <1>4, <1>5, <1>6, <1>7, <1>8, <1>9, <1>10, <1>11, <1>12, <1>13, <1>14
        DEF Next, Work, Operate, Closing

----------------------------------------------------------------------------
(* What is still to be done for the text (PlanInv): operations that are    *)
(* dead were cancelled and tell nobody of their end, and behind them there *)
(* is at most the one that the tracker or the shutdown waits for.  When    *)
(* nothing is to be done any more, the text is safe (KeepInv).             *)

Dead(op) == op.cancelled /\ (op.final => op.kind = "backup")
AllDead == \A i \in DOMAIN queue : Dead(queue[i])
End == queue[Len(queue)]

\* The shutdown waits for the last operation of the queue.
WaitsFor(kind) ==
  /\ queue # <<>> /\ End.kind = kind /\ End.final /\ ~End.cancelled
  /\ \A i \in DOMAIN queue : Dead(queue[i]) \/ i = Len(queue)

UpQueue == \A i \in DOMAIN queue :
             Dead(queue[i]) \/ (i = Len(queue) /\ ~queue[i].cancelled /\ ~queue[i].final)

NoFinalBackup == \A i \in DOMAIN queue :
                   queue[i].final /\ queue[i].kind = "backup" => queue[i].cancelled

LastDiscards == \A i \in DOMAIN queue :
                  Dead(queue[i]) \/ (i = Len(queue) /\ queue[i].kind = "discard" /\ ~queue[i].final)

Choosing == {"saving", "usersaving", "backup", "asking", "failed"}

\* A text that was not restored yet is left alone.
UnrestoredInv ==
  editor = "unrestored" =>
    /\ file = text /\ Readable /\ model # None /\ queue = <<>> /\ timer.step = "no"
    /\ tracker # "restored" /\ phase \in {"up", "clearing", "leaving", "joining", "down"}

PlanInv ==
  /\ timer.step # "no" => (Up /\ AllDead) \/ (phase = "leaving" /\ late)
  /\ Up => UpQueue
  /\ phase \in Choosing => AllDead
  /\ phase = "backup" => dirty \/ slow
  /\ phase = "backing" => (dirty \/ slow) /\ WaitsFor("backup") /\ (~late => Ours(End))
  /\ phase = "discarding" => WaitsFor("discard") /\ (~late => ~dirty)
  /\ phase = "clearing" => AllDead /\ (~late => ~dirty)
  /\ phase = "leaving" => NoFinalBackup /\ (~late => AllDead \/ (slow /\ LastDiscards))
  /\ phase = "joining" => NoFinalBackup /\ (~late => AllDead)

Safe == IF Unsaved THEN file = text ELSE ~Readable
SafeOrBare == IF Unsaved THEN file = text ELSE bare \/ ~Readable \/ (slow /\ file = saved)
Planned == queue # <<>> /\ ~End.cancelled /\ IF dirty THEN Ours(End) ELSE End.kind = "discard"

KeepInv ==
  /\ Up /\ ~bare /\ ~raced => timer.step # "no" \/ Planned \/ (AllDead /\ ~Started /\ Safe)
  /\ phase \in {"leaving", "joining"} /\ ~late /\ ~raced =>
       SafeOrBare /\ (Started => ~Unsaved /\ (bare \/ queue[1].kind = "discard"))
  /\ phase = "down" /\ ~late /\ ~raced => SafeOrBare

AllInv == BackupsInv /\ NumbersInv /\ CurrentInv /\ TimerText /\ SavingInv /\ UnrestoredInv
          /\ PlanInv /\ KeepInv
Kept == TimerText /\ PlanInv /\ KeepInv

\* A text that is unsaved, or waits for an operation, is not left in its backup.
LEMMA OpenIfBusy ==
  ASSUME AllInv, dirty \/ saving.going \/ queue # <<>> \/ timer.step # "no"
  PROVE  editor # "unrestored" /\ (Unsaved <=> dirty)
BY DEF AllInv, SavingInv, UnrestoredInv, Unsaved

\* A backup of the text that the table knows of is in the file.
LEMMA KnownIsWritten ==
  ASSUME AllInv, Running, Live, ~raced, model # None, model.text = text,
         model.version = contentVersion, ~BackupStarted(queue)
  PROVE  file = text
BY DEF AllInv, BackupsInv, Table, Known, CurrentInv, CurrentFile, OursKnown

LEMMA SavingStays == ASSUME AllInv, [Next]_vars PROVE SavingInv'
<1> USE DEF copy, history, store
<1>0. SavingInv /\ contentVersion \in Nat
  BY DEF AllInv, BackupsInv, TypeOK
<1>1. CASE Type
  <2>1. contentVersion' = contentVersion + 1 /\ dirty' = TRUE /\ slow' = FALSE /\ editor = "open"
        /\ UNCHANGED <<saving, editor, phase>> /\ Running
    BY <1>1 DEF Type
  <2>2. saving.version \in Nat
    BY DEF AllInv, BackupsInv, TypeOK
  <2> QED BY <1>0, <2>1, <2>2 DEF SavingInv, Running, Up
<1>2. CASE BeginSave
  <2>1. /\ saving' = [going |-> TRUE, text |-> text, version |-> contentVersion]
        /\ UNCHANGED <<text, saved, dirty, contentVersion, editor, phase, slow>> /\ dirty /\ Running
    BY <1>2 DEF BeginSave
  <2>2. saving'.going /\ saving'.text = text /\ saving'.version = contentVersion
    BY <2>1
  <2>3. ~slow /\ editor = "open"
    BY <1>0, <2>1 DEF SavingInv
  <2>4. /\ (dirty \/ saving.going => editor = "open")'
        /\ saving'.version <= contentVersion'
    BY <1>0, <2>1, <2>2, <2>3
  <2>5. ~slow' /\ Running' /\ saving'.text = text'
    BY <2>1, <2>2, <2>3 DEF Running
  <2> QED BY <2>4, <2>5 DEF SavingInv
<1>3. CASE SaveEnds
  <2>1. /\ saving.going /\ ~saving'.going /\ saved' = saving.text /\ phase' = phase
        /\ UNCHANGED <<text, contentVersion, editor>>
    BY <1>3 DEF SaveEnds, NotSaving
  <2>2. ~slow /\ editor = "open"
    BY <1>0, <2>1 DEF SavingInv
  <2>3. slow' => /\ ~dirty' /\ saving.version = contentVersion /\ ~Up
    <3>1. CASE UNCHANGED slow
      BY <2>2, <3>1
    <3>2. CASE slow' = (phase \notin Saving) /\ dirty' = FALSE /\ saving.version = contentVersion
      BY <3>2 DEF Saving, Up
    <3> QED BY <1>3, <3>1, <3>2 DEF SaveEnds
  <2>4. slow' => saved' = text' /\ ~Up'
    BY <1>0, <2>1, <2>3 DEF SavingInv, Up
  <2> QED BY <2>1, <2>2, <2>3, <2>4 DEF SavingInv
<1>4. CASE SaveFails
  BY <1>0, <1>4 DEF SaveFails, SavingInv, NotSaving
<1>5. CASE Revert
  <2>1. contentVersion \in Nat /\ UNCHANGED <<saving, editor, phase, slow>> /\ dirty' = FALSE /\ Up
        /\ (saving.going => UNCHANGED <<text, contentVersion>>)
    BY <1>0, <1>5 DEF Revert
  <2> QED BY <1>0, <2>1 DEF SavingInv, Running, Up
<1>6. CASE CloseEditor \/ OpenEditor
  BY <1>0, <1>6 DEF CloseEditor, OpenEditor, SavingInv, Up
<1>7. CASE \/ Ready \/ Restored \/ TimerFires \/ QueueBackup \/ StartOperation
           \/ BackupBeforeShutdown \/ StopWaiting \/ UNCHANGED vars
  <2>1. /\ UNCHANGED <<text, saved, dirty, contentVersion, editor, saving, slow>>
        /\ (Running => Running') /\ (~Up => ~Up')
    BY <1>7 DEF Ready, Restored, TimerFires, QueueBackup, StartOperation, BackupBeforeShutdown,
                StopWaiting, vars, Running, Up
  <2> QED BY <1>0, <2>1 DEF SavingInv
<1>8. CASE SkipOperation \/ FinishOperation \/ OperationFails
  <2>1. /\ UNCHANGED <<text, saved, dirty, contentVersion, editor, saving, slow>> /\ Running
        /\ \E step \in {"leaving", "failed"} : Ended(Head(queue), step)
    BY <1>8 DEF SkipOperation, FinishOperation, OperationFails, Busy
  <2>2. phase' \in {phase, "leaving", "failed"}
    BY <2>1 DEF Ended
  <2> QED BY <1>0, <2>1, <2>2 DEF SavingInv, Running, Up
<1>9. CASE Close \/ StopDiscarding \/ DeleteFolder \/ WillShutdown
  <2>1. /\ UNCHANGED <<text, saved, dirty, contentVersion, editor, saving, slow>>
        /\ Running' /\ ~Up'
    BY <1>9 DEF Close, StopDiscarding, DeleteFolder, WillShutdown, Running, Up
  <2> QED BY <1>0, <2>1 DEF SavingInv, Running, Up
<1>10. CASE SavedOrNot \/ Confirm \/ DontSave \/ Failed
  <2>1. UNCHANGED <<text, saved, contentVersion, editor, saving>> /\ dirty' \in {dirty, FALSE}
    BY <1>10 DEF SavedOrNot, Confirm, DontSave, Failed
  <2>2. Veto => Running' /\ slow' = FALSE
    BY DEF Veto, Running
  <2>3. NoVeto => Running' /\ slow' = slow /\ ~Up'
    BY DEF NoVeto, Running, Up
  <2>4. Running' /\ (slow' = FALSE \/ (slow' = slow /\ ~Up'))
    BY <1>10, <2>2, <2>3 DEF SavedOrNot, Confirm, DontSave, Failed, Running, Up
  <2>5. dirty' => dirty
    BY <2>1
  <2>6. /\ (dirty \/ saving.going => editor = "open")'
        /\ saving'.going => /\ saving'.version <= contentVersion'
                            /\ saving'.version = contentVersion' => saving'.text = text'
    BY <1>0, <2>1, <2>5 DEF SavingInv
  <2>7. slow' => ~dirty' /\ ~saving'.going /\ saved' = text' /\ ~Up'
    BY <1>0, <2>1, <2>4, <2>5 DEF SavingInv
  <2> QED BY <2>4, <2>6, <2>7 DEF SavingInv
<1>11. CASE Quit \/ Crash
  BY <1>0, <1>11 DEF Quit, Crash, CutOff, SavingInv, NotSaving, Up
<1>12. CASE Start
  BY <1>12 DEF Start, SavingInv, AllInv, BackupsInv, DownInv, NotSaving
<1> QED BY <1>1, <1>2, <1>3, <1>4, <1>5, <1>6, <1>7, <1>8, <1>9, <1>10, <1>11, <1>12
        DEF Next, Save, Work, Operate, Closing

LEMMA UnrestoredStays == ASSUME AllInv, [Next]_vars PROVE UnrestoredInv'
<1> USE DEF copy, history, store
<1>1. CASE Start
  <2>1. queue' = <<>> /\ timer'.step = "no" /\ tracker' = "starting" /\ phase' = "up"
        /\ UNCHANGED file
    BY <1>1 DEF Start, AllInv, BackupsInv, DownInv, NoTimer
  <2>2. CASE Readable
    <3>1. model' = [version |-> 0, mtime |-> mtime, text |-> file] /\ text' = file
      <4>1. model' = [version |-> 0, mtime |-> mtime, text |-> file]
        <5>1. model' = CASE Readable -> [version |-> 0, mtime |-> mtime, text |-> file]
                         [] file = Partial -> [version |-> 0, mtime |-> None, text |-> Partial]
                         [] OTHER -> None
          BY Zenon, <1>1 DEF Start
        <5>2. ~(file = Partial)
          BY <2>2 DEF Readable
        <5> QED BY Zenon, <2>2, <5>1, <5>2
      <4>2. text' = file
        BY <1>1, <2>2 DEF Start
      <4> QED BY <4>1, <4>2
    <3>2. mtime \in Nat /\ file \in Nat
      BY <2>2, BoundAssumption DEF AllInv, BackupsInv, TypeOK, Readable, Texts
    <3>3. model' # None
      BY <3>1, <3>2, NameAssumption
    <3> QED BY <2>1, <2>2, <3>1, <3>3 DEF UnrestoredInv, Readable
  <2>3. CASE ~Readable
    BY <1>1, <2>3 DEF Start, UnrestoredInv
  <2> QED BY <2>2, <2>3
<1>2. CASE ~Start
  <2>1. editor' = "unrestored" => editor = "unrestored"
    BY <1>2 DEF Next, Save, Work, Operate, Closing, vars, Type, BeginSave, SaveEnds, SaveFails, Revert,
         CloseEditor, OpenEditor, Ready, Restored, TimerFires, QueueBackup, SkipOperation,
         StartOperation, FinishOperation, OperationFails, Close, BackupBeforeShutdown, StopWaiting,
         SavedOrNot, Confirm, DontSave, Failed, StopDiscarding, DeleteFolder, WillShutdown, Quit,
         Crash
  <2> SUFFICES ASSUME editor' = "unrestored" PROVE UnrestoredInv'
    BY DEF UnrestoredInv
  <2>2. /\ file = text /\ Readable /\ model # None /\ queue = <<>> /\ timer.step = "no"
        /\ tracker # "restored" /\ phase \in {"up", "clearing", "leaving", "joining", "down"}
        /\ ~dirty /\ ~saving.going /\ editor = "unrestored"
    BY <2>1 DEF AllInv, UnrestoredInv, SavingInv
  <2>3. CASE Ready
    BY <2>2, <2>3 DEF Ready, UnrestoredInv, Readable
  <2>4. CASE Close
    <3>1. queue' = <<>>
      BY <2>2, <2>4 DEF Close, CancelAll, Cancelled
    <3> QED BY <2>2, <2>4, <3>1 DEF Close, CancelAll, UnrestoredInv, Readable, NoTimer
  <2>5. CASE StopDiscarding \/ DeleteFolder
    BY <2>2, <2>5 DEF StopDiscarding, DeleteFolder, UnrestoredInv, Readable
  <2>6. CASE WillShutdown
    <3>1. queue' = <<>>
      BY <2>2, <2>6 DEF WillShutdown, CancelAll, Cancelled
    <3> QED BY <2>2, <2>6, <3>1 DEF WillShutdown, CancelAll, UnrestoredInv, Readable, NoTimer
  <2>7. CASE Quit \/ Crash
    BY <2>2, <2>7 DEF Quit, Crash, CutOff, UnrestoredInv, Readable, NoTimer
  <2>8. CASE UNCHANGED vars
    BY <2>2, <2>8 DEF vars, UnrestoredInv, Readable
  <2>9. ~(\/ Type \/ Save \/ Revert \/ CloseEditor \/ Restored \/ TimerFires \/ QueueBackup
          \/ Operate \/ OperationFails)
    BY <2>2 DEF Type, Save, BeginSave, SaveEnds, SaveFails, Revert, CloseEditor, Restored, TimerFires,
         QueueBackup, Operate, SkipOperation, StartOperation, FinishOperation, OperationFails, Busy
  <2>10. ~(OpenEditor \/ BackupBeforeShutdown \/ StopWaiting \/ SavedOrNot \/ Confirm \/ DontSave \/ Failed)
    <3>1. ~OpenEditor
      BY <2>1 DEF OpenEditor
    <3> QED BY <2>2, <3>1 DEF BackupBeforeShutdown, StopWaiting, SavedOrNot, Confirm, DontSave, Failed
  <2> QED BY <1>2, <2>3, <2>4, <2>5, <2>6, <2>7, <2>8, <2>9, <2>10 DEF Next, Work, Closing
<1> QED BY <1>1, <1>2

\* What the tracker cancels while the window is up is dead.
LEMMA CancelledDead ==
  ASSUME AllInv, Up
  PROVE  /\ Cancelled(FALSE) \in Seq(Operation)
         /\ \A i \in DOMAIN Cancelled(FALSE) : Dead(Cancelled(FALSE)[i])
<1>1. TypeOK /\ InOrder(queue) /\ UpQueue
  BY DEF AllInv, BackupsInv, TypeOK, InOrder, PlanInv
<1>2. Cancelled(FALSE) \in Seq(Operation)
  BY <1>1, CancelledInOrder DEF InOrder
<1>3. ASSUME NEW i \in DOMAIN queue PROVE Dead(Cancelled(FALSE)[i])
  <2>1. queue[i].final \in BOOLEAN
    <3>1. queue[i] \in Operation
      BY <1>1 DEF InOrder
    <3> QED BY <3>1 DEF Operation
  <2> QED BY <1>1, <2>1, CancelledOps DEF UpQueue, Dead
<1> QED BY <1>1, <1>2, <1>3, CancelledOps

\* What is dead, or must be, stays so when operations are cancelled.
LEMMA CancelledStill ==
  ASSUME AllInv
  PROVE  /\ Cancelled(FALSE) \in Seq(Operation) /\ DOMAIN Cancelled(FALSE) = DOMAIN queue
         /\ \A i \in DOMAIN queue : Dead(queue[i]) => Dead(Cancelled(FALSE)[i])
         /\ LastDiscards => \A i \in DOMAIN queue : Dead(Cancelled(FALSE)[i])
         /\ NoFinalBackup => \A i \in DOMAIN queue :
              Cancelled(FALSE)[i].final /\ Cancelled(FALSE)[i].kind = "backup" => Cancelled(FALSE)[i].cancelled
         /\ ~Started => \A i \in DOMAIN queue : ~Cancelled(FALSE)[i].started
<1>1. TypeOK /\ InOrder(queue)
  BY DEF AllInv, BackupsInv, TypeOK, InOrder
<1>2. Cancelled(FALSE) \in Seq(Operation) /\ DOMAIN Cancelled(FALSE) = DOMAIN queue
  BY <1>1, CancelledInOrder, CancelledOps DEF InOrder
<1>3. \A i \in DOMAIN queue : Dead(queue[i]) => Dead(Cancelled(FALSE)[i])
  BY <1>1, CancelledOps DEF Dead
<1>4. ASSUME LastDiscards, NEW i \in DOMAIN queue PROVE Dead(Cancelled(FALSE)[i])
  <2>1. queue[i].final \in BOOLEAN
    <3>1. queue[i] \in Operation
      BY <1>1 DEF InOrder
    <3> QED BY <3>1 DEF Operation
  <2> QED BY <1>1, <1>3, <1>4, <2>1, CancelledOps DEF LastDiscards, Dead
<1>5. NoFinalBackup => \A i \in DOMAIN queue :
        Cancelled(FALSE)[i].final /\ Cancelled(FALSE)[i].kind = "backup" => Cancelled(FALSE)[i].cancelled
  BY <1>1, CancelledOps DEF NoFinalBackup
<1>6. ~Started => \A i \in DOMAIN queue : ~Cancelled(FALSE)[i].started
  BY <1>1, CancelledOps DEF Started
<1> QED BY <1>2, <1>3, <1>4, <1>5, <1>6

\* What an operation behind dead ones makes of the queue.
LEMMA AppendDead ==
  ASSUME NEW q \in Seq(Operation), \A i \in DOMAIN q : Dead(q[i]), NEW op, queue' = Append(q, op)
  PROVE  /\ queue' # <<>> /\ End' = op
         /\ \A i \in DOMAIN queue' : Dead(queue'[i]) \/ (i = Len(queue') /\ queue'[i] = op)
BY AppendOps DEF End

\* A step that changes neither text nor queue.
LEMMA NothingPlans ==
  ASSUME AllInv,
         UNCHANGED <<text, saved, dirty, editor, timer, queue, file, phase, bare, late, slow, raced>>
  PROVE  Kept'
<1>1. TimerText'
  BY DEF AllInv, TimerText
<1>2. PlanInv'
  BY DEF AllInv, PlanInv, Up, UpQueue, AllDead, WaitsFor, Ours, End, NoFinalBackup, LastDiscards
<1>3. KeepInv'
  BY DEF AllInv, KeepInv, Up, Planned, AllDead, Ours, End, Started, Safe, SafeOrBare, Unsaved, Readable
<1> QED BY <1>1, <1>2, <1>3 DEF Kept

\* The text becomes unsaved, or another one is unsaved.
LEMMA UnsavedPlans ==
  ASSUME AllInv, Running, dirty', UNCHANGED <<phase, file, raced>>,
         late => late', phase \notin Saving \cup {"backup"} => late' \/ Up,
         IF Suspended THEN Unscheduled ELSE ScheduleBackup
  PROVE  Kept'
<1>2. CASE Suspended
  <2>1. timer.step = "no" /\ timer' = timer /\ queue' = queue
    BY <1>2 DEF Suspended, AllInv, PlanInv, Up, Unscheduled
  <2>2. PlanInv'
    BY <1>2, <2>1
    DEF AllInv, PlanInv, Suspended, Up, Choosing, Saving, AllDead, WaitsFor, End, NoFinalBackup
  <2> QED BY <1>2, <2>1, <2>2 DEF Kept, TimerText, KeepInv, Suspended, Saving, Up, Running
<1>3. CASE ~Suspended
  <2>1. timer' = [step |-> "waiting", text |-> 0] /\ queue' = Cancelled(FALSE)
    BY <1>3 DEF ScheduleBackup
  <2>2. timer'.step = "waiting"
    BY <2>1
  <2>3. CASE Up
    <3>1. AllDead' /\ UpQueue'
      BY <2>1, <2>3, CancelledDead DEF AllDead, UpQueue
    <3> QED BY <2>2, <2>3, <3>1 DEF Kept, TimerText, PlanInv, KeepInv, Up, Choosing
  <2>4. CASE phase = "leaving"
    <3>1. late'
      BY <2>4 DEF Saving, Up
    <3>2. NoFinalBackup'
      BY <2>1, <2>4, CancelledStill DEF AllInv, PlanInv, NoFinalBackup
    <3> QED BY <2>2, <2>4, <3>1, <3>2 DEF Kept, TimerText, PlanInv, KeepInv, Up, Choosing
  <2> QED BY <1>3, <2>3, <2>4 DEF Suspended, Up
<1> QED BY <1>2, <1>3

\* A text that needs no backup any more: the deletion is planned.
LEMMA DiscardPlans ==
  ASSUME AllInv, Up, ~dirty', UNCHANGED phase, DiscardBackup
  PROVE  Kept'
<1>1. timer' = NoTimer /\ queue' = Append(Cancelled(FALSE), Discard(FALSE))
  BY DEF DiscardBackup
<1>2. timer'.step = "no"
  BY <1>1 DEF NoTimer
<1>3. /\ queue' # <<>> /\ End' = Discard(FALSE)
      /\ \A i \in DOMAIN queue' : Dead(queue'[i]) \/ (i = Len(queue') /\ queue'[i] = Discard(FALSE))
  BY <1>1, CancelledDead, AppendDead
<1>4. /\ Discard(FALSE).kind = "discard" /\ ~Discard(FALSE).final /\ ~Discard(FALSE).cancelled
  BY DEF Discard
<1>5. Planned' /\ UpQueue'
  BY <1>3, <1>4 DEF Planned, UpQueue
<1> QED BY <1>2, <1>5 DEF Kept, TimerText, PlanInv, KeepInv, Up, Choosing

LEMMA TypePlans == ASSUME AllInv, Type PROVE Kept'
<1>1. late \in BOOLEAN
  BY DEF AllInv, BackupsInv, TypeOK
<1>2. /\ Running /\ dirty' = TRUE /\ UNCHANGED <<phase, file, raced>>
      /\ late' = (late \/ phase \notin Saving \cup {"backup"})
      /\ IF Suspended THEN Unscheduled ELSE ScheduleBackup
  BY DEF Type
<1> QED BY <1>1, <1>2, UnsavedPlans

\* The end of a save that leaves the text unsaved, or that nobody waits for.
LEMMA SaveGoesPlans ==
  ASSUME AllInv, SaveEnds, UNCHANGED <<dirty, slow>>, Unscheduled
  PROVE  Kept'
<1>1. /\ UNCHANGED <<text, dirty, slow, editor, timer, queue, file, phase, bare, late, raced>>
      /\ saving.going
  BY DEF SaveEnds, Unscheduled
<1>2. ~slow /\ TimerText' /\ PlanInv'
  BY <1>1 DEF AllInv, SavingInv, TimerText, PlanInv, Up, UpQueue, AllDead, WaitsFor, Ours, End,
              NoFinalBackup, LastDiscards
<1>3. KeepInv'
  BY <1>1, <1>2
  DEF AllInv, KeepInv, Up, Planned, AllDead, Ours, End, Started, Safe, SafeOrBare, Unsaved, Readable
<1> QED BY <1>2, <1>3 DEF Kept

\* The end of a save that makes the text a saved one.  When it ends after the
\* text has been backed up, the backup is of the text that was saved.
LEMMA SaveEndsPlans == ASSUME AllInv, SaveEnds PROVE Kept'
<1>1. CASE dirty /\ saving.version = contentVersion
  <2>1. /\ ~dirty' /\ saved' = text /\ UNCHANGED <<text, editor, file, phase, late, raced>>
        /\ IF Suspended THEN Unscheduled ELSE DiscardBackup
        /\ slow' = (phase \notin Saving) /\ editor = "open" /\ Running /\ dirty
    BY <1>1 DEF SaveEnds, AllInv, SavingInv
  <2>2. CASE Up
    <3>1. DiscardBackup
      BY <2>1, <2>2 DEF Suspended, Up
    <3> QED BY <2>1, <2>2, <3>1, DiscardPlans
  <2>3. CASE Suspended
    <3>1. timer.step = "no" /\ UNCHANGED <<timer, queue, bare>>
      BY <2>1, <2>3 DEF Suspended, AllInv, PlanInv, Up, Unscheduled
    <3>2. PlanInv'
      BY <2>1, <2>3, <3>1
      DEF AllInv, PlanInv, Suspended, Up, Choosing, Saving, AllDead, WaitsFor, Ours, End, NoFinalBackup
    <3>3. phase = "joining" /\ ~late /\ ~raced => SafeOrBare' /\ ~Started'
      <4> HAVE phase = "joining" /\ ~late /\ ~raced
      <4>1. file = text /\ ~Started
        BY <2>1 DEF AllInv, KeepInv, SafeOrBare, Unsaved
      <4> QED BY <2>1, <3>1, <4>1 DEF SafeOrBare, Unsaved, Saving, Started
    <3>4. KeepInv'
      BY <2>1, <2>3, <3>3 DEF KeepInv, Suspended, Up, Running
    <3> QED BY <2>1, <3>1, <3>2, <3>4 DEF Kept, TimerText
  <2>4. CASE phase = "leaving"
    <3>1. timer' = NoTimer /\ queue' = Append(Cancelled(FALSE), Discard(FALSE)) /\ slow'
      BY <2>1, <2>4 DEF Suspended, DiscardBackup, Saving
    <3>2. /\ Discard(FALSE).kind = "discard" /\ ~Discard(FALSE).final /\ ~Discard(FALSE).cancelled
          /\ ~Discard(FALSE).started
      BY DEF Discard
    <3>3. \A i \in DOMAIN queue' : \/ i = Len(queue') /\ queue'[i] = Discard(FALSE)
                                   \/ i \in DOMAIN queue /\ queue'[i] = Cancelled(FALSE)[i]
      <4> DEFINE c == Cancelled(FALSE)
      <4>1. c \in Seq(Operation) /\ DOMAIN c = DOMAIN queue /\ queue' = Append(c, Discard(FALSE))
        BY <3>1, CancelledStill
      <4> HIDE DEF c
      <4>2. Len(queue') = Len(c) + 1
        BY <4>1, AppendOps
      <4>3. \A i \in DOMAIN queue' : \/ i = Len(c) + 1 /\ queue'[i] = Discard(FALSE)
                                     \/ i \in DOMAIN c /\ queue'[i] = c[i]
        BY Zenon, <4>1, AppendOps
      <4> QED BY Zenon, <4>1, <4>2, <4>3 DEF c
    <3>4. NoFinalBackup'
      BY <2>4, <3>2, <3>3, CancelledStill DEF AllInv, PlanInv, NoFinalBackup
    <3>5. ~late => LastDiscards'
      <4> HAVE ~late
      <4>1. AllDead
        BY <2>1, <2>4 DEF AllInv, PlanInv, SavingInv
      <4> QED BY <3>2, <3>3, <4>1, CancelledStill DEF AllDead, LastDiscards
    <3>6. ~late /\ ~raced => SafeOrBare' /\ ~Started'
      <4> HAVE ~late /\ ~raced
      <4>1. file = text /\ ~Started
        BY <2>1, <2>4 DEF AllInv, KeepInv, SafeOrBare, Unsaved
      <4>2. ~Started'
        BY <3>2, <3>3, <4>1, CancelledStill DEF Started
      <4> QED BY <2>1, <3>1, <4>1, <4>2 DEF SafeOrBare, Unsaved
    <3> QED BY <2>1, <2>4, <3>1, <3>4, <3>5, <3>6
            DEF Kept, TimerText, PlanInv, KeepInv, Up, Choosing, NoTimer
  <2> QED BY <2>1, <2>2, <2>3, <2>4 DEF Suspended, Up
<1>2. CASE UNCHANGED <<dirty, slow>> /\ Unscheduled
  BY <1>2, SaveGoesPlans
<1> QED BY <1>1, <1>2 DEF SaveEnds

LEMMA SaveFailsPlans == ASSUME AllInv, SaveFails PROVE Kept'
<1>1. /\ Running /\ dirty' = TRUE /\ late' = (late \/ (~dirty /\ phase \notin Saving))
      /\ UNCHANGED <<text, saved, editor, file, phase, slow, raced>>
      /\ IF dirty \/ Suspended THEN Unscheduled ELSE ScheduleBackup
      /\ dirty \in BOOLEAN /\ late \in BOOLEAN
  BY DEF SaveFails, AllInv, BackupsInv, TypeOK
<1>2. CASE dirty
  BY <1>1, <1>2, NothingPlans DEF Unscheduled
<1>3. CASE ~dirty
  BY <1>1, <1>3, UnsavedPlans
<1> QED BY <1>2, <1>3

LEMMA EditorPlans == ASSUME AllInv, Revert \/ CloseEditor PROVE Kept'
<1>1. Up /\ ~dirty' /\ UNCHANGED phase /\ DiscardBackup
  BY DEF Revert, CloseEditor
<1> QED BY <1>1, DiscardPlans

LEMMA OpenPlans == ASSUME AllInv, OpenEditor PROVE Kept'
<1>1. Up /\ editor # "open" /\ queue = <<>> /\ UNCHANGED <<saved, file, phase, late, slow, raced>>
      /\ editor' = "open" /\ Running
  BY DEF OpenEditor, Up, Running
<1>2. CASE Readable /\ dirty' = TRUE /\ ScheduleBackup
  <2>1. ~Suspended /\ dirty'
    BY <1>1, <1>2 DEF Suspended, Up
  <2> QED BY <1>1, <1>2, <2>1, UnsavedPlans
<1>3. CASE (~Readable \/ model = None) /\ Unscheduled /\ UNCHANGED dirty
  <2>1. ~dirty /\ timer.step = "no" /\ editor = "closed" /\ UNCHANGED <<timer, queue, bare>>
    BY <1>1, <1>3
    DEF AllInv, SavingInv, TimerText, UnrestoredInv, BackupsInv, TypeOK, Unscheduled
  <2>2. ~Planned /\ DOMAIN queue = {}
    BY <1>1 DEF Planned
  <2>3. ~bare /\ ~raced => ~Readable
    BY <1>1, <2>1, <2>2 DEF AllInv, KeepInv, Safe, Unsaved
  <2>4. AllDead' /\ ~Started' /\ UpQueue'
    BY <1>1, <2>1, <2>2 DEF AllDead, Started, UpQueue
  <2>5. ~bare /\ ~raced => Safe'
    BY <1>1, <1>3, <2>1, <2>3 DEF Safe, Unsaved, Readable
  <2> QED BY <1>1, <1>3, <2>1, <2>4, <2>5 DEF Kept, TimerText, PlanInv, KeepInv, Up, Choosing
<1> QED BY <1>2, <1>3 DEF OpenEditor

LEMMA QuietPlans == ASSUME AllInv, BeginSave \/ Ready \/ Restored PROVE Kept'
BY NothingPlans DEF BeginSave, Ready, Restored, copy, store, history

LEMMA TimerPlans == ASSUME AllInv, TimerFires PROVE Kept'
<1>1. /\ UNCHANGED <<text, saved, dirty, editor, file, queue, phase, bare, late, slow, raced>>
      /\ timer.step = "waiting" /\ dirty
  BY DEF TimerFires, copy, store, history, AllInv, TimerText
<1>2. timer'.step = "snapshot" /\ timer'.text = text
  BY <1>1 DEF TimerFires
<1>3. PlanInv'
  BY <1>1, <1>2
  DEF AllInv, PlanInv, Up, AllDead, UpQueue, WaitsFor, NoFinalBackup, LastDiscards, End, Ours
<1> QED
  BY <1>1, <1>2, <1>3
  DEF Kept, TimerText, AllInv, KeepInv, Up, SafeOrBare, Unsaved, Readable, Started

LEMMA BackupIsStarted == ASSUME AllInv, BackupStarted(queue) PROVE Started
<1>1. 1 \in DOMAIN queue
  BY DEF BackupStarted, AllInv, BackupsInv, TypeOK
<1> QED BY <1>1 DEF BackupStarted, Started

\* A backup that is known already is taken for this one: it is, unless raced says so.
LEMMA QueueBackupPlans == ASSUME AllInv, QueueBackup PROVE Kept'
<1>1. /\ UNCHANGED <<text, dirty, file, model, phase, bare, late, slow>> /\ Running
      /\ timer.step = "snapshot" /\ timer.text = text /\ dirty /\ timer' = NoTimer
  BY DEF QueueBackup, copy, AllInv, TimerText
<1>2. timer'.step = "no" /\ ((Up /\ AllDead) \/ (phase = "leaving" /\ late))
  BY <1>1 DEF NoTimer, AllInv, PlanInv
<1>3. CASE Has(contentVersion, mtime) /\ Taken(contentVersion, timer.text) /\ UNCHANGED queue
  <2>1. ~raced' => /\ ~raced /\ ~Started /\ model # None /\ model.text = text
                   /\ model.version = contentVersion
    BY <1>1, <1>3 DEF Taken, Has
  <2>2. ~raced' => file = text
    BY <1>1, <2>1, KnownIsWritten, BackupIsStarted DEF Live
  <2>3. PlanInv'
    BY <1>1, <1>2, <1>3
    DEF AllInv, PlanInv, Up, AllDead, UpQueue, WaitsFor, NoFinalBackup, End, Ours, Choosing, NoTimer
  <2>4. KeepInv'
    BY <1>1, <1>2, <1>3, <2>1, <2>2 DEF AllDead, KeepInv, Up, Safe, Unsaved, Started
  <2> QED BY <1>1, <2>3, <2>4 DEF Kept, TimerText, NoTimer
<1>4. CASE queue' = Append(queue, Backup(timer.text, FALSE)) /\ UNCHANGED raced
  <2> DEFINE op == Backup(text, FALSE)
  <2>1. op.kind = "backup" /\ op.text = text /\ ~op.cancelled /\ ~op.final
    BY DEF Backup
  <2>2. queue' = Append(queue, op) /\ queue \in Seq(Operation)
    BY <1>1, <1>4 DEF AllInv, BackupsInv, TypeOK
  <2> HIDE DEF op
  <2>3. CASE Up
    <3>1. AllDead
      BY <1>2, <2>3 DEF Up
    <3>2. /\ queue' # <<>> /\ End' = op
          /\ \A i \in DOMAIN queue' : Dead(queue'[i]) \/ (i = Len(queue') /\ queue'[i] = op)
      BY <2>2, <3>1, AppendDead DEF AllDead
    <3>3. UpQueue' /\ Planned'
      BY <1>1, <2>1, <3>2 DEF UpQueue, Planned, Ours
    <3> QED BY <1>1, <1>2, <2>3, <3>3 DEF Kept, TimerText, PlanInv, KeepInv, Up, Choosing, NoTimer
  <2>4. CASE phase = "leaving" /\ late
    <3>1. \A i \in DOMAIN queue' : queue'[i] = op \/ (i \in DOMAIN queue /\ queue'[i] = queue[i])
      BY <2>2, AppendOps
    <3>2. NoFinalBackup'
      BY <2>1, <2>4, <3>1 DEF NoFinalBackup, AllInv, PlanInv
    <3> QED BY <1>1, <1>2, <2>4, <3>2 DEF Kept, TimerText, PlanInv, KeepInv, Up, Choosing, NoTimer
  <2> QED BY <1>2, <2>3, <2>4
<1> QED BY <1>3, <1>4 DEF QueueBackup

\* An operation begins to run: it is still what it was.
LEMMA StartOperationPlans == ASSUME AllInv, StartOperation PROVE Kept'
<1>1. /\ UNCHANGED <<text, saved, dirty, editor, timer, phase, bare, late, slow, raced>> /\ Running
      /\ queue # <<>> /\ queue \in Seq(Operation) /\ ~Head(queue).cancelled
  BY DEF StartOperation, copy, history, Busy, AllInv, BackupsInv, TypeOK
<1>2. Head(queue) = queue[1] /\ 1 \in DOMAIN queue /\ queue[1] \in Operation
  BY <1>1
<1>3. queue' = [queue EXCEPT ![1] = [queue[1] EXCEPT !.started = TRUE]]
  BY DEF StartOperation
<1>4. /\ DOMAIN queue' = DOMAIN queue /\ Len(queue') = Len(queue) /\ queue' # <<>>
      /\ \A i \in DOMAIN queue : /\ queue'[i].kind = queue[i].kind
                                 /\ queue'[i].text = queue[i].text
                                 /\ queue'[i].final = queue[i].final
                                 /\ queue'[i].cancelled = queue[i].cancelled
  BY <1>1, <1>2, <1>3 DEF Operation
<1>5. ~AllDead /\ Len(queue) \in DOMAIN queue
  BY <1>1, <1>2 DEF AllDead, Dead
<1>6. \A i \in DOMAIN queue : Dead(queue'[i]) <=> Dead(queue[i])
  BY <1>4 DEF Dead
<1>7. /\ UpQueue => UpQueue'
      /\ \A kind : WaitsFor(kind) => WaitsFor(kind)'
      /\ Ours(End) => Ours(End)'
      /\ NoFinalBackup => NoFinalBackup'
      /\ LastDiscards => LastDiscards'
      /\ Planned => Planned'
  BY <1>1, <1>4, <1>5, <1>6 DEF UpQueue, WaitsFor, Ours, End, NoFinalBackup, LastDiscards, Planned
<1>8. PlanInv'
  BY <1>1, <1>5, <1>7 DEF AllInv, PlanInv, Up
<1>9. ASSUME phase \in {"leaving", "joining"}, ~late, ~raced
      PROVE  SafeOrBare' /\ ~Unsaved' /\ queue'[1].kind = "discard"
  <2>1. slow /\ LastDiscards
    BY <1>5, <1>9 DEF AllInv, PlanInv
  <2>2. queue[1].kind = "discard"
    BY <1>1, <1>2, <2>1 DEF LastDiscards, Dead
  <2>3. file' = file
    BY <1>2, <2>2 DEF StartOperation
  <2>4. ~Unsaved
    BY <1>1, <2>1, OpenIfBusy DEF AllInv, SavingInv
  <2>5. SafeOrBare
    BY <1>9 DEF AllInv, KeepInv
  <2> QED BY <1>1, <1>2, <1>4, <2>2, <2>3, <2>4, <2>5 DEF SafeOrBare, Unsaved, Readable
<1>10. KeepInv'
  BY <1>1, <1>5, <1>7, <1>9 DEF AllInv, KeepInv, PlanInv, Up, Running
<1> QED BY <1>1, <1>8, <1>10 DEF Kept, AllInv, TimerText

\* The first operation leaves: what holds of all operations holds of the rest.
LEMMA TailLeaves ==
  ASSUME AllInv, Busy, Leave
  PROVE  /\ Head(queue) = queue[1] /\ queue[1] \in Operation /\ 1 \in DOMAIN queue
         /\ Started <=> queue[1].started
         /\ ~Started'
         /\ AllDead => Dead(queue[1]) /\ AllDead'
         /\ UpQueue => UpQueue' /\ (Dead(queue[1]) \/ ~queue[1].final)
         /\ NoFinalBackup => NoFinalBackup'
         /\ LastDiscards => LastDiscards'
         /\ Len(queue) = 1 => queue' = <<>> /\ AllDead' /\ NoFinalBackup' /\ End = queue[1]
         /\ Len(queue) # 1 => /\ queue' # <<>> /\ End' = End
                              /\ \A kind : WaitsFor(kind) => Dead(queue[1]) /\ WaitsFor(kind)'
<1>1. queue \in Seq(Operation) /\ queue # <<>> /\ queue' = Tail(queue) /\ InOrder(queue)
  BY DEF AllInv, BackupsInv, TypeOK, InOrder, Busy, Leave
<1>2. /\ Head(queue) = queue[1] /\ 1 \in DOMAIN queue /\ Len(queue) \in DOMAIN queue
      /\ Len(queue') = Len(queue) - 1 /\ Len(queue) \in Nat
      /\ queue' # <<>> <=> Len(queue) > 1
      /\ \A i \in DOMAIN queue' : /\ i + 1 \in DOMAIN queue /\ queue'[i] = queue[i + 1] /\ i + 1 > 1
                                  /\ i \in Nat
                                  /\ i = Len(queue') <=> i + 1 = Len(queue)
  BY <1>1, TailOps
<1>3. queue[1] \in Operation
  BY <1>1, <1>2
<1>4. Started <=> queue[1].started
  BY <1>1, <1>2 DEF Started, InOrder
<1>5. ~Started'
  BY <1>1, TailInOrder DEF Started
<1>6. AllDead => Dead(queue[1]) /\ AllDead'
  BY <1>2 DEF AllDead, Dead
<1>7. UpQueue => UpQueue' /\ (Dead(queue[1]) \/ ~queue[1].final)
  BY <1>2 DEF UpQueue, Dead
<1>8. (NoFinalBackup => NoFinalBackup') /\ (LastDiscards => LastDiscards')
  BY <1>2 DEF NoFinalBackup, LastDiscards, Dead
<1>9. Len(queue) = 1 => queue' = <<>> /\ AllDead' /\ NoFinalBackup' /\ End = queue[1]
  <2> HAVE Len(queue) = 1
  <2>1. queue' = <<>> /\ DOMAIN queue' = {}
    BY <1>2
  <2> QED BY <2>1 DEF AllDead, NoFinalBackup, End
<1>10. ASSUME Len(queue) # 1
       PROVE  /\ queue' # <<>> /\ End' = End
              /\ \A kind : WaitsFor(kind) => Dead(queue[1]) /\ WaitsFor(kind)'
  <2>1. queue' # <<>> /\ Len(queue) > 1
    BY <1>1, <1>2, <1>10
  <2>2. Len(queue') \in DOMAIN queue'
    BY <1>1, <1>2, <2>1
  <2>3. End' = End
    BY <1>2, <2>2 DEF End
  <2>4. ASSUME NEW kind, WaitsFor(kind) PROVE Dead(queue[1]) /\ WaitsFor(kind)'
    <3>1. Dead(queue[1])
      BY <1>2, <1>10, <2>4 DEF WaitsFor
    <3>2. \A i \in DOMAIN queue' : Dead(queue'[i]) \/ i = Len(queue')
      BY <1>2, <2>4 DEF WaitsFor
    <3> QED BY <2>1, <2>3, <2>4, <3>1, <3>2 DEF WaitsFor, Dead
  <2> QED BY <2>1, <2>3, <2>4
<1> QED BY <1>2, <1>3, <1>4, <1>5, <1>6, <1>7, <1>8, <1>9, <1>10

LEMMA EndedCases ==
  ASSUME NEW op, NEW step, Ended(op, step)
  PROVE  /\ Dead(op) \/ ~op.final => phase' = phase
         /\ op.kind = "backup" /\ op.final /\ ~op.cancelled => phase' = step
         /\ op.kind = "discard" /\ op.final /\ phase = "discarding" => phase' = "leaving"
         /\ ~(op.kind = "backup" /\ op.final /\ ~op.cancelled) /\ phase # "discarding" => phase' = phase
BY DEF Ended, Dead

\* The phase after the end of an operation, and what is then still to be done.
LEMMA LeavePlans ==
  ASSUME AllInv, Busy, Leave, UNCHANGED <<text, dirty, timer, late, slow>>,
         NEW step \in {"leaving", "failed"}, Ended(Head(queue), step)
  PROVE  /\ PlanInv'
         /\ Up' <=> Up
         /\ phase' \in {"leaving", "joining"} =>
              \/ phase \in {"leaving", "joining"}
              \/ Len(queue) = 1 /\ phase = "backing" /\ step = "leaving"
              \/ Len(queue) = 1 /\ phase = "discarding"
         /\ phase' # "down"
<1>1. PlanInv /\ phase \in Phases \ {"down"}
  BY DEF AllInv, BackupsInv, TypeOK, Phases, Busy, Running
<1>2. Head(queue) = queue[1] /\ Ended(queue[1], step)
  BY TailLeaves
<1>3. CASE Up
  <2>1. UpQueue' /\ phase' = phase /\ (AllDead => AllDead')
    BY <1>1, <1>2, <1>3, TailLeaves, EndedCases DEF PlanInv
  <2> QED BY <1>1, <1>3, <2>1 DEF PlanInv, Up, Choosing
<1>4. CASE phase \in Choosing \cup {"clearing"}
  <2>1. phase' = phase /\ AllDead'
    BY <1>1, <1>2, <1>4, TailLeaves, EndedCases DEF PlanInv
  <2> QED BY <1>1, <1>4, <2>1 DEF PlanInv, Up, Choosing
<1>5. CASE phase \in {"backing", "discarding"} /\ Len(queue) # 1
  <2>1. /\ phase' = phase /\ End' = End
        /\ \A kind : WaitsFor(kind) => WaitsFor(kind)'
    BY <1>1, <1>2, <1>5, TailLeaves, EndedCases DEF PlanInv
  <2>2. Ours(End) => Ours(End)'
    BY <2>1 DEF Ours
  <2> QED BY <1>1, <1>5, <2>1, <2>2 DEF PlanInv, Up, Choosing
<1>6. CASE phase = "backing" /\ Len(queue) = 1
  <2>1. queue[1].kind = "backup" /\ queue[1].final /\ ~queue[1].cancelled /\ AllDead' /\ NoFinalBackup'
    BY <1>1, <1>6, TailLeaves DEF PlanInv, WaitsFor
  <2>2. phase' = step
    BY <1>2, <2>1, EndedCases
  <2> QED BY <1>1, <1>6, <2>1, <2>2 DEF PlanInv, Up, Choosing
<1>7. CASE phase = "discarding" /\ Len(queue) = 1
  <2>1. queue[1].kind = "discard" /\ queue[1].final /\ AllDead' /\ NoFinalBackup'
    BY <1>1, <1>7, TailLeaves DEF PlanInv, WaitsFor
  <2>2. phase' = "leaving"
    BY <1>2, <1>7, <2>1, EndedCases
  <2> QED BY <1>1, <1>7, <2>1, <2>2 DEF PlanInv, Up, Choosing
<1>8. CASE phase \in {"leaving", "joining"}
  <2>1. /\ NoFinalBackup' /\ (AllDead => AllDead') /\ (LastDiscards => LastDiscards')
        /\ NoFinalBackup
    BY <1>1, <1>8, TailLeaves DEF PlanInv
  <2>2. phase' = phase
    <3>1. ~(queue[1].kind = "backup" /\ queue[1].final /\ ~queue[1].cancelled)
      BY <2>1, TailLeaves DEF NoFinalBackup
    <3> QED BY <1>2, <1>8, <3>1, EndedCases
  <2> QED BY <1>1, <1>8, <2>1, <2>2 DEF PlanInv, Up, Choosing
<1> QED BY <1>1, <1>3, <1>4, <1>5, <1>6, <1>7, <1>8 DEF Phases, Up, Choosing

\* A text that is in its backup is safe for the window to close, also one that
\* was saved since.
LEMMA WrittenIsSafe ==
  ASSUME AllInv, dirty \/ slow, UNCHANGED <<text, saved, dirty, editor, slow>>, file' = text,
         editor # "unrestored"
  PROVE  SafeOrBare'
BY DEF AllInv, SavingInv, SafeOrBare, Unsaved

\* An operation that is skipped as known was the backup that was wanted.
LEMMA SkippedIsWritten ==
  ASSUME AllInv, SkipOperation, ~raced', ~queue[1].cancelled
  PROVE  /\ queue[1].kind = "backup" /\ ~raced
         /\ Live /\ Ours(queue[1]) => file = text
<1>1. Busy /\ Leave /\ Head(queue) = queue[1] /\ ~queue[1].started /\ 1 \in DOMAIN queue
  BY TailLeaves DEF SkipOperation
<1>2. /\ queue[1].kind = "backup" /\ Has(queue[1].version, queue[1].mtime)
      /\ Taken(queue[1].version, queue[1].text)
  BY <1>1 DEF SkipOperation
<1>3. /\ ~raced /\ model # None /\ model.text = queue[1].text /\ model.version = queue[1].version
      /\ ~BackupStarted(queue)
  BY <1>1, <1>2 DEF Taken, Has, BackupStarted
<1>4. Live /\ Ours(queue[1]) => queue[1].version = contentVersion
  BY <1>1 DEF AllInv, CurrentInv, CurrentQueue, Busy
<1> QED BY <1>1, <1>2, <1>3, <1>4, KnownIsWritten DEF Ours, Busy

LEMMA SkipPlans == ASSUME AllInv, SkipOperation PROVE Kept'
<1>1. Busy /\ Leave /\ Ended(Head(queue), "leaving") /\ ~Head(queue).started
      /\ UNCHANGED <<text, saved, dirty, editor, timer, file, bare, late, slow>>
  BY DEF SkipOperation, copy
<1>2. Head(queue) = queue[1] /\ ~Started' /\ ~Started
  BY <1>1, TailLeaves
<1>3. /\ PlanInv' /\ (Up' <=> Up) /\ phase' # "down"
      /\ phase' \in {"leaving", "joining"} =>
           \/ phase \in {"leaving", "joining"}
           \/ Len(queue) = 1 /\ phase \in {"backing", "discarding"}
  BY <1>1, LeavePlans
<1>4. ~raced' => ~raced
  BY DEF SkipOperation, Taken
<1>5. editor # "unrestored" /\ (Unsaved <=> dirty)
  BY <1>1, OpenIfBusy DEF Busy
<1>6. ASSUME Up, ~bare, ~raced', timer.step = "no" PROVE Planned' \/ (AllDead' /\ Safe')
  <2>1. Planned \/ (AllDead /\ Safe)
    BY <1>4, <1>6 DEF AllInv, KeepInv
  <2>2. CASE AllDead /\ Safe
    BY <1>1, <2>2, TailLeaves DEF Safe, Unsaved, Readable
  <2>3. CASE Planned /\ Len(queue) = 1
    <3>1. ~queue[1].cancelled /\ (IF dirty THEN Ours(queue[1]) ELSE queue[1].kind = "discard") /\ AllDead'
      BY <1>1, <2>3, TailLeaves DEF Planned
    <3>2. dirty /\ file = text
      BY <1>6, <3>1, SkippedIsWritten DEF Live
    <3> QED BY <1>1, <3>1, <3>2 DEF Safe, Unsaved
  <2>4. CASE Planned /\ Len(queue) # 1
    BY <1>1, <2>4, TailLeaves DEF Planned, Ours
  <2> QED BY <2>1, <2>2, <2>3, <2>4
<1>7. ASSUME phase' \in {"leaving", "joining"}, ~late, ~raced' PROVE SafeOrBare'
  <2>1. CASE phase \in {"leaving", "joining"}
    BY <1>1, <1>4, <1>7, <2>1 DEF AllInv, KeepInv, SafeOrBare, Unsaved, Readable
  <2>2. CASE phase \in {"backing", "discarding"} /\ Len(queue) = 1
    <3>1. /\ phase = "backing" => (dirty \/ slow) /\ Ours(queue[1])
          /\ phase = "discarding" => queue[1].kind = "discard"
          /\ ~queue[1].cancelled
      BY <1>1, <1>7, <2>2, TailLeaves DEF AllInv, PlanInv, WaitsFor
    <3>2. (dirty \/ slow) /\ file = text
      BY <1>7, <2>2, <3>1, SkippedIsWritten DEF Live
    <3> QED BY <1>1, <1>5, <3>2, WrittenIsSafe
  <2> QED BY <1>3, <1>7, <2>1, <2>2
<1>8. KeepInv'
  BY <1>1, <1>2, <1>3, <1>6, <1>7 DEF KeepInv
<1> QED BY <1>1, <1>3, <1>8 DEF Kept, AllInv, TimerText

\* A backup that has run is in the file, and after a deletion there is none.
LEMMA FinishedIsWritten ==
  ASSUME AllInv, FinishOperation, ~raced
  PROVE  /\ queue[1].kind = "backup" => file' = queue[1].text
         /\ queue[1].kind = "discard" => file' = None
<1>1. Busy /\ Head(queue) = queue[1] /\ queue[1].started
  BY TailLeaves DEF FinishOperation
<1>2. queue[1].kind = "backup" => file = Partial
  BY <1>1 DEF Busy, BackupStarted, AllInv, BackupsInv, Table
<1> QED BY <1>1, <1>2, NameAssumption DEF FinishOperation

LEMMA FinishPlans == ASSUME AllInv, FinishOperation PROVE Kept'
<1>1. Busy /\ Leave /\ Ended(Head(queue), "leaving") /\ Head(queue).started
      /\ UNCHANGED <<text, saved, dirty, editor, timer, bare, late, slow, raced>>
  BY DEF FinishOperation, copy, history
<1>2. Head(queue) = queue[1] /\ ~Started' /\ Started
  BY <1>1, TailLeaves
<1>3. /\ PlanInv' /\ (Up' <=> Up) /\ phase' # "down"
      /\ phase' \in {"leaving", "joining"} =>
           \/ phase \in {"leaving", "joining"}
           \/ Len(queue) = 1 /\ phase \in {"backing", "discarding"}
  BY <1>1, LeavePlans
<1>4. editor # "unrestored" /\ (Unsaved <=> dirty)
  BY <1>1, OpenIfBusy DEF Busy
<1>5. ASSUME Up, ~bare, ~raced, timer.step = "no" PROVE Planned' \/ (AllDead' /\ Safe')
  <2>1. Planned
    BY <1>2, <1>5 DEF AllInv, KeepInv
  <2>2. CASE Len(queue) = 1
    <3>1. (IF dirty THEN Ours(queue[1]) ELSE queue[1].kind = "discard") /\ AllDead'
      BY <1>1, <2>1, <2>2, TailLeaves DEF Planned
    <3>2. IF dirty THEN file' = text ELSE file' = None
      BY <1>5, <3>1, FinishedIsWritten DEF Ours
    <3> QED BY <1>1, <1>4, <3>1, <3>2 DEF Safe, Unsaved, Readable
  <2>3. CASE Len(queue) # 1
    BY <1>1, <2>1, <2>3, TailLeaves DEF Planned, Ours
  <2> QED BY <2>2, <2>3
<1>6. ASSUME phase' \in {"leaving", "joining"}, ~late, ~raced PROVE SafeOrBare'
  <2>1. CASE phase \in {"leaving", "joining"}
    <3>1. ~Unsaved /\ (bare \/ queue[1].kind = "discard")
      BY <1>2, <1>6, <2>1 DEF AllInv, KeepInv
    <3>2. bare \/ file' = None
      BY <1>6, <3>1, FinishedIsWritten
    <3> QED BY <1>1, <3>1, <3>2 DEF SafeOrBare, Unsaved, Readable
  <2>2. CASE phase = "backing" /\ Len(queue) = 1
    <3>1. (dirty \/ slow) /\ Ours(queue[1])
      BY <1>1, <1>6, <2>2, TailLeaves DEF AllInv, PlanInv, WaitsFor
    <3>2. file' = text
      BY <1>6, <3>1, FinishedIsWritten DEF Ours
    <3> QED BY <1>1, <1>4, <3>1, <3>2, WrittenIsSafe
  <2>3. CASE phase = "discarding" /\ Len(queue) = 1
    <3>1. ~dirty /\ queue[1].kind = "discard"
      BY <1>1, <1>6, <2>3, TailLeaves DEF AllInv, PlanInv, WaitsFor
    <3>2. file' = None
      BY <1>6, <3>1, FinishedIsWritten
    <3> QED BY <1>1, <1>4, <3>1, <3>2 DEF SafeOrBare, Unsaved, Readable
  <2> QED BY <1>3, <1>6, <2>1, <2>2, <2>3
<1>7. KeepInv'
  BY <1>1, <1>2, <1>3, <1>5, <1>6 DEF KeepInv
<1> QED BY <1>1, <1>3, <1>7 DEF Kept, AllInv, TimerText

LEMMA FailPlans == ASSUME AllInv, OperationFails PROVE Kept'
<1>1. Busy /\ Leave /\ Ended(Head(queue), "failed") /\ Head(queue).started
      /\ UNCHANGED <<text, dirty, editor, timer, file, late, slow>> /\ bare'
  BY DEF OperationFails, copy
<1>2. Head(queue) = queue[1] /\ ~Started' /\ Started
  BY <1>1, TailLeaves
<1>3. /\ PlanInv' /\ (Up' <=> Up) /\ phase' # "down"
      /\ phase' \in {"leaving", "joining"} => phase \in {"leaving", "joining", "discarding"}
  BY <1>1, LeavePlans
<1>4. ~raced' => ~raced
  BY DEF OperationFails
<1>5. Unsaved <=> dirty
  BY <1>1, OpenIfBusy DEF Busy
<1>6. phase' \in {"leaving", "joining"} /\ ~late /\ ~raced => ~Unsaved
  BY <1>2, <1>3, <1>5 DEF AllInv, KeepInv, PlanInv
<1>7. KeepInv'
  BY <1>1, <1>2, <1>3, <1>4, <1>6 DEF KeepInv, SafeOrBare, Unsaved
<1> QED BY <1>1, <1>3, <1>7 DEF Kept, AllInv, TimerText

----------------------------------------------------------------------------
(* Closing, crash and start. *)

LEMMA ClosePlans == ASSUME AllInv, Close PROVE Kept'
<1>1. /\ Up /\ timer' = NoTimer /\ queue' = Cancelled(FALSE) /\ UNCHANGED <<text, dirty>>
      /\ \/ ~dirty /\ phase' = "clearing"
         \/ dirty /\ phase' \in {"saving", "backup", "asking"}
  BY DEF Close, CancelAll, copy
<1>2. AllDead' /\ timer'.step = "no"
  BY <1>1, CancelledDead DEF AllDead, NoTimer
<1> QED BY <1>1, <1>2 DEF Kept, TimerText, PlanInv, KeepInv, Up, Choosing

\* While the shutdown chooses, nothing is pending but the dead.
LEMMA ChoosingIsQuiet ==
  ASSUME AllInv, phase \in Choosing
  PROVE  /\ AllDead /\ NoFinalBackup /\ UpQueue /\ timer.step = "no" /\ editor # "unrestored"
         /\ queue \in Seq(Operation)
BY DEF AllInv, BackupsInv, TypeOK, PlanInv, UnrestoredInv, Choosing, Up, AllDead, NoFinalBackup,
       UpQueue, Dead

LEMMA BackupBeforePlans == ASSUME AllInv, BackupBeforeShutdown PROVE Kept'
<1>1. /\ phase = "backup" /\ Running
      /\ UNCHANGED <<text, saved, dirty, editor, timer, file, bare, late, slow>>
  BY DEF BackupBeforeShutdown, copy, Running
<1>2. /\ dirty \/ slow
      /\ AllDead /\ NoFinalBackup /\ timer.step = "no" /\ editor # "unrestored"
  BY <1>1, ChoosingIsQuiet DEF Choosing, AllInv, PlanInv
<1>3. CASE BackupExists /\ Taken(contentVersion, text) /\ phase' = "leaving" /\ UNCHANGED queue
  <2>1. ~raced' => /\ ~raced /\ ~Started /\ model # None /\ model.text = text
                   /\ model.version = contentVersion
    BY <1>3 DEF Taken, BackupExists
  <2>2. ~raced' => file = text
    BY <1>1, <1>2, <2>1, KnownIsWritten, BackupIsStarted DEF Live
  <2>3. ~raced' => SafeOrBare'
    BY <1>1, <1>2, <2>2, WrittenIsSafe
  <2>4. AllDead' /\ NoFinalBackup' /\ (Started' <=> Started)
    BY <1>2, <1>3 DEF AllDead, NoFinalBackup, Started
  <2> QED BY <1>1, <1>2, <1>3, <2>1, <2>3, <2>4 DEF Kept, TimerText, PlanInv, KeepInv, Up, Choosing
<1>4. CASE queue' = Append(queue, Backup(text, TRUE)) /\ phase' = "backing" /\ UNCHANGED raced
  <2> DEFINE op == Backup(text, TRUE)
  <2>1. op.kind = "backup" /\ op.text = text /\ ~op.cancelled /\ op.final
    BY DEF Backup
  <2>2. queue' = Append(queue, op) /\ queue \in Seq(Operation)
    BY <1>4 DEF AllInv, BackupsInv, TypeOK
  <2> HIDE DEF op
  <2>3. /\ queue' # <<>> /\ End' = op
        /\ \A i \in DOMAIN queue' : Dead(queue'[i]) \/ (i = Len(queue') /\ queue'[i] = op)
    BY <1>2, <2>2, AppendDead DEF AllDead
  <2>4. WaitsFor("backup")' /\ Ours(End)'
    BY <1>1, <2>1, <2>3 DEF WaitsFor, Ours
  <2> QED BY <1>1, <1>2, <1>4, <2>4 DEF Kept, TimerText, PlanInv, KeepInv, Up, Choosing
<1> QED BY <1>3, <1>4 DEF BackupBeforeShutdown

LEMMA StopWaitingPlans == ASSUME AllInv, StopWaiting PROVE Kept'
<1>1. /\ phase = "backing" /\ phase' = "asking" /\ queue' = Cancelled(TRUE)
      /\ UNCHANGED <<dirty, timer>>
  BY DEF StopWaiting, copy
<1>2. WaitsFor("backup") /\ timer.step = "no" /\ TypeOK
  BY <1>1 DEF AllInv, BackupsInv, PlanInv, Up
<1>3. ASSUME NEW i \in DOMAIN queue PROVE Dead(Cancelled(TRUE)[i])
  <2>1. Dead(queue[i]) \/ (queue[i].kind = "backup" /\ queue[i].final)
    BY <1>2 DEF WaitsFor, End
  <2>2. /\ Cancelled(TRUE)[i].kind = queue[i].kind /\ Cancelled(TRUE)[i].final = queue[i].final
        /\ Cancelled(TRUE)[i].cancelled <=> queue[i].cancelled \/ queue[i].final = TRUE
    BY <1>2, CancelledOps
  <2>3. queue[i].final \in BOOLEAN
    <3>1. queue[i] \in Operation
      BY <1>2 DEF TypeOK
    <3> QED BY <3>1 DEF Operation
  <2> QED BY <2>1, <2>2, <2>3 DEF Dead
<1>4. AllDead'
  BY <1>1, <1>2, <1>3, CancelledOps DEF AllDead
<1> QED BY <1>1, <1>2, <1>4 DEF Kept, TimerText, PlanInv, KeepInv, Up, Choosing

\* The window stays after all.
LEMMA VetoPlans == ASSUME AllInv, phase \in Choosing, Veto, UNCHANGED timer PROVE Kept'
<1>1. phase' = "up" /\ bare' /\ queue' = queue
  BY DEF Veto
<1>2. UpQueue' /\ timer'.step = "no"
  BY <1>1, ChoosingIsQuiet DEF UpQueue
<1> QED BY <1>1, <1>2 DEF Kept, TimerText, PlanInv, KeepInv, Up, Choosing

\* The window goes, with or without a deletion of the backup.
LEMMA NoVetoPlans ==
  ASSUME AllInv, phase \in Choosing, NoVeto, ~dirty', UNCHANGED <<editor, timer>>
  PROVE  Kept'
<1>1. AllDead /\ timer.step = "no" /\ NoFinalBackup /\ queue \in Seq(Operation) /\ ~Unsaved'
  BY ChoosingIsQuiet DEF Unsaved
<1>2. CASE phase' = "leaving" /\ bare' /\ queue' = queue
  <2>1. AllDead' /\ NoFinalBackup' /\ SafeOrBare'
    BY <1>1, <1>2 DEF AllDead, NoFinalBackup, SafeOrBare
  <2> QED BY <1>1, <1>2, <2>1 DEF Kept, TimerText, PlanInv, KeepInv, Up, Choosing
<1>3. CASE phase' = "discarding" /\ queue' = Append(queue, Discard(TRUE))
  <2>1. /\ queue' # <<>> /\ End' = Discard(TRUE)
        /\ \A i \in DOMAIN queue' : Dead(queue'[i]) \/ (i = Len(queue') /\ queue'[i] = Discard(TRUE))
    BY <1>1, <1>3, AppendDead DEF AllDead
  <2>2. WaitsFor("discard")'
    BY <2>1 DEF WaitsFor, Discard
  <2> QED BY <1>1, <1>3, <2>2 DEF Kept, TimerText, PlanInv, KeepInv, Up, Choosing
<1> QED BY <1>2, <1>3 DEF NoVeto

\* The shutdown goes on to choose, or the user closes the window anyway.
LEMMA ChoosingPlans ==
  ASSUME AllInv, phase \in Choosing, UNCHANGED <<dirty, timer, queue>>,
         (phase' \in Choosing /\ (phase' = "backup" => dirty')) \/ (phase' = "leaving" /\ late')
  PROVE  Kept'
<1>1. AllDead' /\ NoFinalBackup' /\ timer'.step = "no"
  BY ChoosingIsQuiet DEF AllDead, NoFinalBackup
<1> QED BY <1>1 DEF Kept, TimerText, PlanInv, KeepInv, Up, Choosing

LEMMA DecisionPlans ==
  ASSUME AllInv, SavedOrNot \/ Confirm \/ DontSave \/ Failed
  PROVE  Kept'
<1> USE DEF copy
<1>1. phase \in Choosing /\ UNCHANGED <<editor, timer>>
  BY DEF SavedOrNot, Confirm, DontSave, Failed, Choosing
<1>2. \/ Veto
      \/ NoVeto /\ ~dirty'
      \/ /\ UNCHANGED <<dirty, queue>>
         /\ \/ phase' \in Choosing /\ (phase' = "backup" => dirty')
            \/ phase' = "leaving" /\ late'
  BY DEF SavedOrNot, Confirm, DontSave, Failed, Choosing
<1> QED BY <1>1, <1>2, VetoPlans, NoVetoPlans, ChoosingPlans

LEMMA StopDiscardingPlans == ASSUME AllInv, StopDiscarding PROVE Kept'
<1>1. /\ phase \in {"discarding", "clearing"} /\ phase' = "leaving" /\ late'
      /\ UNCHANGED <<timer, queue>>
  BY DEF StopDiscarding, store
<1>2. timer.step = "no" /\ NoFinalBackup
  BY <1>1 DEF AllInv, PlanInv, Up, AllDead, NoFinalBackup, WaitsFor, End, Dead
<1>3. NoFinalBackup'
  BY <1>1, <1>2 DEF NoFinalBackup
<1> QED BY <1>1, <1>2, <1>3 DEF Kept, TimerText, PlanInv, KeepInv, Up, Choosing

LEMMA DeleteFolderPlans == ASSUME AllInv, DeleteFolder PROVE Kept'
<1>1. /\ phase = "clearing" /\ phase' = "leaving"
      /\ UNCHANGED <<text, saved, dirty, editor, timer, queue, late>>
  BY DEF DeleteFolder, copy
<1>2. timer.step = "no" /\ AllDead /\ NoFinalBackup /\ (~late => ~dirty)
  BY <1>1 DEF AllInv, PlanInv, Up, AllDead, NoFinalBackup, Dead
<1>3. AllDead' /\ NoFinalBackup' /\ (Started' <=> Started)
  BY <1>1, <1>2 DEF AllDead, NoFinalBackup, Started
<1>4. CASE editor = "unrestored"
  <2>1. file = text /\ ~Started /\ UNCHANGED file
    BY <1>4 DEF DeleteFolder, AllInv, UnrestoredInv, Started
  <2>2. ~late => SafeOrBare'
    BY <1>1, <1>4, <2>1 DEF SafeOrBare, Unsaved
  <2> QED BY <1>1, <1>2, <1>3, <2>1, <2>2 DEF Kept, TimerText, PlanInv, KeepInv, Up, Choosing
<1>5. CASE editor # "unrestored"
  <2>1. ~late => ~Unsaved'
    BY <1>1, <1>2, <1>5 DEF Unsaved
  <2>2. (file' = None /\ (~raced' => ~Started)) \/ bare'
    BY DEF DeleteFolder
  <2>3. ~late => SafeOrBare'
    BY <2>1, <2>2 DEF SafeOrBare, Readable
  <2> QED BY <1>1, <1>2, <1>3, <2>1, <2>2, <2>3 DEF Kept, TimerText, PlanInv, KeepInv, Up, Choosing
<1> QED BY <1>4, <1>5

LEMMA WillShutdownPlans == ASSUME AllInv, WillShutdown PROVE Kept'
<1>1. /\ phase = "leaving" /\ phase' = "joining" /\ timer' = NoTimer /\ queue' = Cancelled(FALSE)
      /\ UNCHANGED <<text, saved, dirty, editor, file, bare, late, slow, raced>>
  BY DEF WillShutdown, CancelAll, copy, history
<1>2. NoFinalBackup /\ (~late => AllDead \/ LastDiscards)
  BY <1>1 DEF AllInv, PlanInv
<1>3. NoFinalBackup' /\ (~late => AllDead')
  BY <1>1, <1>2, CancelledStill DEF NoFinalBackup, AllDead
<1>4. ~late /\ ~raced => SafeOrBare'
  BY <1>1 DEF AllInv, KeepInv, SafeOrBare, Unsaved, Readable
<1>5. ASSUME ~late, ~raced, Started' PROVE ~Unsaved' /\ (bare' \/ queue'[1].kind = "discard")
  <2>1. Started
    BY <1>1, <1>5, CancelledStill DEF Started
  <2>2. ~Unsaved /\ (bare \/ queue[1].kind = "discard")
    BY <1>1, <1>5, <2>1 DEF AllInv, KeepInv
  <2>3. 1 \in DOMAIN queue /\ TypeOK
    BY <2>1 DEF AllInv, BackupsInv, TypeOK, Started
  <2>4. queue'[1].kind = queue[1].kind
    BY <1>1, <2>3, CancelledOps
  <2> QED BY <1>1, <2>2, <2>4 DEF Unsaved
<1> QED BY <1>1, <1>3, <1>4, <1>5 DEF Kept, TimerText, PlanInv, KeepInv, Up, Choosing, NoTimer

LEMMA EndPlans == ASSUME AllInv, Quit \/ Crash PROVE Kept'
<1>1. /\ phase' = "down" /\ queue' = <<>> /\ timer' = NoTimer
      /\ UNCHANGED <<text, dirty, editor, file, bare, slow, raced>>
      /\ (phase = "joining" /\ UNCHANGED late) \/ late'
      /\ saved' = saved \/ saving.going
  BY DEF Quit, Crash, CutOff, copy, history
<1>2. timer'.step = "no"
  BY <1>1 DEF NoTimer
<1>3. slow => saved' = saved
  BY <1>1 DEF AllInv, SavingInv
<1>4. ~late' /\ ~raced => SafeOrBare'
  BY <1>1, <1>3 DEF AllInv, KeepInv, SafeOrBare, Unsaved, Readable
<1> QED BY <1>1, <1>2, <1>4 DEF Kept, TimerText, PlanInv, KeepInv, Up, Choosing

LEMMA StartPlans == ASSUME AllInv, Start PROVE Kept'
<1>1. /\ phase' = "up" /\ queue = <<>> /\ queue' = <<>> /\ UNCHANGED file /\ ~dirty'
      /\ timer'.step = "no"
      /\ text' = IF Readable THEN file ELSE saved
      /\ editor' = IF Readable THEN "unrestored" ELSE "closed"
  BY DEF Start, AllInv, BackupsInv, DownInv, NoTimer
<1>2. AllDead' /\ UpQueue' /\ ~Started'
  <2>1. DOMAIN queue' = {}
    BY <1>1
  <2> QED BY <2>1 DEF AllDead, UpQueue, Started
<1>3. Safe'
  BY <1>1 DEF Safe, Unsaved, Readable
<1> QED BY <1>1, <1>2, <1>3 DEF Kept, TimerText, PlanInv, KeepInv, Up, Choosing

----------------------------------------------------------------------------

LEMMA InitPlans == Init => NumbersInv /\ CurrentInv /\ SavingInv /\ UnrestoredInv /\ Kept
<1> HAVE Init
<1> USE NameAssumption, BoundAssumption
<1>1. /\ text = 0 /\ saved = 0 /\ ~dirty /\ timer.step = "no" /\ queue = <<>> /\ file = None
      /\ model = None /\ phase = "up" /\ used.texts = 0 /\ DOMAIN queue = {} /\ editor = "closed"
      /\ saving.text = 0 /\ ~saving.going /\ ~slow
  BY DEF Init, NoTimer, NotSaving
<1>2. NumbersInv /\ CurrentInv /\ SavingInv /\ UnrestoredInv
  BY <1>1 DEF NumbersInv, Numbers, CurrentInv, Live, SavingInv, UnrestoredInv
<1>3. AllDead /\ UpQueue /\ ~Started /\ Safe
  BY <1>1 DEF AllDead, UpQueue, Started, Safe, Unsaved, Readable
<1> QED BY <1>1, <1>2, <1>3 DEF Kept, TimerText, PlanInv, KeepInv, Up, Choosing

LEMMA PlansStay ==
  AllInv /\ [Next]_vars => NumbersInv' /\ CurrentInv' /\ SavingInv' /\ UnrestoredInv' /\ Kept'
<1> SUFFICES ASSUME AllInv, [Next]_vars
             PROVE  NumbersInv' /\ CurrentInv' /\ SavingInv' /\ UnrestoredInv' /\ Kept'
  OBVIOUS
<1>1. NumbersInv' /\ CurrentInv' /\ SavingInv' /\ UnrestoredInv'
  BY NumbersStay, CurrentStay, SavingStays, UnrestoredStays DEF AllInv, BackupsInv
<1>2. CASE Type
  BY <1>1, <1>2, TypePlans
<1>3. CASE BeginSave \/ Ready \/ Restored
  BY <1>1, <1>3, QuietPlans
<1>4. CASE SaveEnds
  BY <1>1, <1>4, SaveEndsPlans
<1>5. CASE SaveFails
  BY <1>1, <1>5, SaveFailsPlans
<1>6. CASE Revert \/ CloseEditor
  BY <1>1, <1>6, EditorPlans
<1>7. CASE OpenEditor
  BY <1>1, <1>7, OpenPlans
<1>8. CASE TimerFires
  BY <1>1, <1>8, TimerPlans
<1>9. CASE QueueBackup
  BY <1>1, <1>9, QueueBackupPlans
<1>10. CASE StartOperation
  BY <1>1, <1>10, StartOperationPlans
<1>11. CASE SkipOperation
  BY <1>1, <1>11, SkipPlans
<1>12. CASE FinishOperation
  BY <1>1, <1>12, FinishPlans
<1>13. CASE OperationFails
  BY <1>1, <1>13, FailPlans
<1>14. CASE Close
  BY <1>1, <1>14, ClosePlans
<1>15. CASE BackupBeforeShutdown
  BY <1>1, <1>15, BackupBeforePlans
<1>16. CASE StopWaiting
  BY <1>1, <1>16, StopWaitingPlans
<1>17. CASE SavedOrNot \/ Confirm \/ DontSave \/ Failed
  BY <1>1, <1>17, DecisionPlans
<1>18. CASE StopDiscarding
  BY <1>1, <1>18, StopDiscardingPlans
<1>19. CASE DeleteFolder
  BY <1>1, <1>19, DeleteFolderPlans
<1>20. CASE WillShutdown
  BY <1>1, <1>20, WillShutdownPlans
<1>21. CASE Quit \/ Crash
  BY <1>1, <1>21, EndPlans
<1>22. CASE Start
  BY <1>1, <1>22, StartPlans
<1>23. CASE UNCHANGED vars
  BY <1>1, <1>23, NothingPlans DEF vars, copy, store, history
<1> QED BY <1>1, <1>2, <1>3, <1>4, <1>5, <1>6, <1>7, <1>8, <1>9, <1>10, <1>11, <1>12, <1>13,
           <1>14, <1>15, <1>16, <1>17, <1>18, <1>19, <1>20, <1>21, <1>22, <1>23
        DEF Next, Save, Work, Operate, Closing

\* What is known of texts, versions and pending work holds in every state.
LEMMA PlansHold == Spec => []AllInv
<1>1. Init => AllInv
  BY InitBackups, InitPlans DEF AllInv, Kept
<1>2. AllInv /\ [Next]_vars => AllInv'
  BY BackupsStay, PlansStay DEF AllInv, Kept
<1> QED BY <1>1, <1>2, PTL DEF Spec

\* Once the tracker has nothing left to do, the unsaved text is in the backup,
\* also one that waits there to be restored, and a saved or reverted text has
\* none that would come back (WorkingCopyBackupTracker.scheduleBackup and
\* discardBackup).
THEOREM QuietTextIsSafe == Spec => []QuietTextIsBackedUp
<1>1. AllInv => QuietTextIsBackedUp
  <2> SUFFICES ASSUME AllInv, Quiet, ~bare, ~raced
               PROVE  IF Unsaved THEN file = text ELSE ~Readable
    BY DEF QuietTextIsBackedUp
  <2>1. timer.step = "no" /\ queue = <<>> /\ Up
    BY DEF Quiet, NoTimer
  <2> QED BY <2>1 DEF AllInv, KeepInv, Planned, Safe
<1> QED BY <1>1, PlansHold, PTL

\* A window that closes without a late change or a crash leaves the unsaved
\* text in the backup, also one it had not restored yet, although a save may
\* end at any time and the tracker may not be ready.  A text that was saved or
\* reverted has no backup that would come back, unless it could not be deleted
\* or the tracker was not ready to; one that was saved only after it had been
\* backed up may have one, and it holds what the file holds
\* (onFinalBeforeShutdown, discardBackupsBeforeShutdown).
THEOREM QuitTextIsSafe == Spec => []QuitKeepsText
<1>1. AllInv => QuitKeepsText
  BY DEF AllInv, KeepInv, SafeOrBare, QuitKeepsText
<1> QED BY <1>1, PlansHold, PTL
=============================================================================
