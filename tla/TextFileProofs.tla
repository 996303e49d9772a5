---------------------------- MODULE TextFileProofs ----------------------------
(***************************************************************************)
(* Proofs about TextFile: that it never saves twice at a time and that its *)
(* variables keep their types, for any number of edits, saves, reverts,    *)
(* writes of other programs and failures.                                  *)
(*                                                                         *)
(* OneSaveAtATime is not inductive.  A save that ends clears the running   *)
(* task twice, once by the version it wrote and once by the version it was *)
(* asked for; the second must not clear the queued save that the first has *)
(* just started.  Orderly adds what excludes that: the id of the running   *)
(* task is that of its save, never above the version, and below it while   *)
(* another save is queued.                                                 *)
(*                                                                         *)
(* CleanTextWasKept needs two facts more (KeptInv): what the disk holds    *)
(* and what has been read of it was kept, and a write whose version is     *)
(* still the editor's is of the editor's text.                             *)
(*                                                                         *)
(* ReadKeepsTyping rests on ReadBase, OthersKept on what the model and its *)
(* saves know of the file (KnownInv, MetInv), and CleanTextIsOnDisk on     *)
(* what is still to come for a clean text that is not on disk (SettleInv). *)
(***************************************************************************)
EXTENDS TextFile, TLAPS

Running == [id : Nat, by : Slots]
Ops == [step : {"idle", "delay", "participants", "check", "write", "stat"}, id : Nat,
        version : Nat, kind : SaveKinds, text : Texts, seen : Stats,
        checked : Nat, cancelled : BOOLEAN]
Awaited == {"queued", "done"} \cup Slots
SaveQueue == [running : Running \cup {None}, queued : SaveKinds \cup {None},
              ops : [Slots -> Ops], calls : Seq(Awaited)]

FirstStep == {"delay", "participants"}
Writing == {"check", "write", "stat"}

\* What is true of the running save and of the one queued behind it.
OpOrderly(q, s) ==
  /\ q.running # None /\ q.running.by = s
  /\ q.ops[s].id \in Nat \ {0}
  /\ q.ops[s].step \in FirstStep => q.running.id = q.ops[s].id /\ q.ops[s].version = 0
  /\ q.ops[s].step \in Writing => q.running.id = q.ops[s].version /\ q.ops[s].id <= q.ops[s].version
  /\ q.queued # None => /\ q.ops[s].step # "participants"
                        /\ q.ops[s].step = "delay" => q.ops[s].cancelled

TaskOrderly(q, v) ==
  /\ q.running # None => q.running.id <= v
  /\ q.queued # None => q.running # None /\ q.running.id < v

Orderly(q, v) ==
  /\ TaskOrderly(q, v)
  /\ \A s \in Slots : q.ops[s].step # "idle" => OpOrderly(q, s)
  /\ q.running # None => q.ops[q.running.by].step # "idle"

----------------------------------------------------------------------------
(* The sequentializer. *)

\* Waiting for something changes the callers only.
LEMMA AwaitCalls ==
  ASSUME NEW q \in SaveQueue, NEW callers, NEW what \in Awaited
  PROVE  /\ Await(q, callers, what) \in SaveQueue
         /\ Await(q, callers, what).running = q.running
         /\ Await(q, callers, what).queued = q.queued
         /\ Await(q, callers, what).ops = q.ops
<1>. DEFINE calls == [i \in DOMAIN q.calls |-> IF i \in callers THEN what ELSE q.calls[i]]
<1>1. calls \in Seq(Awaited)
  <2>1. q.calls \in Seq(Awaited)
    BY DEF SaveQueue
  <2>2. DOMAIN q.calls = 1..Len(q.calls) /\ Len(q.calls) \in Nat
    BY <2>1
  <2>3. \A i \in 1..Len(q.calls) : q.calls[i] \in Awaited
    BY <2>1
  <2>4. calls \in [1..Len(q.calls) -> Awaited]
    BY <2>2, <2>3
  <2>. QED  BY <2>2, <2>4
<1>2. Await(q, callers, what) = [q EXCEPT !.calls = calls]
  BY DEF Await
<1>. HIDE DEF calls
<1>. QED  BY <1>1, <1>2 DEF SaveQueue

LEMMA AwaitOrderly ==
  ASSUME NEW q \in SaveQueue, NEW callers, NEW what \in Awaited, NEW v \in Nat, Orderly(q, v)
  PROVE  Await(q, callers, what) \in SaveQueue /\ Orderly(Await(q, callers, what), v)
BY AwaitCalls DEF Orderly, TaskOrderly, OpOrderly

AllIdle(q) == \A s \in Slots : q.ops[s].step = "idle"

\* A save is started only when none is under way.
LEMMA StartOrderly ==
  ASSUME NEW q \in SaveQueue, AllIdle(q), q.queued = None, NEW kind \in SaveKinds,
         NEW callers, NEW step \in FirstStep, version \in Nat \ {0}
  PROVE  /\ Start(q, kind, callers, step) \in SaveQueue
         /\ Orderly(Start(q, kind, callers, step), version)
         /\ Start(q, kind, callers, step).running # None
         /\ Start(q, kind, callers, step).running.id = version
<1>. DEFINE s == CHOOSE slot \in Slots : q.ops[slot].step = "idle"
            op == [NoSave EXCEPT !.step = step, !.id = version, !.kind = kind]
            w == Await(q, callers, s)
            r == [id |-> version, by |-> s]
            n == [w EXCEPT !.running = r, !.ops[s] = op]
<1>1. s \in Slots
  BY SlotAssumption DEF AllIdle
<1>2. op \in Ops
  BY DEF NoSave, Ops, FirstStep, Truncated, Texts, Stats, SaveKinds
<1>3. op.step = step /\ op.id = version /\ op.version = 0
  BY DEF NoSave
<1>4. r \in Running /\ r # None
  <2>1. r \in Running
    BY <1>1 DEF Running
  <2>2. None \notin Running
    BY NoneAssumption DEF Running
  <2>. QED  BY <2>1, <2>2
<1>5. w \in SaveQueue /\ w.queued = None /\ w.ops = q.ops
  <2>1. s \in Awaited
    BY <1>1 DEF Awaited
  <2>. HIDE DEF s
  <2>. QED  BY <2>1, AwaitCalls
<1>6. Start(q, kind, callers, step) = n
  BY DEF Start
<1>. HIDE DEF s, op, w
<1>7. /\ n \in SaveQueue /\ n.running = r /\ n.queued = None
      /\ n.ops = [q.ops EXCEPT ![s] = op]
  BY <1>1, <1>2, <1>4, <1>5 DEF SaveQueue
<1>8. q.ops \in [Slots -> Ops]
  BY DEF SaveQueue
<1>. HIDE DEF n
<1>9. \A t \in Slots : n.ops[t].step # "idle" => t = s
  BY <1>1, <1>7, <1>8 DEF AllIdle
<1>10. n.ops[s] = op
  BY <1>1, <1>7, <1>8
<1>11. OpOrderly(n, s)
  BY <1>3, <1>4, <1>7, <1>10 DEF OpOrderly, FirstStep, Writing
<1>12. TaskOrderly(n, version)
  BY <1>4, <1>7 DEF TaskOrderly
<1>13. op.step # "idle"
  BY <1>3 DEF FirstStep
<1>. QED  BY <1>4, <1>6, <1>7, <1>9, <1>10, <1>11, <1>12, <1>13 DEF Orderly

\* A save is queued behind one that writes an earlier version, or that is
\* cancelled before it writes any.
LEMMA QueueOrderly ==
  ASSUME NEW q \in SaveQueue, Orderly(q, version), Busy(q), q.running.id # version,
         \A s \in Slots : q.ops[s].step # "participants",
         NEW kind \in SaveKinds, NEW callers, version \in Nat
  PROVE  Queue(q, kind, callers) \in SaveQueue /\ Orderly(Queue(q, kind, callers), version)
<1>. DEFINE b == q.running.by
            c == CancelRunning(q)
            n == [Await(c, callers, "queued") EXCEPT !.queued = kind]
<1>1. q.running \in Running /\ q.running # None /\ b \in Slots
  BY DEF SaveQueue, Busy, Running
<1>2. /\ c \in SaveQueue /\ c.running = q.running
      /\ \A s \in Slots : /\ c.ops[s].step = q.ops[s].step /\ c.ops[s].id = q.ops[s].id
                          /\ c.ops[s].version = q.ops[s].version
                          /\ s = b /\ c.ops[s].step = "delay" => c.ops[s].cancelled
  <2>1. CASE q.ops[b].step = "delay"
    <3>1. c = [q EXCEPT !.ops = [q.ops EXCEPT ![b] = [q.ops[b] EXCEPT !.cancelled = TRUE]]]
      BY <2>1 DEF CancelRunning
    <3>2. q.ops \in [Slots -> Ops] /\ q.ops[b] \in Ops
      BY <1>1 DEF SaveQueue
    <3>. DEFINE o == [q.ops[b] EXCEPT !.cancelled = TRUE]
    <3>3. /\ o \in Ops /\ o.step = q.ops[b].step /\ o.id = q.ops[b].id
          /\ o.version = q.ops[b].version /\ o.cancelled = TRUE
      BY <3>2 DEF Ops
    <3>. HIDE DEF o
    <3>4. [q.ops EXCEPT ![b] = o] \in [Slots -> Ops]
      BY <3>2, <3>3
    <3>. DEFINE p == [q.ops EXCEPT ![b] = o]
    <3>5. c = [q EXCEPT !.ops = p]
      BY <3>1 DEF o
    <3>6. \A s \in Slots : p[s] = IF s = b THEN o ELSE q.ops[s]
      BY <1>1, <3>2
    <3>. HIDE DEF p
    <3>7. c \in SaveQueue /\ c.running = q.running /\ c.ops = p
      BY <3>4, <3>5 DEF SaveQueue, p
    <3>. QED  BY <3>3, <3>6, <3>7
  <2>2. CASE q.ops[b].step # "delay"
    <3>1. c = q
      BY <2>2 DEF CancelRunning
    <3>. QED  BY <2>2, <3>1
  <2>. QED  BY <2>1, <2>2
<1>3. Queue(q, kind, callers) = n
  BY DEF Queue
<1>. HIDE DEF c
<1>4. /\ Await(c, callers, "queued") \in SaveQueue
      /\ Await(c, callers, "queued").running = c.running
      /\ Await(c, callers, "queued").ops = c.ops
  BY <1>2, AwaitCalls DEF Awaited
<1>5. n \in SaveQueue /\ n.running = q.running /\ n.queued = kind /\ n.ops = c.ops
  BY <1>2, <1>4 DEF SaveQueue
<1>. HIDE DEF n
<1>6. q.running.id \in Nat /\ q.running.id < version
  BY <1>1 DEF Orderly, TaskOrderly, Running
<1>7. TaskOrderly(n, version)
  BY <1>1, <1>5, <1>6 DEF TaskOrderly
<1>8. \A s \in Slots : n.ops[s].step # "idle" => OpOrderly(n, s)
  <2>. TAKE s \in Slots
  <2>. HAVE n.ops[s].step # "idle"
  <2>1. OpOrderly(q, s) /\ s = b
    BY <1>2, <1>5 DEF Orderly, OpOrderly
  <2>. QED  BY <1>1, <1>2, <1>5, <2>1 DEF OpOrderly
<1>9. n.ops[b].step # "idle"
  BY <1>1, <1>2, <1>5 DEF Orderly
<1>. QED  BY <1>1, <1>3, <1>5, <1>7, <1>8, <1>9 DEF Orderly

LEMMA NotRunningIdle ==
  ASSUME NEW q \in SaveQueue, Orderly(q, version), ~Busy(q)
  PROVE  AllIdle(q) /\ q.queued = None
BY DEF Orderly, OpOrderly, TaskOrderly, Busy, AllIdle

\* Whatever doSave decides, order is kept.
LEMMA DoSaveOrderly ==
  ASSUME NEW q \in SaveQueue, Orderly(q, version), NEW kind \in SaveKinds, NEW callers,
         NEW isDirty \in BOOLEAN, NEW step \in FirstStep, version \in Nat \ {0}
  PROVE  /\ DoSave(q, kind, callers, isDirty, step) \in SaveQueue
         /\ Orderly(DoSave(q, kind, callers, isDirty, step), version)
         /\ q.running = None => \/ DoSave(q, kind, callers, isDirty, step).running = None
                                \/ DoSave(q, kind, callers, isDirty, step).running.id = version
<1>. DEFINE d == DoSave(q, kind, callers, isDirty, step)
<1>1. CASE \/ \E s \in Slots : q.ops[s].step = "participants"
           \/ ~IsRunning(q, version) /\ kind # "explicit" /\ ~isDirty
  <2>1. d = Await(q, callers, "done")
    BY <1>1 DEF DoSave
  <2>2. Await(q, callers, "done") \in SaveQueue /\ Orderly(Await(q, callers, "done"), version)
        /\ Await(q, callers, "done").running = q.running
    BY AwaitOrderly, AwaitCalls DEF Awaited
  <2>. QED  BY <2>1, <2>2
<1>2. CASE (\A s \in Slots : q.ops[s].step # "participants") /\ IsRunning(q, version)
  <2>1. d = Await(q, callers, q.running.by)
    BY <1>2 DEF DoSave
  <2>2. q.running # None /\ q.running.by \in Awaited
    BY <1>2 DEF IsRunning, Busy, SaveQueue, Running, Awaited
  <2>. QED  BY <2>1, <2>2, AwaitOrderly
<1>3. CASE /\ \A s \in Slots : q.ops[s].step # "participants"
           /\ ~IsRunning(q, version) /\ (kind = "explicit" \/ isDirty)
  <2>1. CASE Busy(q)
    <3>1. d = Queue(q, kind, callers)
      BY <1>3, <2>1 DEF DoSave
    <3>2. q.running.id # version /\ q.running # None
      BY <1>3, <2>1 DEF IsRunning, Busy
    <3>. QED  BY <1>3, <2>1, <3>1, <3>2, QueueOrderly
  <2>2. CASE ~Busy(q)
    <3>1. d = Start(q, kind, callers, step)
      BY <1>3, <2>2 DEF DoSave
    <3>. QED  BY <2>2, <3>1, NotRunningIdle, StartOrderly
  <2>. QED  BY <2>1, <2>2
<1>. QED  BY <1>1, <1>2, <1>3

\* A save that is over frees the sequentializer, which goes on to the queued
\* save, if any: that one has a later version.
LEMMA DoneOrderly ==
  ASSUME NEW q \in SaveQueue, AllIdle(q), q.running # None, TaskOrderly(q, version),
         NEW isDirty \in BOOLEAN, NEW step \in FirstStep, version \in Nat \ {0}
  PROVE  LET d == Done(q, q.running.id, isDirty, step)
         IN /\ d \in SaveQueue /\ Orderly(d, version)
            /\ d.running = None \/ q.running.id < d.running.id
<1>. DEFINE d == Done(q, q.running.id, isDirty, step)
<1>1. q.running \in Running /\ q.running.id \in Nat
  BY DEF SaveQueue, Running
<1>2. IsRunning(q, q.running.id)
  BY DEF IsRunning, Busy
<1>3. CASE q.queued = None
  <2>1. d = [q EXCEPT !.running = None]
    BY <1>2, <1>3 DEF Done
  <2>2. d \in SaveQueue /\ d.running = None /\ d.queued = None /\ d.ops = q.ops
    BY <1>3, <2>1 DEF SaveQueue
  <2>. QED  BY <2>2 DEF Orderly, TaskOrderly, AllIdle
<1>4. CASE q.queued # None
  <2>. DEFINE f == [q EXCEPT !.running = None, !.queued = None]
              w == Waiting(q, "queued")
  <2>1. f \in SaveQueue /\ f.running = None /\ f.queued = None /\ f.ops = q.ops
    BY DEF SaveQueue
  <2>2. Orderly(f, version)
    BY <2>1 DEF Orderly, TaskOrderly, AllIdle
  <2>3. q.queued \in SaveKinds
    BY <1>4 DEF SaveQueue
  <2>4. d = DoSave(f, q.queued, w, isDirty, step)
    BY <1>2, <1>4 DEF Done
  <2>. HIDE DEF f, w
  <2>5. d \in SaveQueue /\ Orderly(d, version) /\ (d.running = None \/ d.running.id = version)
    BY <2>1, <2>2, <2>3, <2>4, DoSaveOrderly
  <2>6. q.running.id < version
    BY <1>4 DEF TaskOrderly
  <2>. QED  BY <2>5, <2>6
<1>. QED  BY <1>3, <1>4

----------------------------------------------------------------------------
(* The steps of the saves. *)

\* A save that ends, in whatever way, keeps order.
LEMMA FinishOrderly ==
  ASSUME saves \in SaveQueue, Orderly(saves, version), version \in Nat \ {0},
         NEW s \in Slots, Saving(s), Finish(s), dirty' \in BOOLEAN
  PROVE  saves' \in SaveQueue /\ Orderly(saves', version)
<1>. DEFINE op == saves.ops[s]
            w == Await(saves, Waiting(saves, s), "done")
            freed == [w EXCEPT !.ops[s] = NoSave]
<1>1. PICK step \in FirstStep :
        saves' = Done(Done(freed, op.version, dirty', step), op.id, dirty', step)
  BY DEF Finish, FirstSteps, FirstStep
<1>2. w \in SaveQueue /\ w.running = saves.running /\ w.queued = saves.queued /\ w.ops = saves.ops
  BY AwaitCalls DEF Awaited
<1>3. NoSave \in Ops /\ NoSave.step = "idle"
  BY DEF NoSave, Ops, Truncated, Texts, Stats, SaveKinds
<1>4. OpOrderly(saves, s) /\ saves.running \in Running /\ saves.running # None
      /\ op \in Ops /\ op.step # "idle"
  BY DEF Saving, Orderly, OpOrderly, SaveQueue
<1>. HIDE DEF w
<1>5. /\ freed \in SaveQueue /\ freed.running = saves.running /\ freed.queued = saves.queued
      /\ freed.ops = [saves.ops EXCEPT ![s] = NoSave]
  BY <1>2, <1>3 DEF SaveQueue
<1>. HIDE DEF freed
<1>6. AllIdle(freed)
  <2>1. \A t \in Slots : saves.ops[t].step # "idle" => t = s
    BY <1>4 DEF Orderly, OpOrderly
  <2>2. saves.ops \in [Slots -> Ops]
    BY DEF SaveQueue
  <2>. QED  BY <1>3, <1>5, <2>1, <2>2 DEF AllIdle
<1>7. TaskOrderly(freed, version)
  BY <1>5 DEF Orderly, TaskOrderly
<1>. DEFINE rid == freed.running.id
            d == Done(freed, rid, dirty', step)
<1>8. d \in SaveQueue /\ Orderly(d, version) /\ (d.running = None \/ rid < d.running.id)
  BY <1>4, <1>5, <1>6, <1>7, DoneOrderly
<1>9. rid \in Nat /\ op.id \in Nat \ {0} /\ op.version \in Nat
  BY <1>4, <1>5 DEF Running, Ops, OpOrderly
<1>10. CASE op.step \in Writing
  <2>1. rid = op.version /\ op.id <= rid
    BY <1>4, <1>5, <1>10 DEF OpOrderly
  <2>2. saves' = Done(d, op.id, dirty', step)
    BY <1>1, <2>1
  <2>3. d.running # None => d.running.id \in Nat
    BY <1>8 DEF SaveQueue, Running
  <2>. HIDE DEF d, rid
  <2>4. ~IsRunning(d, op.id)
    BY <1>8, <1>9, <2>1, <2>3 DEF IsRunning, Busy
  <2>. QED  BY <1>8, <2>2, <2>4 DEF Done
<1>11. CASE op.step \in FirstStep
  <2>1. rid = op.id /\ op.version = 0
    BY <1>4, <1>5, <1>11 DEF OpOrderly
  <2>2. ~IsRunning(freed, op.version)
    BY <1>9, <2>1 DEF IsRunning
  <2>3. Done(freed, op.version, dirty', step) = freed
    BY <2>2 DEF Done
  <2>. QED  BY <1>1, <1>8, <2>1, <2>3
<1>12. op.step \in Writing \cup FirstStep
  BY <1>4 DEF Ops, Writing, FirstStep
<1>. QED  BY <1>10, <1>11, <1>12

\* Editing the text keeps order: the version only grows.
LEMMA LaterOrderly ==
  ASSUME NEW q \in SaveQueue, NEW v \in Nat, Orderly(q, v)
  PROVE  Orderly(q, v + 1)
BY DEF Orderly, TaskOrderly, SaveQueue, Running

\* A call of save keeps order.
LEMMA SaveKeepsOrderly ==
  ASSUME saves \in SaveQueue, Orderly(saves, version), version \in Nat \ {0},
         dirty \in BOOLEAN, NEW kind \in SaveKinds, Save(kind)
  PROVE  saves' \in SaveQueue /\ Orderly(saves', version)
<1>. DEFINE called == [saves EXCEPT !.calls = Append(@, "done")]
<1>1. Append(saves.calls, "done") \in Seq(Awaited)
  BY DEF SaveQueue, Awaited
<1>2. /\ called \in SaveQueue /\ called.running = saves.running
      /\ called.queued = saves.queued /\ called.ops = saves.ops
  BY <1>1 DEF SaveQueue
<1>3. Orderly(called, version)
  BY <1>2 DEF Orderly, TaskOrderly, OpOrderly
<1>4. \/ saves' = called
      \/ \E step \in FirstStep, callers \in {{Len(called.calls)}} :
           saves' = DoSave(called, kind, callers, dirty, step)
  BY DEF Save, FirstSteps, FirstStep
<1>. HIDE DEF called
<1>. QED  BY <1>2, <1>3, <1>4, DoSaveOrderly

\* A step of a save that is not its end keeps order.
LEMMA OpMovesOn ==
  ASSUME saves \in SaveQueue, Orderly(saves, version), version \in Nat \ {0},
         NEW s \in Slots, Saving(s), NEW op \in Ops, op.step # "idle",
         NEW running \in Running, running.by = s,
         saves' = [saves EXCEPT !.running = running, !.ops[s] = op],
         running.id <= version,
         saves.queued # None => running.id < version,
         OpOrderly(saves', s)
  PROVE  saves' \in SaveQueue /\ Orderly(saves', version)
<1>0. saves.ops \in [Slots -> Ops]
  BY DEF SaveQueue
<1>1. saves' \in SaveQueue /\ saves'.running = running /\ saves'.queued = saves.queued
      /\ saves'.ops = [saves.ops EXCEPT ![s] = op]
  BY DEF SaveQueue
<1>2. \A t \in Slots : saves'.ops[t].step # "idle" => t = s
  <2>1. saves.running.by = s
    BY DEF Saving, Orderly, OpOrderly
  <2>. QED  BY <1>0, <1>1, <2>1 DEF Orderly, OpOrderly
<1>3. TaskOrderly(saves', version)
  BY <1>1 DEF TaskOrderly, OpOrderly
<1>4. saves'.ops[s].step # "idle"
  BY <1>0, <1>1
<1>. QED  BY <1>1, <1>2, <1>3, <1>4 DEF Orderly

\* A save goes on and the running task stays.
LEMMA OpStepsOn ==
  ASSUME saves \in SaveQueue, Orderly(saves, version), version \in Nat \ {0},
         NEW s \in Slots, Saving(s), NEW op \in Ops,
         saves' = [saves EXCEPT !.ops[s] = op],
         op.id = saves.ops[s].id, op.version = saves.ops[s].version,
         \/ /\ op.step \in Writing /\ saves.ops[s].step \in Writing
         \/ /\ op.step = "participants" /\ saves.ops[s].step = "delay"
            /\ ~saves.ops[s].cancelled
  PROVE  saves' \in SaveQueue /\ Orderly(saves', version)
<1>1. /\ OpOrderly(saves, s) /\ saves.running \in Running /\ saves.running # None
      /\ saves.running.by = s
  BY DEF Saving, Orderly, OpOrderly, SaveQueue
<1>2. saves' = [saves EXCEPT !.running = saves.running, !.ops[s] = op]
  BY DEF SaveQueue
<1>3. /\ saves'.running = saves.running /\ saves'.queued = saves.queued /\ saves'.ops[s] = op
  BY DEF SaveQueue
<1>4. OpOrderly(saves', s)
  BY <1>1, <1>3 DEF OpOrderly, Writing, FirstStep
<1>5. saves.running.id <= version /\ (saves.queued # None => saves.running.id < version)
  BY <1>1 DEF Orderly, TaskOrderly
<1>6. op.step # "idle"
  BY DEF Writing
<1>. QED  BY <1>1, <1>2, <1>4, <1>5, <1>6, OpMovesOn

\* Writing begins with the version as it is.
LEMMA BeginWriteOrderly ==
  ASSUME saves \in SaveQueue, Orderly(saves, version), version \in Nat \ {0},
         buffer.text \in Texts, stat \in Stats, NEW s \in Slots, BeginWrite(s)
  PROVE  saves' \in SaveQueue /\ Orderly(saves', version)
<1>. DEFINE old == saves.ops[s]
            op == [old EXCEPT !.step = "check", !.version = version, !.text = buffer.text, !.seen = stat]
            running == [id |-> version, by |-> s]
<1>1. old \in Ops /\ old.step = "participants"
  BY DEF BeginWrite, SaveQueue
<1>2. op \in Ops /\ op.step = "check" /\ op.id = old.id /\ op.version = version
  BY <1>1 DEF Ops
<1>3. running \in Running /\ running.by = s /\ running.id = version
  BY DEF Running
<1>4. saves' = [saves EXCEPT !.running = running, !.ops[s] = op]
  BY DEF BeginWrite
<1>5. Saving(s)
  BY <1>1 DEF Saving
<1>6. OpOrderly(saves, s) /\ saves.queued = None /\ saves.running.id <= version
  BY <1>1, <1>5 DEF Saving, Orderly, OpOrderly, TaskOrderly
<1>. HIDE DEF op, running
<1>7. saves'.running = running /\ saves'.queued = None /\ saves'.ops[s] = op
  BY <1>4, <1>6 DEF SaveQueue
<1>8. running # None
  <2>1. None \notin Running
    BY NoneAssumption DEF Running
  <2>. QED  BY <1>3, <2>1
<1>9. OpOrderly(saves', s)
  BY <1>1, <1>2, <1>3, <1>6, <1>7, <1>8 DEF OpOrderly, FirstStep, Writing
<1>10. running.id <= version /\ op.step # "idle" /\ (saves.queued # None => running.id < version)
  BY <1>2, <1>3, <1>6
<1>. QED  BY <1>2, <1>3, <1>4, <1>5, <1>9, <1>10, OpMovesOn

----------------------------------------------------------------------------
(* The inductive invariant, in the parts that the actions disturb. *)

Before == [dirty : BOOLEAN, conflict : BOOLEAN, error : BOOLEAN, saved : Nat]
Readings == [step : {"no", "asked", "read"}, by : {"reload", "revert"}, version : Nat,
             etag : Stats \cup {None}, stat : Stats \cup {None}, found : Files \cup {None}]

TextInv == /\ buffer \in Alts /\ past \in Seq(Alts) /\ version \in Nat \ {0}
           /\ undid \in BOOLEAN
FlagInv == /\ dirty \in BOOLEAN /\ inConflictMode \in BOOLEAN /\ inErrorMode \in BOOLEAN
           /\ bufferSavedVersionId \in Nat
FileInv == /\ stat \in Stats /\ disk \in Files /\ event \in BOOLEAN
           /\ kept \subseteq Texts /\ shown \in Nat /\ astray \in BOOLEAN
UsedInv == used \in [edits : Nat, others : Nat, reverts : Nat, failures : Nat]

\* A reload is being read only while one is queued, and a revert only while
\* its flags are kept.
ReadInv ==
  /\ reading \in Readings /\ reloads \in 0..2 /\ reverting \in Before \cup {None}
  /\ reading.step # "no" /\ reading.by = "reload" => reloads > 0
  /\ reading.step # "no" /\ reading.by = "revert" => reverting \in Before
  /\ reading.step = "read" =>
       reading.stat \in Stats /\ (reading.etag = reading.stat \/ reading.found \in Files)

SaveInv == saves \in SaveQueue /\ Orderly(saves, version)

Inv == TextInv /\ FlagInv /\ FileInv /\ UsedInv /\ ReadInv /\ SaveInv

LEMMA UseTyped ==
  ASSUME UsedInv, NEW what \in {"edits", "others", "reverts", "failures"}, NEW bound, Use(what, bound)
  PROVE  UsedInv'
BY DEF UsedInv, Use

LEMMA StatTyped ==
  ASSUME NEW file \in Files
  PROVE  StatOf(file) \in Stats
BY DEF StatOf, Files, Stats, Texts

LEMMA OwnTyped ==
  ASSUME NEW n \in Nat
  PROVE  Own(n) \in Texts /\ Truncated \in Texts
BY SizeAssumption DEF Own, Truncated, Texts

LEMMA UpdateStatTyped ==
  ASSUME stat \in Stats, NEW new \in Stats, UpdateStat(new)
  PROVE  stat' \in Stats
BY DEF UpdateStat

LEMMA InitInv == Init => Inv
<1>. SUFFICES ASSUME Init PROVE Inv
  OBVIOUS
<1>1. Foreign(0, OwnSize) \in Texts
  BY SizeAssumption DEF Foreign, Texts
<1>2. /\ buffer = [alt |-> 1, text |-> Foreign(0, OwnSize)]
      /\ disk = [text |-> Foreign(0, OwnSize), mtime |-> 0] /\ kept = {Foreign(0, OwnSize)}
      /\ stat = StatOf(disk)
  BY DEF Init
<1>3. TextInv
  <2>1. past = <<>> /\ version = 1 /\ undid = FALSE
    BY DEF Init
  <2>2. buffer \in Alts
    BY <1>1, <1>2 DEF Alts
  <2>3. past \in Seq(Alts)
    BY <2>1
  <2>4. version \in Nat \ {0}
    BY <2>1
  <2>5. undid \in BOOLEAN
    BY <2>1
  <2>. QED  BY <2>2, <2>3, <2>4, <2>5 DEF TextInv
<1>4. FlagInv
  BY DEF Init, FlagInv
<1>5. disk \in Files
  BY <1>1, <1>2 DEF Files
<1>6. FileInv
  BY <1>1, <1>2, <1>5, StatTyped DEF Init, FileInv
<1>7. UsedInv
  BY DEF Init, UsedInv
<1>8. ReadInv
  BY DEF Init, ReadInv, NotReading, Readings
<1>9. SaveInv
  <2>1. NoSave \in Ops /\ NoSave.step = "idle"
    BY DEF NoSave, Ops, Truncated, Texts, Stats, SaveKinds
  <2>2. saves = [running |-> None, queued |-> None, ops |-> [s \in Slots |-> NoSave], calls |-> <<>>]
    BY DEF Init
  <2>3. saves \in SaveQueue
    BY <2>1, <2>2 DEF SaveQueue
  <2>. QED  BY <2>1, <2>2, <2>3 DEF SaveInv, Orderly, TaskOrderly
<1>. QED  BY <1>3, <1>4, <1>6, <1>7, <1>8, <1>9 DEF Inv

\* The model changes its text, and perhaps its flags.
LEMMA TypeInv == Inv /\ Type => Inv'
<1>. SUFFICES ASSUME Inv, Type PROVE Inv'
  OBVIOUS
<1>. USE DEF Inv
<1>1. TextInv'
  <2>1. version' = version + 1 /\ undid' = undid /\ past' = Append(past, buffer)
        /\ buffer' = [alt |-> version + 1, text |-> Own(version + 1)]
    BY DEF Type
  <2>2. buffer' \in Alts
    BY <2>1, OwnTyped DEF TextInv, Alts
  <2>. QED  BY <2>1, <2>2 DEF TextInv
<1>2. FlagInv'
  BY DEF Type, SetDirty, FlagInv
<1>3. FileInv' /\ ReadInv'
  BY DEF Type, resolving, history, FileInv, ReadInv
<1>4. UsedInv'
  BY UseTyped DEF Type
<1>5. SaveInv'
  BY LaterOrderly DEF Type, SaveInv, TextInv
<1>. QED  BY <1>1, <1>2, <1>3, <1>4, <1>5

LEMMA UndoInv == Inv /\ Undo => Inv'
<1>. SUFFICES ASSUME Inv, Undo PROVE Inv'
  OBVIOUS
<1>. USE DEF Inv
<1>1. TextInv'
  <2>1. past # <<>> /\ buffer' = past[Len(past)] /\ past' = SubSeq(past, 1, Len(past) - 1)
        /\ version' = version + 1 /\ undid' = TRUE
    BY DEF Undo, Last, Front
  <2>2. past \in Seq(Alts) /\ Len(past) \in Nat \ {0}
    BY <2>1 DEF TextInv
  <2>3. buffer' \in Alts
    BY <2>1, <2>2
  <2>4. past' \in Seq(Alts)
    BY <2>1, <2>2
  <2>. QED  BY <2>1, <2>3, <2>4 DEF TextInv
<1>2. FlagInv'
  <2>1. buffer'.alt \in Nat
    BY <1>1 DEF TextInv, Alts
  <2>. QED  BY <2>1 DEF Undo, SetDirty, SetClean, FlagInv
<1>3. FileInv' /\ ReadInv'
  BY DEF Undo, resolving, FileInv, ReadInv
<1>4. UsedInv'
  BY UseTyped DEF Undo
<1>5. SaveInv'
  BY LaterOrderly DEF Undo, SaveInv, TextInv
<1>. QED  BY <1>1, <1>2, <1>3, <1>4, <1>5

LEMMA SaveCallInv == ASSUME NEW kind \in SaveKinds PROVE Inv /\ Save(kind) => Inv'
<1>. SUFFICES ASSUME Inv, Save(kind) PROVE Inv'
  OBVIOUS
<1>. USE DEF Inv
<1>1. SaveInv'
  BY SaveKeepsOrderly DEF SaveInv, FlagInv, TextInv, Save, text
<1>. QED  BY <1>1 DEF Save, text, flags, resolving, history, TextInv, FlagInv, FileInv, ReadInv, UsedInv

LEMMA OthersInv == ASSUME NEW size \in Sizes PROVE Inv /\ OthersWrite(size) => Inv'
<1>. SUFFICES ASSUME Inv, OthersWrite(size) PROVE Inv'
  OBVIOUS
<1>. USE DEF Inv
<1>1. disk.mtime \in Nat /\ size \in Nat
  BY SizeAssumption DEF FileInv, Files
<1>2. Foreign(disk.mtime + 1, size) \in Texts
  BY <1>1 DEF Foreign, Texts
<1>3. disk' = [text |-> Foreign(disk.mtime + 1, size), mtime |-> disk.mtime + 1]
      /\ kept' = kept \cup {disk'.text} /\ event' = TRUE
  BY DEF OthersWrite
<1>4. disk' \in Files
  BY <1>1, <1>2, <1>3 DEF Files
<1>5. FileInv'
  BY <1>3, <1>4 DEF OthersWrite, FileInv, Files
<1>6. UsedInv'
  BY UseTyped DEF OthersWrite
<1>. QED  BY <1>5, <1>6 DEF OthersWrite, text, flags, resolving, TextInv, FlagInv, ReadInv, SaveInv

----------------------------------------------------------------------------
(* The steps of a save keep the invariant. *)

\* What the end of a save leaves to be shown.
LEMMA EndInv ==
  ASSUME Inv, FlagInv', NEW s \in Slots, Saving(s), Finish(s), UNCHANGED text
  PROVE  SaveInv'
BY FinishOrderly DEF Inv, SaveInv, TextInv, FlagInv, text

LEMMA AbandonInv ==
  ASSUME Inv, NEW s \in Slots, Saving(s), Abandon(s),
         UNCHANGED <<text, undid, stat, disk, event, resolving, kept, shown, used>>
  PROVE  Inv'
<1>1. FlagInv'
  BY DEF Abandon, flags, Inv, FlagInv
<1>2. SaveInv'
  BY <1>1, EndInv DEF Abandon
<1>3. FileInv'
  BY DEF Abandon, Inv, FileInv
<1>. QED  BY <1>1, <1>2, <1>3 DEF Inv, text, resolving, TextInv, UsedInv, ReadInv

LEMMA DelayEndsInv == ASSUME NEW s \in Slots PROVE Inv /\ DelayEnds(s) => Inv'
<1>. SUFFICES ASSUME Inv, DelayEnds(s) PROVE Inv'
  OBVIOUS
<1>1. Saving(s)
  BY DEF DelayEnds, Saving
<1>2. CASE saves.ops[s].cancelled
  BY <1>1, <1>2, AbandonInv DEF DelayEnds
<1>3. CASE ~saves.ops[s].cancelled
  <2>. DEFINE op == [saves.ops[s] EXCEPT !.step = "participants"]
  <2>1. saves.ops[s] \in Ops
    BY DEF Inv, SaveInv, SaveQueue
  <2>2. /\ op \in Ops /\ op.step = "participants" /\ op.id = saves.ops[s].id
        /\ op.version = saves.ops[s].version
    BY <2>1 DEF Ops
  <2>3. saves' = [saves EXCEPT !.ops[s] = op]
    BY <1>3 DEF DelayEnds
  <2>4. saves.ops[s].step = "delay"
    BY DEF DelayEnds
  <2>. HIDE DEF op
  <2>5. saves' \in SaveQueue /\ Orderly(saves', version)
    BY <1>1, <1>3, <2>2, <2>3, <2>4, OpStepsOn DEF Inv, SaveInv, TextInv
  <2>6. SaveInv'
    BY <2>5 DEF DelayEnds, SaveInv, text
  <2>. QED
    BY <1>3, <2>6 DEF DelayEnds, Inv, text, flags, resolving, TextInv, FlagInv, FileInv, UsedInv, ReadInv
<1>. QED  BY <1>2, <1>3

LEMMA CancelInv == ASSUME NEW s \in Slots PROVE Inv /\ ParticipantsCancel(s) => Inv'
BY AbandonInv DEF ParticipantsCancel, Saving

LEMMA BeginWriteInv == ASSUME NEW s \in Slots PROVE Inv /\ BeginWrite(s) => Inv'
<1>. SUFFICES ASSUME Inv, BeginWrite(s) PROVE Inv'
  OBVIOUS
<1>1. saves' \in SaveQueue /\ Orderly(saves', version)
  BY BeginWriteOrderly DEF Inv, SaveInv, TextInv, FileInv, Alts
<1>2. SaveInv'
  BY <1>1 DEF BeginWrite, text, SaveInv
<1>3. FlagInv'
  BY DEF BeginWrite, Inv, FlagInv
<1>. QED
  BY <1>2, <1>3 DEF BeginWrite, Inv, text, resolving, history, TextInv, FileInv, UsedInv, ReadInv

LEMMA SaveErrorTyped ==
  ASSUME FlagInv, NEW conflict \in BOOLEAN, SaveError(conflict)
  PROVE  FlagInv'
BY DEF FlagInv, SaveError

LEMMA CheckInv == ASSUME NEW s \in Slots PROVE Inv /\ Check(s) => Inv'
<1>. SUFFICES ASSUME Inv, Check(s) PROVE Inv'
  OBVIOUS
<1>1. Saving(s) /\ UNCHANGED text
  BY DEF Check, Saving
<1>2. FlagInv' /\ SaveInv'
  <2>1. CASE ModifiedSince(saves.ops[s])
    <3>1. FlagInv'
      BY <2>1, SaveErrorTyped DEF Check, Inv
    <3>. QED  BY <1>1, <2>1, <3>1, EndInv DEF Check
  <2>2. CASE ~ModifiedSince(saves.ops[s])
    <3>. DEFINE op == [saves.ops[s] EXCEPT !.step = "write", !.checked = disk.mtime]
    <3>1. saves.ops[s] \in Ops /\ disk.mtime \in Nat
      BY DEF Inv, SaveInv, SaveQueue, FileInv, Files
    <3>2. /\ op \in Ops /\ op.step = "write" /\ op.id = saves.ops[s].id
          /\ op.version = saves.ops[s].version
      BY <3>1 DEF Ops
    <3>3. saves' = [saves EXCEPT !.ops[s] = op]
      BY <2>2 DEF Check
    <3>4. saves.ops[s].step \in Writing /\ op.step \in Writing
      BY <3>2 DEF Check, Writing
    <3>. HIDE DEF op
    <3>5. saves' \in SaveQueue /\ Orderly(saves', version)
      BY <1>1, <3>2, <3>3, <3>4, OpStepsOn DEF Inv, SaveInv, TextInv
    <3>6. SaveInv'
      BY <1>1, <3>5 DEF SaveInv, text
    <3>. QED  BY <2>2, <3>6 DEF Check, flags, Inv, FlagInv
  <2>. QED  BY <2>1, <2>2
<1>. QED
  BY <1>1, <1>2 DEF Check, Inv, text, resolving, history, TextInv, FileInv, UsedInv, ReadInv

\* Whatever is written has its type.
LEMMA OverwriteTyped ==
  ASSUME FileInv, NEW new \in Texts, Overwrite(new)
  PROVE  disk' \in Files /\ event' \in BOOLEAN /\ kept' \subseteq Texts
BY DEF FileInv, Files, Overwrite

LEMMA WriteInv == ASSUME NEW s \in Slots PROVE Inv /\ Write(s) => Inv'
<1>. SUFFICES ASSUME Inv, Write(s) PROVE Inv'
  OBVIOUS
<1>. DEFINE op == [saves.ops[s] EXCEPT !.step = "stat"]
<1>1. saves.ops[s] \in Ops /\ saves.ops[s].text \in Texts
  BY DEF Inv, SaveInv, SaveQueue, Ops
<1>2. /\ op \in Ops /\ op.step = "stat" /\ op.id = saves.ops[s].id
      /\ op.version = saves.ops[s].version
  BY <1>1 DEF Ops
<1>3. saves' = [saves EXCEPT !.ops[s] = op]
  BY DEF Write
<1>4. saves.ops[s].step \in Writing /\ op.step \in Writing /\ Saving(s)
  BY <1>2 DEF Write, Writing, Saving
<1>. HIDE DEF op
<1>5. saves' \in SaveQueue /\ Orderly(saves', version)
  BY <1>2, <1>3, <1>4, OpStepsOn DEF Inv, SaveInv, TextInv
<1>6. SaveInv'
  BY <1>5 DEF Write, text, SaveInv
<1>7. FileInv'
  BY <1>1, OverwriteTyped DEF Write, Inv, FileInv
<1>. QED
  BY <1>6, <1>7 DEF Write, Inv, text, flags, resolving, TextInv, FlagInv, UsedInv, ReadInv

LEMMA WriteFailsInv == ASSUME NEW s \in Slots PROVE Inv /\ WriteFails(s) => Inv'
<1>. SUFFICES ASSUME Inv, WriteFails(s) PROVE Inv'
  OBVIOUS
<1>1. Saving(s) /\ UNCHANGED text
  BY DEF WriteFails, Saving
<1>2. FlagInv'
  BY SaveErrorTyped DEF WriteFails, Inv
<1>3. SaveInv'
  BY <1>1, <1>2, EndInv DEF WriteFails
<1>4. FileInv'
  <2>1. Truncated \in Texts
    BY OwnTyped
  <2>. QED  BY <2>1, OverwriteTyped DEF WriteFails, Inv, FileInv
<1>5. UsedInv'
  BY UseTyped DEF WriteFails, Inv
<1>. QED
  BY <1>1, <1>2, <1>3, <1>4, <1>5 DEF WriteFails, Inv, text, resolving, TextInv, ReadInv

LEMMA WriteSucceedsInv == ASSUME NEW s \in Slots PROVE Inv /\ WriteSucceeds(s) => Inv'
<1>. SUFFICES ASSUME Inv, WriteSucceeds(s) PROVE Inv'
  OBVIOUS
<1>1. Saving(s) /\ UNCHANGED text
  BY DEF WriteSucceeds, Saving
<1>2. FlagInv'
  <2>1. buffer.alt \in Nat
    BY DEF Inv, TextInv, Alts
  <2>. QED  BY <2>1 DEF WriteSucceeds, Succeeded, SetClean, flags, Inv, FlagInv
<1>3. SaveInv'
  BY <1>1, <1>2, EndInv DEF WriteSucceeds
<1>4. FileInv'
  <2>1. stat' \in Stats
    BY StatTyped, UpdateStatTyped DEF WriteSucceeds, Inv, FileInv
  <2>. QED  BY <2>1 DEF WriteSucceeds, Inv, FileInv
<1>. QED
  BY <1>1, <1>2, <1>3, <1>4 DEF WriteSucceeds, Inv, text, resolving, TextInv, UsedInv, ReadInv

----------------------------------------------------------------------------
(* The steps of reloads and reverts keep the invariant. *)

LEMMA FileChangedInv == Inv /\ FileChanged => Inv'
<1>. SUFFICES ASSUME Inv, FileChanged PROVE Inv'
  OBVIOUS
<1>1. ReadInv'
  BY DEF FileChanged, Inv, ReadInv
<1>2. FileInv'
  BY DEF FileChanged, history, Inv, FileInv
<1>. QED
  BY <1>1, <1>2 DEF FileChanged, text, flags, Inv, TextInv, FlagInv, UsedInv, SaveInv

LEMMA AskedTyped ==
  ASSUME TextInv, NEW by \in {"reload", "revert"}, NEW etag \in Stats \cup {None}
  PROVE  Asked(by, etag) \in Readings /\ Asked(by, etag).by = by /\ Asked(by, etag).step = "asked"
BY DEF Asked, TextInv, Readings

LEMMA ReloadStartsInv == Inv /\ ReloadStarts => Inv'
<1>. SUFFICES ASSUME Inv, ReloadStarts PROVE Inv'
  OBVIOUS
<1>1. ReadInv'
  <2>1. stat \in Stats \cup {None}
    BY DEF Inv, FileInv
  <2>2. /\ Asked("reload", stat) \in Readings /\ Asked("reload", stat).by = "reload"
        /\ Asked("reload", stat).step = "asked"
    BY <2>1, AskedTyped DEF Inv
  <2>. QED  BY <2>2 DEF ReloadStarts, Inv, ReadInv
<1>. QED
  BY <1>1 DEF ReloadStarts, text, flags, history, Inv, TextInv, FlagInv, FileInv, UsedInv, SaveInv

\* Reading for a revert keeps the flags to be restored.
LEMMA RevertReadsTyped ==
  ASSUME Inv, reading.step = "no", NEW isDirty \in BOOLEAN, NEW before \in Before,
         RevertReads(isDirty, before), UNCHANGED reloads
  PROVE  ReadInv' /\ astray' \in BOOLEAN
<1>1. /\ Asked("revert", None) \in Readings /\ Asked("revert", None).by = "revert"
      /\ Asked("revert", None).step = "asked"
  BY AskedTyped DEF Inv
<1>2. ReadInv'
  BY <1>1 DEF RevertReads, Inv, ReadInv
<1>3. astray' \in BOOLEAN
  BY DEF RevertReads, Inv, FileInv
<1>. QED  BY <1>2, <1>3

LEMMA RevertInv == Inv /\ Revert => Inv'
<1>. SUFFICES ASSUME Inv, Revert PROVE Inv'
  OBVIOUS
<1>. DEFINE before == [dirty |-> dirty, conflict |-> inConflictMode, error |-> inErrorMode,
                       saved |-> bufferSavedVersionId]
<1>1. before \in Before
  BY DEF Before, Inv, FlagInv
<1>2. IF reading.step = "no" THEN RevertReads(FALSE, before)
      ELSE reverting' = before /\ UNCHANGED <<reading, astray>>
  BY DEF Revert
<1>3. UNCHANGED reloads
  BY DEF Revert
<1>. HIDE DEF before
<1>4. ReadInv' /\ astray' \in BOOLEAN
  <2>1. CASE reading.step = "no"
    BY <1>1, <1>2, <1>3, <2>1, RevertReadsTyped
  <2>2. CASE reading.step # "no"
    <3>1. ReadInv'
      BY <1>1, <1>2, <1>3, <2>2 DEF Inv, ReadInv
    <3>2. astray' \in BOOLEAN
      BY <1>2, <2>2 DEF Inv, FileInv
    <3>. QED  BY <3>1, <3>2
  <2>. QED  BY <2>1, <2>2
<1>5. buffer.alt \in Nat /\ buffer.text \in Texts
  BY DEF Inv, TextInv, Alts
<1>6. FlagInv'
  BY <1>5 DEF Revert, SetClean, FlagInv
<1>7. FileInv'
  BY <1>4, <1>5 DEF Revert, Inv, FileInv
<1>8. UsedInv'
  BY UseTyped DEF Revert, Inv
<1>. QED  BY <1>4, <1>6, <1>7, <1>8 DEF Revert, text, Inv, TextInv, SaveInv

LEMMA RevertStartsInv == Inv /\ RevertStarts => Inv'
<1>. SUFFICES ASSUME Inv, RevertStarts PROVE Inv'
  OBVIOUS
<1>1. reverting \in Before /\ dirty \in BOOLEAN
  BY DEF RevertStarts, Inv, ReadInv, FlagInv
<1>2. ReadInv' /\ astray' \in BOOLEAN
  BY <1>1, RevertReadsTyped DEF RevertStarts
<1>3. FileInv'
  BY <1>2 DEF RevertStarts, Inv, FileInv
<1>. QED
  BY <1>2, <1>3 DEF RevertStarts, text, flags, Inv, TextInv, FlagInv, UsedInv, SaveInv

LEMMA FileNotNone == None \notin Files /\ None \notin Stats
BY NoneAssumption DEF Files, Texts, Stats

\* A part of the file has been read; the rest of what is known of the reading
\* stays.
LEMMA PartRead ==
  ASSUME Inv, ReadFile
  PROVE  /\ UNCHANGED <<text, undid, flags, stat, saves, disk, event, reloads, reverting,
                        history, used>>
         /\ reading.step = "asked" /\ reading' \in Readings
         /\ reading'.step \in {"asked", "read"}
         /\ reading'.by = reading.by /\ reading'.version = reading.version
         /\ reading'.etag = reading.etag
         /\ \/ reading.stat = None /\ reading'.stat = StatOf(disk) /\ reading'.found = reading.found
            \/ reading'.found = disk /\ reading'.stat = reading.stat
         /\ reading'.step = "read" => reading'.stat # None
         /\ reading'.step = "read" /\ reading'.etag # reading'.stat => reading'.found # None
         /\ reading'.step = "asked" => reading'.stat = None \/ reading'.etag # reading'.stat
<1>1. reading \in Readings /\ disk \in Files /\ StatOf(disk) \in Stats
  BY StatTyped DEF Inv, ReadInv, FileInv
<1>. DEFINE Had(st, found) ==
       /\ reading' \in Readings
       /\ reading'.by = reading.by /\ reading'.version = reading.version
       /\ reading'.etag = reading.etag /\ reading'.stat = st /\ reading'.found = found
       /\ reading'.step = IF st # None /\ (st = reading.etag \/ found # None)
                          THEN "read" ELSE "asked"
<1>2. ASSUME NEW st \in Stats \cup {None}, NEW found \in Files \cup {None}, Have(st, found)
      PROVE  Had(st, found)
  BY <1>1, <1>2 DEF Have, Readings
<1>3. CASE ReadStat
  <2>1. Had(StatOf(disk), reading.found)
    BY <1>1, <1>2, <1>3 DEF ReadStat, Readings
  <2>. QED  BY <1>3, <2>1 DEF ReadStat
<1>4. CASE ReadText
  <2>1. Had(reading.stat, disk)
    BY <1>1, <1>2, <1>4 DEF ReadText, Readings
  <2>. QED  BY <1>4, <2>1 DEF ReadText
<1>. QED  BY <1>3, <1>4 DEF ReadFile

LEMMA ReadFileInv == Inv /\ ReadFile => Inv'
<1>. SUFFICES ASSUME Inv, ReadFile PROVE Inv'
  OBVIOUS
<1>1. /\ UNCHANGED <<text, undid, flags, stat, saves, disk, event, reloads, reverting, history, used>>
      /\ reading.step = "asked" /\ reading' \in Readings /\ reading'.by = reading.by
      /\ reading'.step = "read" => reading'.stat # None
      /\ reading'.step = "read" /\ reading'.etag # reading'.stat => reading'.found # None
  BY PartRead
<1>2. ReadInv'
  BY <1>1 DEF Readings, Inv, ReadInv
<1>. QED
  BY <1>1, <1>2 DEF text, flags, history, Inv, TextInv, FlagInv, FileInv, UsedInv, SaveInv

LEMMA EndReadingTyped ==
  ASSUME ReadInv, reading.step # "no", EndReading
  PROVE  ReadInv'
<1>1. NotReading \in Readings /\ NotReading.step = "no"
  BY DEF NotReading, Readings
<1>. QED  BY <1>1 DEF EndReading, ReadInv

LEMMA ReadFailsInv == Inv /\ ReadFails => Inv'
<1>. SUFFICES ASSUME Inv, ReadFails PROVE Inv'
  OBVIOUS
<1>1. ReadInv'
  BY EndReadingTyped DEF ReadFails, Inv
<1>2. FlagInv' /\ astray' \in BOOLEAN
  <2>1. CASE reading.by = "revert"
    <3>1. reverting \in Before
      BY <2>1 DEF ReadFails, Inv, ReadInv
    <3>. QED  BY <2>1, <3>1 DEF ReadFails, FlagInv, Before, Inv, FileInv
  <2>2. CASE reading.by # "revert"
    BY <2>2 DEF ReadFails, flags, FlagInv, Inv
  <2>. QED  BY <2>1, <2>2
<1>3. FileInv'
  BY <1>2 DEF ReadFails, Inv, FileInv
<1>4. UsedInv'
  BY UseTyped DEF ReadFails, Inv
<1>. QED  BY <1>1, <1>2, <1>3, <1>4 DEF ReadFails, text, Inv, TextInv, SaveInv

\* What was read replaces the text.
LEMMA ReplaceTyped ==
  ASSUME Inv, NEW found \in Files, NEW st \in Stats, Replace(found, st),
         UNCHANGED <<undid, saves, disk, event, kept>>
  PROVE  TextInv' /\ FlagInv' /\ FileInv' /\ SaveInv'
<1>1. found.text \in Texts /\ found.text.n \in Nat
  BY DEF Files, Texts
<1>2. TextInv' /\ SaveInv'
  <2>1. CASE found.text = buffer.text
    BY <2>1 DEF Replace, text, Inv, TextInv, SaveInv
  <2>2. CASE found.text # buffer.text
    <3>1. buffer' = [alt |-> version + 1, text |-> found.text] /\ past' = Append(past, buffer)
          /\ version' = version + 1
      BY <2>2 DEF Replace
    <3>2. buffer' \in Alts
      BY <1>1, <3>1 DEF Alts, Inv, TextInv
    <3>3. TextInv'
      BY <3>1, <3>2 DEF Inv, TextInv
    <3>4. SaveInv'
      BY <3>1, LaterOrderly DEF Inv, SaveInv, TextInv
    <3>. QED  BY <3>3, <3>4
  <2>. QED  BY <2>1, <2>2
<1>3. FlagInv'
  <2>1. buffer'.alt \in Nat
    BY <1>2 DEF TextInv, Alts
  <2>. QED  BY <2>1 DEF Replace, SetClean, FlagInv
<1>4. stat' \in Stats
  BY UpdateStatTyped DEF Replace, Inv, FileInv
<1>5. shown' \in Nat
  BY <1>1 DEF Replace, Inv, FileInv
<1>6. astray' \in BOOLEAN
  BY DEF Replace
<1>7. FileInv'
  BY <1>4, <1>5, <1>6 DEF Inv, FileInv
<1>. QED  BY <1>2, <1>3, <1>7

LEMMA ResolveInv == Inv /\ Resolve => Inv'
<1>. SUFFICES ASSUME Inv, Resolve PROVE Inv'
  OBVIOUS
<1>1. ReadInv'
  BY EndReadingTyped DEF Resolve, Inv
<1>2. reading.stat \in Stats /\ (reading.etag = reading.stat \/ reading.found \in Files)
  BY DEF Resolve, Inv, ReadInv
<1>3. UNCHANGED <<undid, saves, disk, event, kept, used>>
  BY DEF Resolve
<1>4. UsedInv'
  BY <1>3 DEF Inv, UsedInv
<1>5. TextInv' /\ FlagInv' /\ FileInv' /\ SaveInv'
  <2>1. CASE reading.etag = reading.stat
    <3>1. UpdateStat(reading.stat) /\ UNCHANGED <<text, flags, shown, astray>>
      BY <2>1 DEF Resolve
    <3>2. stat' \in Stats
      BY <1>2, <3>1, UpdateStatTyped DEF Inv, FileInv
    <3>. QED
      BY <1>3, <3>1, <3>2 DEF text, flags, Inv, TextInv, FlagInv, FileInv, SaveInv
  <2>2. CASE reading.etag # reading.stat /\ ChangedMeanwhile
    <3>1. UNCHANGED <<text, flags, stat, shown, astray>>
      BY <2>2 DEF Resolve
    <3>. QED  BY <1>3, <3>1 DEF text, flags, Inv, TextInv, FlagInv, FileInv, SaveInv
  <2>3. CASE reading.etag # reading.stat /\ ~ChangedMeanwhile
    <3>1. Replace(reading.found, reading.stat)
      BY <2>3 DEF Resolve
    <3>. QED  BY <1>2, <1>3, <2>3, <3>1, ReplaceTyped
  <2>. QED  BY <2>1, <2>2, <2>3
<1>. QED  BY <1>1, <1>4, <1>5 DEF Inv

----------------------------------------------------------------------------

LEMMA InvStep == Inv /\ [Next]_vars => Inv'
<1>. SUFFICES ASSUME Inv, [Next]_vars PROVE Inv'
  OBVIOUS
<1>1. CASE Type \/ Undo \/ Revert \/ ReadFails
  BY <1>1, TypeInv, UndoInv, RevertInv, ReadFailsInv
<1>2. CASE Reload
  BY <1>2, FileChangedInv, ReloadStartsInv, RevertStartsInv, ReadFileInv, ResolveInv DEF Reload
<1>3. CASE \E kind \in SaveKinds : Save(kind)
  BY <1>3, SaveCallInv
<1>4. CASE \E size \in Sizes : OthersWrite(size)
  BY <1>4, OthersInv
<1>5. CASE \E s \in Slots : SaveSteps(s) \/ ParticipantsCancel(s) \/ WriteFails(s)
  BY <1>5, DelayEndsInv, BeginWriteInv, CheckInv, WriteInv, WriteSucceedsInv, CancelInv,
     WriteFailsInv DEF SaveSteps
<1>6. CASE UNCHANGED vars
  BY <1>6 DEF vars, text, flags, resolving, history,
              Inv, TextInv, FlagInv, FileInv, UsedInv, ReadInv, SaveInv
<1>. QED  BY <1>1, <1>2, <1>3, <1>4, <1>5, <1>6 DEF Next

\* The invariant holds in every state of every run, whatever is typed, saved,
\* reverted, written by others or fails.
THEOREM SavesStayOrderly == Spec => []Inv
BY InitInv, InvStep, PTL DEF Spec

\* No interleaving of saves, auto saves and edits gets two saves under way or
\* leaves a save queued behind none (TaskSequentializer, doSave).
THEOREM SavesOneAtATime == Spec => []OneSaveAtATime
<1>1. Inv => OneSaveAtATime
  BY DEF Inv, SaveInv, Orderly, OpOrderly, TaskOrderly, OneSaveAtATime, Saving
<1>. QED  BY <1>1, SavesStayOrderly, PTL

\* The variables keep their types; in particular at most two reloads are queued.
THEOREM TextFileTypes == Spec => []TypeOK
<1>1. Inv => TypeOK
  <2>. SUFFICES ASSUME Inv PROVE TypeOK
    OBVIOUS
  <2>1. /\ saves.running \in [id : Nat, by : Slots] \cup {None}
        /\ saves.queued \in SaveKinds \cup {None}
        /\ saves.calls \in Seq({"queued", "done"} \cup Slots)
        /\ saves.ops \in [Slots ->
             [step : {"idle", "delay", "participants", "check", "write", "stat"}, id : Nat,
              version : Nat, kind : SaveKinds, text : Texts, seen : Stats,
              checked : Nat, cancelled : BOOLEAN]]
    BY DEF Inv, SaveInv, SaveQueue, Running, Ops, Awaited
  <2>2. /\ reading.step \in {"no", "asked", "read"} /\ reading.by \in {"reload", "revert"}
        /\ reading.version \in Nat /\ reading.etag \in Stats \cup {None}
        /\ reading.stat \in Stats \cup {None} /\ reading.found \in Files \cup {None}
        /\ reloads \in 0..2
    BY DEF Inv, ReadInv, Readings
  <2>3. reverting \in [dirty : BOOLEAN, conflict : BOOLEAN, error : BOOLEAN, saved : Nat] \cup {None}
    BY DEF Inv, ReadInv, Before
  <2>. QED  BY <2>1, <2>2, <2>3 DEF TypeOK, Inv, TextInv, FlagInv, FileInv, UsedInv
<1>. QED  BY <1>1, SavesStayOrderly, PTL

----------------------------------------------------------------------------
(* A clean text was kept.  KeptInv adds that the file, whatever is read of  *)
(* it and whatever is on its way into it have been kept, and that a save of *)
(* the current version writes the current text.                             *)

OpKept(op) ==
  op.step \in Writing =>
    /\ op.version <= version
    /\ op.version = version => op.text = buffer.text
    /\ op.step = "stat" => op.text \in kept

OpsKept == \A s \in Slots : OpKept(saves.ops[s])
FileKept == disk.text \in kept /\ (reading.found # None => reading.found.text \in kept)

KeptInv == OpsKept /\ FileKept /\ CleanTextWasKept

\* A save that is being written is as it was before.
WritesAsBefore(q, r) == \A s \in Slots : r.ops[s].step \in Writing => r.ops[s] = q.ops[s]

LEMMA StartWrites ==
  ASSUME NEW q \in SaveQueue, NEW kind, NEW callers, NEW step \in FirstStep
  PROVE  WritesAsBefore(q, Start(q, kind, callers, step))
<1>. DEFINE s == CHOOSE slot \in Slots : q.ops[slot].step = "idle"
            op == [NoSave EXCEPT !.step = step, !.id = version, !.kind = kind]
            w == Await(q, callers, s)
<1>1. w.ops = q.ops
  BY DEF Await, SaveQueue
<1>2. q.ops \in [Slots -> Ops]
  BY DEF SaveQueue
<1>3. op.step \notin Writing
  BY DEF NoSave, FirstStep, Writing
<1>4. Start(q, kind, callers, step) = [w EXCEPT !.running = [id |-> version, by |-> s], !.ops[s] = op]
  BY DEF Start
<1>5. w \in [running : {w.running}, queued : {w.queued}, ops : [Slots -> Ops], calls : {w.calls}]
  BY <1>1, <1>2 DEF Await, SaveQueue
<1>. HIDE DEF w, op, s
<1>6. Start(q, kind, callers, step).ops = [q.ops EXCEPT ![s] = op]
  BY <1>1, <1>4, <1>5
<1>. QED  BY <1>2, <1>3, <1>6 DEF WritesAsBefore

LEMMA QueueWrites ==
  ASSUME NEW q \in SaveQueue, Busy(q), NEW kind \in SaveKinds, NEW callers
  PROVE  WritesAsBefore(q, Queue(q, kind, callers))
<1>. DEFINE b == q.running.by
            c == CancelRunning(q)
            o == [q.ops[b] EXCEPT !.cancelled = TRUE]
<1>1. b \in Slots /\ q.ops \in [Slots -> Ops] /\ q.ops[b] \in Ops
  BY DEF SaveQueue, Busy, Running
<1>2. o.step = q.ops[b].step /\ o \in Ops
  BY <1>1 DEF Ops
<1>. HIDE DEF o
<1>3. c \in SaveQueue /\ \A s \in Slots : c.ops[s].step \in Writing => c.ops[s] = q.ops[s]
  <2>1. CASE q.ops[b].step = "delay"
    <3>1. c = [q EXCEPT !.ops = [q.ops EXCEPT ![b] = o]]
      BY <2>1 DEF CancelRunning, o
    <3>2. [q.ops EXCEPT ![b] = o] \in [Slots -> Ops]
      BY <1>1, <1>2
    <3>3. c \in SaveQueue /\ c.ops = [q.ops EXCEPT ![b] = o]
      BY <3>1, <3>2 DEF SaveQueue
    <3>. QED  BY <1>1, <1>2, <2>1, <3>3 DEF Writing
  <2>2. CASE q.ops[b].step # "delay"
    BY <2>2 DEF CancelRunning
  <2>. QED  BY <2>1, <2>2
<1>. HIDE DEF c
<1>4. Await(c, callers, "queued") \in SaveQueue /\ Await(c, callers, "queued").ops = c.ops
  BY <1>3, AwaitCalls DEF Awaited
<1>5. Queue(q, kind, callers).ops = c.ops
  BY <1>4 DEF Queue, c, SaveQueue
<1>. QED  BY <1>3, <1>5 DEF WritesAsBefore

LEMMA DoSaveWrites ==
  ASSUME NEW q \in SaveQueue, NEW kind \in SaveKinds, NEW callers, NEW isDirty,
         NEW step \in FirstStep
  PROVE  WritesAsBefore(q, DoSave(q, kind, callers, isDirty, step))
<1>. DEFINE d == DoSave(q, kind, callers, isDirty, step)
<1>1. \A what : Await(q, callers, what).ops = q.ops
  BY DEF Await, SaveQueue
<1>2. \/ d = Await(q, callers, "done")
      \/ d = Await(q, callers, q.running.by)
      \/ Busy(q) /\ d = Queue(q, kind, callers)
      \/ d = Start(q, kind, callers, step)
  BY DEF DoSave
<1>. HIDE DEF d
<1>3. d.ops = q.ops => WritesAsBefore(q, d)
  BY DEF WritesAsBefore
<1>4. Busy(q) /\ d = Queue(q, kind, callers) => WritesAsBefore(q, d)
  BY QueueWrites
<1>5. d = Start(q, kind, callers, step) => WritesAsBefore(q, d)
  BY StartWrites
<1>6. WritesAsBefore(q, d)
  BY <1>1, <1>2, <1>3, <1>4, <1>5
<1>. QED  BY <1>6 DEF d

LEMMA DoneWrites ==
  ASSUME NEW q \in SaveQueue, NEW id, NEW isDirty, NEW step \in FirstStep
  PROVE  WritesAsBefore(q, Done(q, id, isDirty, step))
<1>. DEFINE d == Done(q, id, isDirty, step)
            f == [q EXCEPT !.running = None, !.queued = None]
<1>1. CASE IsRunning(q, id) /\ q.queued # None
  <2>1. f \in SaveQueue /\ f.ops = q.ops /\ q.queued \in SaveKinds
    BY <1>1 DEF SaveQueue
  <2>2. d = DoSave(f, q.queued, Waiting(q, "queued"), isDirty, step)
    BY <1>1 DEF Done
  <2>. HIDE DEF f
  <2>3. WritesAsBefore(f, d)
    BY <2>1, <2>2, DoSaveWrites
  <2>. QED  BY <2>1, <2>3 DEF WritesAsBefore
<1>2. CASE ~(IsRunning(q, id) /\ q.queued # None)
  <2>1. d = q \/ d = [q EXCEPT !.running = None]
    BY <1>2 DEF Done
  <2>2. d.ops = q.ops
    BY <2>1 DEF SaveQueue
  <2>. QED  BY <2>2 DEF WritesAsBefore
<1>. QED  BY <1>1, <1>2

\* The end of a save begins no write.
LEMMA FinishWrites ==
  ASSUME saves \in SaveQueue, Orderly(saves, version), version \in Nat \ {0},
         NEW s \in Slots, Saving(s), Finish(s), dirty' \in BOOLEAN
  PROVE  WritesAsBefore(saves, saves')
<1>. DEFINE op == saves.ops[s]
            w == Await(saves, Waiting(saves, s), "done")
            freed == [w EXCEPT !.ops[s] = NoSave]
<1>1. PICK step \in FirstStep :
        saves' = Done(Done(freed, op.version, dirty', step), op.id, dirty', step)
  BY DEF Finish, FirstSteps, FirstStep
<1>2. w \in SaveQueue /\ w.running = saves.running /\ w.queued = saves.queued /\ w.ops = saves.ops
  BY AwaitCalls DEF Awaited
<1>3. NoSave \in Ops /\ NoSave.step = "idle"
  BY DEF NoSave, Ops, Truncated, Texts, Stats, SaveKinds
<1>. HIDE DEF w
<1>4. freed \in SaveQueue /\ freed.ops = [saves.ops EXCEPT ![s] = NoSave]
  BY <1>2, <1>3 DEF SaveQueue
<1>5. saves.ops \in [Slots -> Ops]
  BY DEF SaveQueue
<1>6. WritesAsBefore(saves, freed)
  BY <1>3, <1>4, <1>5 DEF WritesAsBefore, Writing
<1>. HIDE DEF freed
<1>. DEFINE d == Done(freed, op.version, dirty', step)
<1>7. WritesAsBefore(freed, d)
  BY <1>4, DoneWrites
<1>8. d \in SaveQueue
  <2>1. AllIdle(freed) /\ TaskOrderly(freed, version)
    <3>1. \A t \in Slots : saves.ops[t].step # "idle" => t = s
      BY DEF Saving, Orderly, OpOrderly
    <3>2. freed.running = saves.running /\ freed.queued = saves.queued
      BY <1>2 DEF freed, SaveQueue
    <3>. QED  BY <1>3, <1>4, <1>5, <3>1, <3>2 DEF AllIdle, Orderly, TaskOrderly
  <2>2. CASE IsRunning(freed, op.version)
    <3>1. freed.running # None /\ freed.running.id = op.version
      BY <2>2 DEF IsRunning, Busy
    <3>. QED  BY <1>4, <2>1, <3>1, DoneOrderly
  <2>3. CASE ~IsRunning(freed, op.version)
    BY <1>4, <2>3 DEF Done
  <2>. QED  BY <2>2, <2>3
<1>9. WritesAsBefore(d, saves')
  BY <1>1, <1>8, DoneWrites
<1>. QED  BY <1>6, <1>7, <1>9 DEF WritesAsBefore

LEMMA CallWrites ==
  ASSUME Inv, NEW kind \in SaveKinds, Save(kind)
  PROVE  WritesAsBefore(saves, saves')
<1>. DEFINE called == [saves EXCEPT !.calls = Append(@, "done")]
<1>1. Append(saves.calls, "done") \in Seq(Awaited)
  BY DEF Inv, SaveInv, SaveQueue, Awaited
<1>2. called \in SaveQueue /\ called.ops = saves.ops
  BY <1>1 DEF Inv, SaveInv, SaveQueue
<1>3. \/ saves' = called
      \/ \E step \in FirstStep, callers \in {{Len(called.calls)}} :
           saves' = DoSave(called, kind, callers, dirty, step)
  BY DEF Save, FirstSteps, FirstStep
<1>. HIDE DEF called
<1>4. WritesAsBefore(called, saves')
  <2>1. CASE saves' = called
    BY <2>1 DEF WritesAsBefore
  <2>2. CASE \E step \in FirstStep, callers \in {{Len(called.calls)}} :
               saves' = DoSave(called, kind, callers, dirty, step)
    BY <1>2, <2>2, DoSaveWrites
  <2>. QED  BY <1>3, <2>1, <2>2
<1>. QED  BY <1>2, <1>4 DEF WritesAsBefore

LEMMA EndWrites ==
  ASSUME Inv, FlagInv', NEW s \in Slots, Saving(s), Finish(s)
  PROVE  WritesAsBefore(saves, saves')
BY FinishWrites DEF Inv, SaveInv, TextInv, FlagInv

\* What is being written stays kept while texts change and saves come and go.
LEMMA OpsStayKept ==
  ASSUME Inv, OpsKept, WritesAsBefore(saves, saves'), kept \subseteq kept',
         \/ UNCHANGED <<buffer, version>>
         \/ version' = version + 1
  PROVE  OpsKept'
<1>. SUFFICES ASSUME NEW s \in Slots, saves'.ops[s].step \in Writing
              PROVE  OpKept(saves.ops[s])'
  BY DEF OpsKept, OpKept
<1>1. saves'.ops[s] = saves.ops[s]
  BY DEF WritesAsBefore
<1>2. saves.ops[s].version \in Nat /\ version \in Nat
  BY DEF Inv, SaveInv, SaveQueue, Ops, TextInv
<1>3. OpKept(saves.ops[s]) /\ saves.ops[s].step \in Writing
  BY <1>1 DEF OpsKept
<1>. QED  BY <1>1, <1>2, <1>3 DEF OpKept

\* The saves are left alone.
LEMMA SavesLeftAlone ==
  ASSUME Inv, KeptInv, UNCHANGED saves, kept \subseteq kept',
         \/ UNCHANGED <<buffer, version>>
         \/ version' = version + 1
  PROVE  OpsKept'
BY OpsStayKept DEF KeptInv, WritesAsBefore

LEMMA EditsKeep == Inv /\ KeptInv /\ (Type \/ Undo) => KeptInv'
<1>. SUFFICES ASSUME Inv, KeptInv, Type \/ Undo PROVE KeptInv'
  OBVIOUS
<1>1. UNCHANGED saves /\ kept' = kept /\ version' = version + 1
  BY DEF Type, Undo, history
<1>2. OpsKept'
  BY <1>1, SavesLeftAlone
<1>3. FileKept'
  BY DEF Type, Undo, history, resolving, KeptInv, FileKept
<1>4. CleanTextWasKept'
  <2>1. CASE dirty'
    BY <2>1 DEF CleanTextWasKept
  <2>2. CASE Undo /\ buffer'.alt = bufferSavedVersionId
    <3>1. astray' \/ buffer'.text = disk.text
      BY <2>2 DEF Undo
    <3>. QED  BY <1>1, <3>1 DEF KeptInv, FileKept, CleanTextWasKept
  <2>3. CASE Type
    <3>1. dirty'
      BY <2>3 DEF Type, SetDirty
    <3>. QED  BY <2>1, <3>1
  <2>4. CASE Undo /\ buffer'.alt # bufferSavedVersionId
    <3>1. dirty'
      BY <2>4 DEF Undo, SetDirty
    <3>. QED  BY <2>1, <3>1
  <2>. QED  BY <2>2, <2>3, <2>4
<1>. QED  BY <1>2, <1>3, <1>4 DEF KeptInv

LEMMA CallsKeep == ASSUME NEW kind \in SaveKinds PROVE Inv /\ KeptInv /\ Save(kind) => KeptInv'
<1>. SUFFICES ASSUME Inv, KeptInv, Save(kind) PROVE KeptInv'
  OBVIOUS
<1>1. OpsKept'
  BY CallWrites, OpsStayKept DEF Save, text, history, KeptInv
<1>. QED
  BY <1>1 DEF Save, text, flags, resolving, history, KeptInv, FileKept, CleanTextWasKept

LEMMA OthersKeep == ASSUME NEW size \in Sizes PROVE Inv /\ KeptInv /\ OthersWrite(size) => KeptInv'
<1>. SUFFICES ASSUME Inv, KeptInv, OthersWrite(size) PROVE KeptInv'
  OBVIOUS
<1>1. kept' = kept \cup {disk'.text}
  BY DEF OthersWrite
<1>2. OpsKept'
  BY <1>1, SavesLeftAlone DEF OthersWrite, text
<1>. QED
  BY <1>1, <1>2 DEF OthersWrite, text, flags, resolving, KeptInv, FileKept, CleanTextWasKept

\* A save that ends without writing.
LEMMA AbandonKeeps ==
  ASSUME Inv, KeptInv, NEW s \in Slots, Saving(s), Abandon(s),
         UNCHANGED <<text, undid, stat, disk, event, resolving, kept, shown, used>>
  PROVE  KeptInv'
<1>1. FlagInv'
  BY DEF Abandon, flags, Inv, FlagInv
<1>2. OpsKept'
  BY <1>1, EndWrites, OpsStayKept DEF Abandon, text, KeptInv
<1>. QED
  BY <1>2 DEF Abandon, text, flags, resolving, KeptInv, FileKept, CleanTextWasKept

\* A save that goes on, one step, with what it writes.
LEMMA OpStaysKept ==
  ASSUME Inv, KeptInv, NEW s \in Slots, NEW op,
         saves'.ops = [saves.ops EXCEPT ![s] = op], kept \subseteq kept',
         UNCHANGED <<buffer, version>>,
         op.step \in Writing => /\ op.version <= version
                                /\ op.version = version => op.text = buffer.text
                                /\ op.step = "stat" => op.text \in kept'
  PROVE  OpsKept'
<1>1. saves.ops \in [Slots -> Ops]
  BY DEF Inv, SaveInv, SaveQueue
<1>2. saves'.ops[s] = op
  BY <1>1
<1>3. ASSUME NEW t \in Slots, t # s PROVE OpKept(saves.ops[t])'
  <2>1. saves'.ops[t] = saves.ops[t]
    BY <1>1, <1>3
  <2>2. OpKept(saves.ops[t])
    BY DEF KeptInv, OpsKept
  <2>. QED  BY <2>1, <2>2 DEF OpKept
<1>4. OpKept(saves.ops[s])'
  BY <1>2 DEF OpKept
<1>. QED  BY <1>3, <1>4 DEF OpsKept

LEMMA DelayKeeps == ASSUME NEW s \in Slots PROVE Inv /\ KeptInv /\ DelayEnds(s) => KeptInv'
<1>. SUFFICES ASSUME Inv, KeptInv, DelayEnds(s) PROVE KeptInv'
  OBVIOUS
<1>1. Saving(s)
  BY DEF DelayEnds, Saving
<1>2. CASE saves.ops[s].cancelled
  BY <1>1, <1>2, AbandonKeeps DEF DelayEnds
<1>3. CASE ~saves.ops[s].cancelled
  <2>. DEFINE op == [saves.ops[s] EXCEPT !.step = "participants"]
  <2>1. saves' = [saves EXCEPT !.ops[s] = op] /\ saves \in SaveQueue /\ saves.ops[s] \in Ops
    BY <1>3 DEF DelayEnds, Inv, SaveInv, SaveQueue
  <2>2. op.step = "participants"
    BY <2>1 DEF Ops
  <2>. HIDE DEF op
  <2>3. saves'.ops = [saves.ops EXCEPT ![s] = op]
    BY <2>1 DEF SaveQueue
  <2>4. UNCHANGED <<buffer, version, kept>> /\ op.step \notin Writing
    BY <2>2 DEF DelayEnds, text, Writing
  <2>5. OpsKept'
    BY <2>3, <2>4, OpStaysKept
  <2>. QED
    BY <1>3, <2>5 DEF DelayEnds, text, flags, resolving, KeptInv, FileKept, CleanTextWasKept
<1>. QED  BY <1>2, <1>3

LEMMA CancelKeeps == ASSUME NEW s \in Slots PROVE Inv /\ KeptInv /\ ParticipantsCancel(s) => KeptInv'
BY AbandonKeeps DEF ParticipantsCancel, Saving

LEMMA BeginWriteKeeps == ASSUME NEW s \in Slots PROVE Inv /\ KeptInv /\ BeginWrite(s) => KeptInv'
<1>. SUFFICES ASSUME Inv, KeptInv, BeginWrite(s) PROVE KeptInv'
  OBVIOUS
<1>. DEFINE op == [saves.ops[s] EXCEPT !.step = "check", !.version = version,
                                       !.text = buffer.text, !.seen = stat]
<1>1. saves \in SaveQueue /\ saves.ops[s] \in Ops /\ version \in Nat
  BY DEF Inv, SaveInv, SaveQueue, TextInv
<1>2. op.step = "check" /\ op.version = version /\ op.text = buffer.text
  BY <1>1 DEF Ops
<1>3. saves' = [saves EXCEPT !.running = [id |-> version, by |-> s], !.ops[s] = op]
  BY DEF BeginWrite
<1>. HIDE DEF op
<1>4. saves'.ops = [saves.ops EXCEPT ![s] = op]
  BY <1>1, <1>3 DEF SaveQueue
<1>5. OpsKept'
  BY <1>1, <1>2, <1>4, OpStaysKept DEF BeginWrite, text, history
<1>. QED
  BY <1>5 DEF BeginWrite, text, resolving, history, KeptInv, FileKept, CleanTextWasKept

\* A save that fails leaves the text dirty.
LEMMA ErrorIsDirty ==
  ASSUME NEW conflict, SaveError(conflict)
  PROVE  CleanTextWasKept'
BY DEF SaveError, CleanTextWasKept

LEMMA CheckKeeps == ASSUME NEW s \in Slots PROVE Inv /\ KeptInv /\ Check(s) => KeptInv'
<1>. SUFFICES ASSUME Inv, KeptInv, Check(s) PROVE KeptInv'
  OBVIOUS
<1>1. Saving(s) /\ UNCHANGED <<text, disk, resolving, history>>
  BY DEF Check, Saving
<1>2. OpsKept' /\ CleanTextWasKept'
  <2>1. CASE ModifiedSince(saves.ops[s])
    <3>1. SaveError(TRUE) /\ Finish(s)
      BY <2>1 DEF Check
    <3>2. FlagInv'
      BY <3>1, SaveErrorTyped DEF Inv
    <3>3. OpsKept'
      BY <1>1, <3>1, <3>2, EndWrites, OpsStayKept DEF text, history, KeptInv
    <3>. QED  BY <3>1, <3>3, ErrorIsDirty
  <2>2. CASE ~ModifiedSince(saves.ops[s])
    <3>. DEFINE op == [saves.ops[s] EXCEPT !.step = "write", !.checked = disk.mtime]
    <3>1. saves \in SaveQueue /\ saves.ops[s] \in Ops
      BY DEF Inv, SaveInv, SaveQueue
    <3>2. /\ op.step = "write" /\ op.version = saves.ops[s].version
          /\ op.text = saves.ops[s].text
      BY <3>1 DEF Ops
    <3>3. saves' = [saves EXCEPT !.ops[s] = op] /\ UNCHANGED flags
      BY <2>2 DEF Check
    <3>4. OpKept(saves.ops[s]) /\ saves.ops[s].step \in Writing
      BY DEF KeptInv, OpsKept, Check, Writing
    <3>. HIDE DEF op
    <3>5. saves'.ops = [saves.ops EXCEPT ![s] = op]
      BY <3>1, <3>3 DEF SaveQueue
    <3>6. OpsKept'
      BY <1>1, <3>2, <3>4, <3>5, OpStaysKept DEF OpKept, text, history
    <3>. QED
      BY <1>1, <3>3, <3>6 DEF text, flags, history, KeptInv, CleanTextWasKept
  <2>. QED  BY <2>1, <2>2
<1>. QED  BY <1>1, <1>2 DEF resolving, history, KeptInv, FileKept

LEMMA WriteKeeps == ASSUME NEW s \in Slots PROVE Inv /\ KeptInv /\ Write(s) => KeptInv'
<1>. SUFFICES ASSUME Inv, KeptInv, Write(s) PROVE KeptInv'
  OBVIOUS
<1>. DEFINE op == [saves.ops[s] EXCEPT !.step = "stat"]
<1>1. saves \in SaveQueue /\ saves.ops[s] \in Ops
  BY DEF Inv, SaveInv, SaveQueue
<1>2. op.step = "stat" /\ op.version = saves.ops[s].version /\ op.text = saves.ops[s].text
  BY <1>1 DEF Ops
<1>3. saves' = [saves EXCEPT !.ops[s] = op]
  BY DEF Write
<1>4. OpKept(saves.ops[s]) /\ saves.ops[s].step \in Writing
  BY DEF KeptInv, OpsKept, Write, Writing
<1>5. disk'.text = saves.ops[s].text /\ kept' = kept \cup {saves.ops[s].text}
  BY DEF Write, Overwrite
<1>. HIDE DEF op
<1>6. saves'.ops = [saves.ops EXCEPT ![s] = op]
  BY <1>1, <1>3 DEF SaveQueue
<1>7. OpsKept'
  BY <1>2, <1>4, <1>5, <1>6, OpStaysKept DEF Write, OpKept, text
<1>. QED
  BY <1>5, <1>7 DEF Write, text, flags, resolving, KeptInv, FileKept, CleanTextWasKept

LEMMA WriteFailsKeeps == ASSUME NEW s \in Slots PROVE Inv /\ KeptInv /\ WriteFails(s) => KeptInv'
<1>. SUFFICES ASSUME Inv, KeptInv, WriteFails(s) PROVE KeptInv'
  OBVIOUS
<1>1. Saving(s) /\ UNCHANGED text /\ Finish(s) /\ SaveError(FALSE) /\ UNCHANGED resolving
  BY DEF WriteFails, Saving
<1>2. kept \subseteq kept' /\ disk'.text \in kept'
  BY DEF WriteFails, Overwrite, KeptInv, FileKept
<1>3. FlagInv'
  BY <1>1, SaveErrorTyped DEF Inv
<1>4. OpsKept'
  BY <1>1, <1>2, <1>3, EndWrites, OpsStayKept DEF text, KeptInv
<1>5. FileKept'
  BY <1>1, <1>2 DEF resolving, KeptInv, FileKept
<1>. QED  BY <1>1, <1>4, <1>5, ErrorIsDirty DEF KeptInv

LEMMA WriteSucceedsKeeps ==
  ASSUME NEW s \in Slots PROVE Inv /\ KeptInv /\ WriteSucceeds(s) => KeptInv'
<1>. SUFFICES ASSUME Inv, KeptInv, WriteSucceeds(s) PROVE KeptInv'
  OBVIOUS
<1>1. /\ Saving(s) /\ UNCHANGED <<text, disk, resolving, kept>> /\ Finish(s)
      /\ Succeeded(saves.ops[s])
  BY DEF WriteSucceeds, Saving
<1>2. FlagInv'
  <2>1. buffer.alt \in Nat
    BY DEF Inv, TextInv, Alts
  <2>. QED  BY <1>1, <2>1 DEF Succeeded, SetClean, flags, Inv, FlagInv
<1>3. OpsKept'
  BY <1>1, <1>2, EndWrites, OpsStayKept DEF text, KeptInv
<1>4. CleanTextWasKept'
  <2>1. CASE saves.ops[s].version = version
    <3>1. OpKept(saves.ops[s]) /\ saves.ops[s].step = "stat"
      BY DEF KeptInv, OpsKept, WriteSucceeds
    <3>2. buffer.text \in kept
      BY <2>1, <3>1 DEF OpKept, Writing
    <3>. QED  BY <1>1, <3>2 DEF text, CleanTextWasKept
  <2>2. CASE saves.ops[s].version # version
    <3>1. UNCHANGED dirty
      BY <1>1, <2>2 DEF Succeeded, flags
    <3>2. astray => astray'
      BY DEF WriteSucceeds
    <3>. QED  BY <1>1, <3>1, <3>2 DEF text, KeptInv, CleanTextWasKept
  <2>. QED  BY <2>1, <2>2
<1>. QED  BY <1>1, <1>3, <1>4 DEF resolving, KeptInv, FileKept

LEMMA RevertKeeps == Inv /\ KeptInv /\ Revert => KeptInv'
<1>. SUFFICES ASSUME Inv, KeptInv, Revert PROVE KeptInv'
  OBVIOUS
<1>1. UNCHANGED <<text, saves, disk>> /\ kept' = kept \cup {buffer.text}
  BY DEF Revert
<1>2. OpsKept'
  BY <1>1, SavesLeftAlone DEF text
<1>3. reading' = reading \/ reading'.found = None
  BY DEF Revert, RevertReads, Asked
<1>4. FileKept'
  BY <1>1, <1>3 DEF KeptInv, FileKept
<1>. QED  BY <1>1, <1>2, <1>4 DEF text, KeptInv, CleanTextWasKept

\* Reading the file changes neither the text nor the flags.
LEMMA ReadingKeeps ==
  Inv /\ KeptInv /\ (FileChanged \/ ReloadStarts \/ RevertStarts \/ ReadFile) => KeptInv'
<1>. SUFFICES ASSUME Inv, KeptInv, FileChanged \/ ReloadStarts \/ RevertStarts \/ ReadFile
              PROVE  KeptInv'
  OBVIOUS
<1>1. UNCHANGED <<text, flags, saves, disk, kept>>
  BY PartRead DEF FileChanged, ReloadStarts, RevertStarts, history
<1>2. OpsKept'
  BY <1>1, SavesLeftAlone DEF text
<1>3. reading'.found \in {reading.found, None, disk}
  <2>2. CASE FileChanged
    BY <2>2 DEF FileChanged
  <2>3. CASE ReloadStarts \/ RevertStarts
    BY <2>3 DEF ReloadStarts, RevertStarts, RevertReads, Asked
  <2>4. CASE ReadFile
    BY <2>4, PartRead
  <2>. QED  BY <2>2, <2>3, <2>4
<1>4. FileKept'
  BY <1>1, <1>3 DEF KeptInv, FileKept
<1>5. astray => astray'
  BY PartRead DEF FileChanged, ReloadStarts, RevertStarts, RevertReads, history
<1>. QED  BY <1>1, <1>2, <1>4, <1>5 DEF text, flags, KeptInv, CleanTextWasKept

LEMMA ResolveKeeps == Inv /\ KeptInv /\ Resolve => KeptInv'
<1>. SUFFICES ASSUME Inv, KeptInv, Resolve PROVE KeptInv'
  OBVIOUS
<1>1. /\ UNCHANGED <<saves, disk, kept>> /\ reading'.found = None
      /\ reading.found # None => reading.found.text \in kept
  BY DEF Resolve, EndReading, NotReading, KeptInv, FileKept
<1>2. FileKept'
  BY <1>1 DEF KeptInv, FileKept
<1>3. OpsKept' /\ CleanTextWasKept'
  <2>1. CASE UNCHANGED <<text, flags, astray>>
    <3>1. OpsKept'
      BY <1>1, <2>1, SavesLeftAlone DEF text
    <3>. QED  BY <1>1, <2>1, <3>1 DEF text, flags, KeptInv, CleanTextWasKept
  <2>2. CASE Replace(reading.found, reading.stat) /\ reading.found # None
    <3>1. \/ UNCHANGED text /\ buffer'.text = reading.found.text
          \/ version' = version + 1 /\ buffer'.text = reading.found.text
      BY <2>2 DEF Replace, text
    <3>2. OpsKept'
      BY <1>1, <3>1, SavesLeftAlone DEF text
    <3>. QED  BY <1>1, <2>2, <3>1, <3>2 DEF CleanTextWasKept
  <2>3. \/ UNCHANGED <<text, flags, astray>>
        \/ Replace(reading.found, reading.stat) /\ reading.found # None
    <3>1. reading.etag = reading.stat \/ reading.found # None
      BY FileNotNone DEF Resolve, Inv, ReadInv
    <3>. QED  BY <3>1 DEF Resolve
  <2>. QED  BY <2>1, <2>2, <2>3
<1>. QED  BY <1>2, <1>3 DEF KeptInv

LEMMA ReadFailsKeeps == Inv /\ KeptInv /\ ReadFails => KeptInv'
<1>. SUFFICES ASSUME Inv, KeptInv, ReadFails PROVE KeptInv'
  OBVIOUS
<1>1. UNCHANGED <<text, saves, disk, kept>> /\ reading'.found = None
  BY DEF ReadFails, EndReading, NotReading
<1>2. OpsKept'
  BY <1>1, SavesLeftAlone DEF text
<1>3. dirty' \/ astray'
  BY DEF ReadFails
<1>. QED  BY <1>1, <1>2, <1>3 DEF KeptInv, FileKept, CleanTextWasKept

LEMMA KeptAlways == Spec => []KeptInv
<1>1. Init => KeptInv
  <2>. SUFFICES ASSUME Init PROVE KeptInv
    OBVIOUS
  <2>1. buffer.text \in kept /\ disk.text \in kept
    <3>. DEFINE first == Foreign(0, OwnSize)
    <3>1. /\ buffer = [alt |-> 1, text |-> first] /\ disk = [text |-> first, mtime |-> 0]
          /\ kept = {first}
      BY DEF Init
    <3>. HIDE DEF first
    <3>. QED  BY <3>1
  <2>2. reading.found = None
    BY DEF Init, NotReading
  <2>3. \A s \in Slots : saves.ops[s].step = "idle"
    BY DEF Init, NoSave
  <2>. QED
    BY <2>1, <2>2, <2>3 DEF KeptInv, OpsKept, OpKept, Writing, FileKept, CleanTextWasKept
<1>2. Inv /\ KeptInv /\ [Next]_vars => KeptInv'
  <2>. SUFFICES ASSUME Inv, KeptInv, [Next]_vars PROVE KeptInv'
    OBVIOUS
  <2>1. CASE Type \/ Undo \/ Revert \/ ReadFails
    BY <2>1, EditsKeep, RevertKeeps, ReadFailsKeeps
  <2>2. CASE Reload
    BY <2>2, ReadingKeeps, ResolveKeeps DEF Reload
  <2>3. CASE \E kind \in SaveKinds : Save(kind)
    BY <2>3, CallsKeep
  <2>4. CASE \E size \in Sizes : OthersWrite(size)
    BY <2>4, OthersKeep
  <2>5. CASE \E s \in Slots : SaveSteps(s) \/ ParticipantsCancel(s) \/ WriteFails(s)
    BY <2>5, DelayKeeps, BeginWriteKeeps, CheckKeeps, WriteKeeps, WriteSucceedsKeeps,
       CancelKeeps, WriteFailsKeeps DEF SaveSteps
  <2>6. CASE UNCHANGED vars
    <3>1. UNCHANGED <<text, flags, saves, disk, reading, kept, astray>>
      BY <2>6 DEF vars, resolving, history
    <3>2. OpsKept'
      BY <3>1, SavesLeftAlone DEF text
    <3>. QED  BY <3>1, <3>2 DEF text, flags, KeptInv, FileKept, CleanTextWasKept
  <2>. QED  BY <2>1, <2>2, <2>3, <2>4, <2>5, <2>6 DEF Next
<1>. QED  BY <1>1, <1>2, SavesStayOrderly, PTL DEF Spec

\* Whatever is typed, undone, saved, reverted, reloaded, written by others or
\* fails, a model that says it is clean holds a text that was on disk or that
\* the user gave up (handleSaveSuccess, resolveFromContent, doSetDirty).
THEOREM CleanTextKept == Spec => []CleanTextWasKept
<1>1. KeptInv => CleanTextWasKept
  BY DEF KeptInv
<1>. QED  BY <1>1, KeptAlways, PTL

----------------------------------------------------------------------------
(* What every step has in common: times only go on, and what is read is    *)
(* read in its own steps.                                                  *)

\* Undo takes back an earlier version's text but makes a version of its own.
TextMoves == \/ UNCHANGED <<buffer, past, version>>
             \/ version' = version + 1

DiskMoves == \/ disk' = disk
             \/ disk'.mtime = disk.mtime + 1 /\ event' = TRUE

HistoryMoves == /\ astray => astray'
                /\ kept \subseteq kept'
                /\ shown' >= shown

ReadSteps == ReloadStarts \/ RevertStarts \/ Revert \/ ReadFile \/ Resolve \/ ReadFails

LEMMA TextOnwards == Inv /\ [Next]_vars => TextMoves
<1>. SUFFICES ASSUME Inv, [Next]_vars PROVE TextMoves
  OBVIOUS
<1>. USE DEF TextMoves
<1>1. CASE Type \/ Undo \/ Revert \/ ReadFails
  BY <1>1 DEF Type, Undo, Revert, ReadFails, text
<1>2. CASE Reload
  BY <1>2, PartRead DEF Reload, FileChanged, ReloadStarts, RevertStarts, Resolve, Replace, text
<1>3. CASE (\E kind \in SaveKinds : Save(kind)) \/ \E size \in Sizes : OthersWrite(size)
  BY <1>3 DEF Save, OthersWrite, text
<1>4. CASE \E s \in Slots : SaveSteps(s) \/ ParticipantsCancel(s) \/ WriteFails(s)
  BY <1>4 DEF SaveSteps, DelayEnds, BeginWrite, Check, Write, WriteSucceeds,
              ParticipantsCancel, WriteFails, text
<1>5. CASE UNCHANGED vars
  BY <1>5 DEF vars, text
<1>. QED  BY <1>1, <1>2, <1>3, <1>4, <1>5 DEF Next

LEMMA DiskOnwards == Inv /\ [Next]_vars => DiskMoves
<1>. SUFFICES ASSUME Inv, [Next]_vars PROVE DiskMoves
  OBVIOUS
<1>. USE DEF DiskMoves
<1>1. CASE Type \/ Undo \/ Revert \/ ReadFails
  BY <1>1 DEF Type, Undo, Revert, ReadFails
<1>2. CASE Reload
  BY <1>2, PartRead DEF Reload, FileChanged, ReloadStarts, RevertStarts, Resolve
<1>3. CASE (\E kind \in SaveKinds : Save(kind)) \/ \E size \in Sizes : OthersWrite(size)
  BY <1>3 DEF Save, OthersWrite
<1>4. ASSUME NEW s \in Slots, SaveSteps(s) \/ ParticipantsCancel(s) \/ WriteFails(s)
      PROVE  DiskMoves
  <2>1. CASE Write(s)
    BY <2>1 DEF Write, Overwrite
  <2>3. CASE WriteFails(s)
    <3>1. UNCHANGED <<disk, kept, event>> \/ Overwrite(Truncated)
      BY <2>3 DEF WriteFails
    <3>. QED  BY <3>1 DEF Overwrite
  <2>2. CASE DelayEnds(s) \/ BeginWrite(s) \/ Check(s) \/ WriteSucceeds(s) \/ ParticipantsCancel(s)
    BY <2>2 DEF DelayEnds, BeginWrite, Check, WriteSucceeds, ParticipantsCancel
  <2>. QED  BY <1>4, <2>1, <2>2, <2>3 DEF SaveSteps
<1>5. CASE UNCHANGED vars
  BY <1>5 DEF vars
<1>. QED  BY <1>1, <1>2, <1>3, <1>4, <1>5 DEF Next

LEMMA ShownOnwards ==
  ASSUME Inv, \/ shown' = shown
              \/ \E found \in Files, st \in Stats : Replace(found, st)
  PROVE  shown' >= shown
<1>1. shown \in Nat
  BY DEF Inv, FileInv
<1>. QED  BY <1>1 DEF Replace, Files, Texts

LEMMA HistoryOnwards == Inv /\ [Next]_vars => HistoryMoves
<1>. SUFFICES ASSUME Inv, [Next]_vars
              PROVE  /\ astray => astray'
                     /\ kept \subseteq kept'
                     /\ \/ shown' = shown
                        \/ \E found \in Files, st \in Stats : Replace(found, st)
  BY ShownOnwards DEF HistoryMoves
<1>. USE DEF history
<1>1. CASE Type \/ Undo
  BY <1>1 DEF Type, Undo
<1>2. CASE Revert
  BY <1>2 DEF Revert, RevertReads
<1>3. CASE ReadFails
  BY <1>3 DEF ReadFails
<1>4. CASE Reload
  <2>1. CASE FileChanged \/ ReloadStarts \/ ReadFile
    BY <2>1, PartRead DEF FileChanged, ReloadStarts
  <2>2. CASE RevertStarts
    BY <2>2 DEF RevertStarts, RevertReads
  <2>3. CASE Resolve
    <3>1. /\ kept' = kept /\ reading.stat \in Stats
          /\ reading.etag = reading.stat \/ reading.found \in Files
      BY <2>3 DEF Resolve, Inv, ReadInv
    <3>2. UNCHANGED <<shown, astray>> \/ (Replace(reading.found, reading.stat) /\ reading.found \in Files)
      BY <2>3, <3>1 DEF Resolve
    <3>3. CASE Replace(reading.found, reading.stat) /\ reading.found \in Files
      <4>1. astray => astray'
        BY <3>3 DEF Replace
      <4>. QED  BY <3>1, <3>3, <4>1
    <3>. QED  BY <3>1, <3>2, <3>3
  <2>. QED  BY <1>4, <2>1, <2>2, <2>3 DEF Reload
<1>5. CASE (\E kind \in SaveKinds : Save(kind)) \/ \E size \in Sizes : OthersWrite(size)
  BY <1>5 DEF Save, OthersWrite
<1>6. ASSUME NEW s \in Slots, SaveSteps(s) \/ ParticipantsCancel(s) \/ WriteFails(s)
      PROVE  (astray => astray') /\ kept \subseteq kept' /\ shown' = shown
  <2>1. CASE DelayEnds(s) \/ ParticipantsCancel(s)
    BY <2>1 DEF DelayEnds, ParticipantsCancel, Abandon
  <2>2. CASE BeginWrite(s)
    BY <2>2 DEF BeginWrite
  <2>6. CASE Check(s)
    BY <2>6 DEF Check
  <2>3. CASE WriteSucceeds(s)
    BY <2>3 DEF WriteSucceeds
  <2>4. CASE Write(s)
    BY <2>4 DEF Write, Overwrite
  <2>5. CASE WriteFails(s)
    <3>1. UNCHANGED <<disk, kept, event>> \/ Overwrite(Truncated)
      BY <2>5 DEF WriteFails
    <3>. QED  BY <2>5, <3>1 DEF WriteFails, Overwrite
  <2>. QED  BY <1>6, <2>1, <2>2, <2>3, <2>4, <2>5, <2>6 DEF SaveSteps
<1>7. CASE UNCHANGED vars
  BY <1>7 DEF vars
<1>. QED  BY <1>1, <1>2, <1>3, <1>4, <1>5, <1>6, <1>7 DEF Next

LEMMA ReadingAlone ==
  [Next]_vars => ReadSteps \/ reading' = reading
<1>. SUFFICES ASSUME [Next]_vars, ~ReadSteps PROVE reading' = reading
  OBVIOUS
<1>. USE DEF ReadSteps, resolving
<1>1. CASE Type \/ Undo
  BY <1>1 DEF Type, Undo
<1>2. CASE Reload
  BY <1>2 DEF Reload, FileChanged
<1>3. CASE (\E kind \in SaveKinds : Save(kind)) \/ \E size \in Sizes : OthersWrite(size)
  BY <1>3 DEF Save, OthersWrite
<1>4. CASE \E s \in Slots : SaveSteps(s) \/ ParticipantsCancel(s) \/ WriteFails(s)
  BY <1>4 DEF SaveSteps, DelayEnds, BeginWrite, Check, Write, WriteSucceeds,
              ParticipantsCancel, WriteFails
<1>5. CASE UNCHANGED vars
  BY <1>5 DEF vars
<1>. QED  BY <1>1, <1>2, <1>3, <1>4, <1>5 DEF Next

----------------------------------------------------------------------------
(* What is read never replaces what was typed.  ReadBase: while the file   *)
(* is being read for the version that the editor still has, its text was   *)
(* kept.                                                                   *)

ReadBase ==
  reading.step # "no" =>
    /\ reading.version <= version
    /\ reading.version = version /\ ~astray => buffer.text \in kept

LEMMA AskedBase ==
  ASSUME Inv, NEW by, NEW etag, reading' = Asked(by, etag), UNCHANGED <<buffer, version>>,
         ~astray' => buffer.text \in kept'
  PROVE  ReadBase'
<1>1. reading'.version = version /\ version \in Nat
  BY DEF Asked, Inv, TextInv
<1>. QED  BY <1>1 DEF ReadBase

LEMMA BaseOnwards ==
  ASSUME Inv, ReadBase, TextMoves, HistoryMoves,
         \/ reading' = reading
         \/ reading.step # "no" /\ reading'.version = reading.version
  PROVE  ReadBase'
<1>1. version \in Nat /\ reading.version \in Nat
  BY DEF Inv, TextInv, ReadInv, Readings
<1>. QED  BY <1>1 DEF ReadBase, TextMoves, HistoryMoves

LEMMA BaseKept == ASSUME Inv, KeptInv, ReadBase, [Next]_vars PROVE ReadBase'
<1>1. TextMoves /\ HistoryMoves
  BY TextOnwards, HistoryOnwards
<1>2. CASE reading' = reading
  BY <1>1, <1>2, BaseOnwards
<1>3. CASE Resolve \/ ReadFails
  BY <1>3 DEF Resolve, ReadFails, EndReading, NotReading, ReadBase
<1>4. CASE ReadFile
  <2>1. reading.step # "no" /\ reading'.version = reading.version
    BY <1>4, PartRead
  <2>. QED  BY <1>1, <2>1, BaseOnwards
<1>5. CASE ReloadStarts
  <2>1. CASE reading' = Asked("reload", stat) /\ ~dirty
    <3>1. UNCHANGED <<buffer, version, astray, kept>>
      BY <1>5 DEF ReloadStarts, text, history
    <3>. QED  BY <2>1, <3>1, AskedBase DEF KeptInv, CleanTextWasKept
  <2>. QED  BY <1>2, <1>5, <2>1 DEF ReloadStarts
<1>6. CASE RevertStarts
  <2>1. CASE reading' = Asked("revert", None) /\ ~dirty
    <3>1. UNCHANGED <<buffer, version, kept>> /\ (astray => astray')
      BY <1>6 DEF RevertStarts, RevertReads, text
    <3>. QED  BY <2>1, <3>1, AskedBase DEF KeptInv, CleanTextWasKept
  <2>. QED  BY <1>2, <1>6, <2>1 DEF RevertStarts, RevertReads
<1>7. CASE Revert
  <2>1. CASE reading' = Asked("revert", None)
    <3>1. UNCHANGED <<buffer, version>> /\ buffer.text \in kept'
      BY <1>7 DEF Revert, text
    <3>. QED  BY <2>1, <3>1, AskedBase
  <2>. QED  BY <1>2, <1>7, <2>1 DEF Revert, RevertReads
<1>. QED  BY <1>2, <1>3, <1>4, <1>5, <1>6, <1>7, ReadingAlone DEF ReadSteps

\* Only the end of reading puts a text into the editor that was not typed
\* there, and only if the editor still has the version it had at the start.
LEMMA ReadingReplaces ==
  ASSUME Inv, ReadBase, [Next]_vars, reading.step = "read", reading'.step = "no", ~astray,
         buffer'.text # buffer.text
  PROVE  buffer.text \in kept
<1>1. reading' # reading
  OBVIOUS
<1>2. Resolve
  BY <1>1, ReadingAlone, PartRead DEF ReadSteps, ReloadStarts, RevertStarts, Revert, RevertReads,
     Asked, ReadFails
<1>3. ~ChangedMeanwhile
  BY <1>2 DEF Resolve, text
<1>. QED  BY <1>3 DEF ChangedMeanwhile, ReadBase

\* Whatever is read, and whenever its reading ends, a text that was typed
\* meanwhile stays (resolveFromFile compares the version it started from).
THEOREM TextFileReadKeepsTyping == Spec => ReadKeepsTyping
<1>1. Init => ReadBase
  BY DEF Init, NotReading, ReadBase
<1>2. Inv /\ KeptInv /\ ReadBase /\ [Next]_vars => ReadBase'
  BY BaseKept
<1>3. Inv /\ ReadBase /\ [Next]_vars =>
        [~astray /\ reading.step = "read" /\ buffer'.text # buffer.text /\ reading'.step = "no"
           => buffer.text \in kept]_vars
  BY ReadingReplaces
<1>. QED  BY <1>1, <1>2, <1>3, SavesStayOrderly, KeptAlways, PTL DEF Spec, ReadKeepsTyping

----------------------------------------------------------------------------
(* Texts of other programs.  What the model knows of the file, when it is  *)
(* not of the file as it is, is older (KnownInv); a text of another        *)
(* program that is in the editor was shown; and what a save has found when *)
(* it looked at the file holds until something is written (MetInv).        *)

Known(st) == st.mtime < disk.mtime \/ st = StatOf(disk)

KnownInv ==
  /\ Known(stat)
  /\ reading.found # None => reading.found.mtime < disk.mtime \/ reading.found = disk
  /\ reading.stat # None => Known(reading.stat)
  /\ reading.step # "no" /\ reading.by = "reload" =>
       reading.etag \in Stats /\ reading.etag.mtime <= stat.mtime
  /\ reading.step # "no" /\ reading.by = "revert" => reading.etag = None

Met(t) == t.by = "them" => t.n <= shown

Spared(op) == \/ op.kind = "overwrite"
              \/ op.seen.size = disk.text.size
              \/ op.checked < disk.mtime
              \/ Met(disk.text)

OpMet(op) ==
  op.step \in Writing => /\ Known(op.seen) /\ Met(op.text)
                         /\ op.step = "write" => op.checked <= disk.mtime /\ Spared(op)

TextsMet == Met(buffer.text) /\ \A i \in DOMAIN past : Met(past[i].text)
OpsMet == \A s \in Slots : OpMet(saves.ops[s])

MetInv == TextsMet /\ OpsMet

LEMMA StatAlone ==
  [Next]_vars => Resolve \/ (\E s \in Slots : WriteSucceeds(s)) \/ stat' = stat
<1>. SUFFICES ASSUME [Next]_vars, ~Resolve, ~\E s \in Slots : WriteSucceeds(s)
              PROVE  stat' = stat
  OBVIOUS
<1>1. CASE Type \/ Undo \/ Revert \/ ReadFails
  BY <1>1 DEF Type, Undo, Revert, ReadFails
<1>2. CASE Reload
  BY <1>2 DEF Reload, FileChanged, ReloadStarts, RevertStarts, ReadFile, ReadStat, ReadText
<1>3. CASE (\E kind \in SaveKinds : Save(kind)) \/ \E size \in Sizes : OthersWrite(size)
  BY <1>3 DEF Save, OthersWrite
<1>4. CASE \E s \in Slots : SaveSteps(s) \/ ParticipantsCancel(s) \/ WriteFails(s)
  BY <1>4 DEF SaveSteps, DelayEnds, BeginWrite, Check, Write, ParticipantsCancel, WriteFails
<1>5. CASE UNCHANGED vars
  BY <1>5 DEF vars
<1>. QED  BY <1>1, <1>2, <1>3, <1>4, <1>5 DEF Next

\* The saves that are being written go on in three actions only.
LEMMA OpsAlone ==
  ASSUME Inv, [Next]_vars
  PROVE  \/ WritesAsBefore(saves, saves')
         \/ \E s \in Slots : BeginWrite(s) \/ Write(s) \/ (Check(s) /\ ~ModifiedSince(saves.ops[s]))
<1>1. FlagInv'
  BY InvStep DEF Inv
<1>2. ASSUME UNCHANGED saves PROVE WritesAsBefore(saves, saves')
  BY <1>2 DEF WritesAsBefore
<1>3. CASE Type \/ Undo \/ Revert \/ ReadFails
  BY <1>2, <1>3 DEF Type, Undo, Revert, ReadFails
<1>4. CASE Reload
  BY <1>2, <1>4, PartRead DEF Reload, FileChanged, ReloadStarts, RevertStarts, Resolve
<1>5. CASE \E kind \in SaveKinds : Save(kind)
  BY <1>5, CallWrites
<1>6. CASE \E size \in Sizes : OthersWrite(size)
  BY <1>2, <1>6 DEF OthersWrite
<1>7. ASSUME NEW s \in Slots, Saving(s), Finish(s) PROVE WritesAsBefore(saves, saves')
  BY <1>1, <1>7, EndWrites
<1>8. ASSUME NEW s \in Slots, DelayEnds(s) \/ ParticipantsCancel(s)
      PROVE  WritesAsBefore(saves, saves')
  <2>1. Saving(s)
    BY <1>8 DEF DelayEnds, ParticipantsCancel, Saving
  <2>2. CASE Abandon(s)
    BY <1>7, <2>1, <2>2 DEF Abandon
  <2>3. CASE saves' = [saves EXCEPT !.ops[s].step = "participants"]
    <3>1. saves \in SaveQueue /\ saves.ops[s] \in Ops
      BY DEF Inv, SaveInv, SaveQueue
    <3>2. /\ saves'.ops[s].step = "participants"
          /\ \A t \in Slots \ {s} : saves'.ops[t] = saves.ops[t]
      BY <2>3, <3>1 DEF SaveQueue, Ops
    <3>. QED  BY <3>2 DEF WritesAsBefore, Writing
  <2>. QED  BY <1>8, <2>2, <2>3 DEF DelayEnds, ParticipantsCancel
<1>9. ASSUME NEW s \in Slots, Check(s), ModifiedSince(saves.ops[s])
      PROVE  WritesAsBefore(saves, saves')
  BY <1>7, <1>9 DEF Check, Saving
<1>10. ASSUME NEW s \in Slots, WriteFails(s) \/ WriteSucceeds(s)
       PROVE  WritesAsBefore(saves, saves')
  <2>1. Saving(s) /\ Finish(s)
    BY <1>10 DEF WriteFails, WriteSucceeds, Saving
  <2>. QED  BY <1>7, <2>1
<1>11. CASE UNCHANGED vars
  BY <1>2, <1>11 DEF vars
<1>. QED
  BY <1>3, <1>4, <1>5, <1>6, <1>8, <1>9, <1>10, <1>11 DEF Next, SaveSteps

LEMMA KnownOnwards ==
  ASSUME Inv, NEW st \in Stats, Known(st), DiskMoves
  PROVE  st.mtime < disk'.mtime \/ st = StatOf(disk')
<1>1. disk.mtime \in Nat /\ st.mtime \in Nat
  BY DEF Inv, FileInv, Files, Stats
<1>2. st.mtime <= disk.mtime
  BY <1>1 DEF Known, StatOf
<1>3. CASE disk' = disk
  BY <1>3 DEF Known
<1>4. CASE disk'.mtime = disk.mtime + 1
  BY <1>1, <1>2, <1>4
<1>. QED  BY <1>3, <1>4 DEF DiskMoves

\* What has just been learnt of the file is known.
LEMMA UpdateKnown ==
  ASSUME Inv, KnownInv, NEW st \in Stats, UpdateStat(st), UNCHANGED disk, Known(st)
  PROVE  Known(stat)' /\ stat'.mtime >= stat.mtime
<1>1. stat.mtime \in Nat /\ st.mtime \in Nat
  BY DEF Inv, FileInv, Stats
<1>2. stat' = stat \/ (stat' = st /\ stat.mtime <= st.mtime)
  BY <1>1 DEF UpdateStat
<1>3. stat'.mtime >= stat.mtime
  BY <1>1, <1>2
<1>4. Known(stat) /\ Known(st)
  BY <1>1 DEF KnownInv
<1>5. stat'.mtime < disk'.mtime \/ stat' = StatOf(disk')
  BY <1>2, <1>4 DEF Known
<1>. QED  BY <1>3, <1>5 DEF Known, StatOf

LEMMA StatKnown == ASSUME Inv, KnownInv, [Next]_vars PROVE Known(stat)' /\ stat'.mtime >= stat.mtime
<1>1. DiskMoves /\ stat \in Stats /\ stat.mtime \in Nat /\ disk \in Files
  BY DiskOnwards DEF Inv, FileInv, Stats
<1>2. CASE stat' = stat
  <2>1. stat.mtime < disk'.mtime \/ stat = StatOf(disk')
    BY <1>1, KnownOnwards DEF KnownInv
  <2>. QED  BY <1>1, <1>2, <2>1 DEF Known, StatOf
<1>3. CASE \E s \in Slots : WriteSucceeds(s)
  BY <1>1, <1>3, StatTyped, UpdateKnown DEF WriteSucceeds, Known
<1>4. CASE Resolve
  <2>1. UpdateStat(reading.stat) \/ stat' = stat
    BY <1>4 DEF Resolve, Replace
  <2>2. reading.stat \in Stats /\ UNCHANGED disk /\ Known(reading.stat)
    BY <1>4, FileNotNone DEF Resolve, Inv, ReadInv, KnownInv
  <2>. QED  BY <1>2, <2>1, <2>2, UpdateKnown
<1>. QED  BY <1>2, <1>3, <1>4, StatAlone

LEMMA KnownKept == ASSUME Inv, KnownInv, [Next]_vars PROVE KnownInv'
<1>1. Known(stat)' /\ stat'.mtime >= stat.mtime
  BY StatKnown
<1>2. DiskMoves /\ disk.mtime \in Nat /\ stat.mtime \in Nat /\ stat'.mtime \in Nat /\ stat \in Stats
  <2>1. Inv'
    BY InvStep
  <2>. QED  BY <2>1, DiskOnwards DEF Inv, FileInv, Files, Stats
<1>3. CASE reading' = reading
  <2>1. reading.found # None => reading.found.mtime < disk'.mtime \/ reading.found = disk'
    <3>1. reading.found # None => reading.found.mtime \in Nat
      BY DEF Inv, ReadInv, Readings, Files
    <3>. QED  BY <1>2, <3>1 DEF KnownInv, DiskMoves
  <2>3. reading.stat # None => reading.stat.mtime < disk'.mtime \/ reading.stat = StatOf(disk')
    <3>1. reading.stat # None => reading.stat \in Stats
      BY DEF Inv, ReadInv, Readings
    <3>. QED  BY <1>2, <3>1, KnownOnwards DEF KnownInv
  <2>2. reading.step # "no" /\ reading.by = "reload" =>
          reading.etag \in Stats /\ reading.etag.mtime <= stat'.mtime
    BY <1>1, <1>2 DEF KnownInv, Stats
  <2>4. (reading.stat # None => Known(reading.stat))'
    BY <1>3, <2>3 DEF Known, StatOf
  <2>. QED  BY <1>1, <1>3, <2>1, <2>2, <2>4 DEF KnownInv
<1>4. CASE Resolve \/ ReadFails
  BY <1>1, <1>4 DEF Resolve, ReadFails, EndReading, NotReading, KnownInv
<1>5. CASE ReadFile
  <2>1. /\ UNCHANGED <<stat, disk>> /\ reading.step # "no"
        /\ reading'.by = reading.by /\ reading'.etag = reading.etag
        /\ reading'.found \in {reading.found, disk} /\ reading'.stat \in {reading.stat, StatOf(disk)}
    BY <1>5, PartRead
  <2>2. (reading.found # None => reading.found.mtime < disk.mtime \/ reading.found = disk)'
    BY <2>1 DEF KnownInv
  <2>3. (reading.stat # None => Known(reading.stat))'
    BY <2>1 DEF KnownInv, Known, StatOf
  <2>. QED  BY <1>1, <2>1, <2>2, <2>3 DEF KnownInv
<1>6. CASE reading' = Asked("reload", stat) /\ UNCHANGED stat
  BY <1>1, <1>2, <1>6 DEF Asked, KnownInv
<1>7. CASE reading' = Asked("revert", None)
  BY <1>1, <1>7 DEF Asked, KnownInv
<1>8. CASE ReloadStarts \/ RevertStarts \/ Revert
  BY <1>3, <1>6, <1>7, <1>8 DEF ReloadStarts, RevertStarts, Revert, RevertReads
<1>. QED  BY <1>3, <1>4, <1>5, <1>8, ReadingAlone DEF ReadSteps

LEMMA KnownAlways == Spec => []KnownInv
<1>1. Init => KnownInv
  BY DEF Init, NotReading, KnownInv, Known
<1>2. Inv /\ KnownInv /\ [Next]_vars => KnownInv'
  BY KnownKept
<1>. QED  BY <1>1, <1>2, SavesStayOrderly, PTL DEF Spec

LEMMA TextAlone == [Next]_vars => Type \/ Undo \/ Resolve \/ UNCHANGED text
<1>. SUFFICES ASSUME [Next]_vars, ~Type, ~Undo, ~Resolve PROVE UNCHANGED text
  OBVIOUS
<1>1. CASE Revert \/ ReadFails
  BY <1>1 DEF Revert, ReadFails
<1>2. CASE Reload
  BY <1>2 DEF Reload, FileChanged, ReloadStarts, RevertStarts, ReadFile, ReadStat, ReadText
<1>3. CASE (\E kind \in SaveKinds : Save(kind)) \/ \E size \in Sizes : OthersWrite(size)
  BY <1>3 DEF Save, OthersWrite
<1>4. CASE \E s \in Slots : SaveSteps(s) \/ ParticipantsCancel(s) \/ WriteFails(s)
  BY <1>4 DEF SaveSteps, DelayEnds, BeginWrite, Check, Write, WriteSucceeds,
              ParticipantsCancel, WriteFails
<1>5. CASE UNCHANGED vars
  BY <1>5 DEF vars
<1>. QED  BY <1>1, <1>2, <1>3, <1>4, <1>5 DEF Next

LEMMA TextMet == ASSUME Inv, TextsMet, [Next]_vars PROVE TextsMet'
<1>1. /\ buffer \in Alts /\ past \in Seq(Alts) /\ shown \in Nat /\ shown' \in Nat /\ version \in Nat
      /\ shown' >= shown
  <2>1. Inv'
    BY InvStep
  <2>. QED  BY <2>1, HistoryOnwards DEF Inv, TextInv, FileInv, HistoryMoves
<1>2. ASSUME NEW t \in Texts, Met(t) PROVE t.by = "them" => t.n <= shown'
  <2>1. t.n \in Nat
    BY DEF Texts
  <2>. QED  BY <1>1, <1>2, <2>1 DEF Met
<1>3. /\ buffer.text.by = "them" => buffer.text.n <= shown'
      /\ \A i \in DOMAIN past : past[i].text.by = "them" => past[i].text.n <= shown'
  <2>1. buffer.text \in Texts /\ \A i \in DOMAIN past : past[i].text \in Texts
    <3>1. DOMAIN past = 1..Len(past) /\ \A i \in 1..Len(past) : past[i] \in Alts
      BY <1>1
    <3>2. \A a \in Alts : a.text \in Texts
      BY DEF Alts
    <3>. QED  BY <1>1, <3>1, <3>2
  <2>2. Met(buffer.text) /\ \A i \in DOMAIN past : Met(past[i].text)
    BY DEF TextsMet
  <2>3. \A i \in DOMAIN past : past[i].text.by = "them" => past[i].text.n <= shown'
    BY <1>2, <2>1, <2>2
  <2>. QED  BY <1>2, <2>1, <2>2, <2>3
<1>4. ASSUME past' = Append(past, buffer)
      PROVE  \A i \in DOMAIN past' : past'[i].text.by = "them" => past'[i].text.n <= shown'
  <2>. SUFFICES ASSUME NEW i \in DOMAIN past'
                PROVE  past'[i] = buffer \/ (i \in DOMAIN past /\ past'[i] = past[i])
    <3>1. ASSUME NEW i \in DOMAIN past', past'[i] = buffer \/ (i \in DOMAIN past /\ past'[i] = past[i])
          PROVE  past'[i].text.by = "them" => past'[i].text.n <= shown'
      BY <1>3, <3>1
    <3>. QED  BY <3>1
  <2>1. /\ Len(past) \in Nat /\ DOMAIN past = 1..Len(past)
        /\ DOMAIN past' = 1..(Len(past) + 1)
    BY <1>1, <1>4
  <2>2. i \in 1..Len(past) \/ i = Len(past) + 1
    BY <2>1
  <2>. QED  BY <1>1, <1>4, <2>1, <2>2
<1>5. CASE UNCHANGED text
  <2>1. buffer' = buffer /\ past' = past
    BY <1>5 DEF text
  <2>. QED  BY <1>3, <2>1 DEF TextsMet, Met
<1>6. CASE Type
  <2>1. past' = Append(past, buffer) /\ buffer'.text.by = "us"
    BY <1>6 DEF Type, Own
  <2>. QED  BY <1>4, <2>1 DEF TextsMet, Met
<1>7. CASE Undo
  <2>1. past # <<>> /\ buffer' = past[Len(past)] /\ past' = SubSeq(past, 1, Len(past) - 1)
    BY <1>7 DEF Undo, Last, Front
  <2>2. Len(past) \in DOMAIN past /\ Len(past) \in Nat
    BY <1>1, <2>1
  <2>3. \A i \in DOMAIN past' : i \in DOMAIN past /\ past'[i] = past[i]
    BY <1>1, <2>1, <2>2
  <2>. QED  BY <1>3, <2>1, <2>2, <2>3 DEF TextsMet, Met
<1>8. CASE Resolve
  <2>1. reading.found \in Files => reading.found.text.n \in Nat
    BY DEF Files, Texts
  <2>2. UNCHANGED text \/ (Replace(reading.found, reading.stat) /\ reading.found \in Files)
    BY <1>8 DEF Resolve, Inv, ReadInv
  <2>3. CASE Replace(reading.found, reading.stat) /\ reading.found \in Files
    <3>1. /\ buffer'.text = reading.found.text
          /\ past' = past \/ past' = Append(past, buffer)
      BY <2>3 DEF Replace, text
    <3>2. buffer'.text.by = "them" => buffer'.text.n <= shown'
      BY <1>1, <2>1, <2>3, <3>1 DEF Replace
    <3>. QED  BY <1>3, <1>4, <3>1, <3>2 DEF TextsMet, Met
  <2>. QED  BY <1>5, <2>2, <2>3
<1>. QED  BY <1>5, <1>6, <1>7, <1>8, TextAlone

\* What a save being written has found holds while time goes on.
LEMMA OpMetOnwards ==
  ASSUME Inv, [Next]_vars, NEW op \in Ops, OpMet(op), op.step \in Writing
  PROVE  /\ op.seen.mtime < disk'.mtime \/ op.seen = StatOf(disk')
         /\ op.text.by = "them" => op.text.n <= shown'
         /\ op.step = "write" =>
              /\ op.checked <= disk'.mtime
              /\ \/ op.kind = "overwrite"
                 \/ op.seen.size = disk'.text.size
                 \/ op.checked < disk'.mtime
                 \/ disk'.text.by = "them" => disk'.text.n <= shown'
<1>1. /\ op.seen \in Stats /\ op.checked \in Nat /\ op.text.n \in Nat /\ shown \in Nat
      /\ disk.mtime \in Nat /\ disk.text.n \in Nat /\ disk \in Files
  BY DEF Ops, Texts, Inv, FileInv, Files
<1>2. shown' >= shown /\ shown' \in Nat /\ DiskMoves
  <2>1. Inv'
    BY InvStep
  <2>. QED  BY <2>1, HistoryOnwards, DiskOnwards DEF HistoryMoves, Inv, FileInv
<1>3. op.seen.mtime < disk'.mtime \/ op.seen = StatOf(disk')
  BY <1>1, <1>2, KnownOnwards DEF OpMet
<1>4. op.text.by = "them" => op.text.n <= shown'
  <2>1. op.text.by = "them" => op.text.n <= shown
    BY DEF OpMet, Met
  <2>. QED  BY <1>1, <1>2, <2>1
<1>5. CASE disk' = disk
  <2>1. op.step = "write" => /\ op.checked <= disk'.mtime
                             /\ \/ op.kind = "overwrite"
                                \/ op.seen.size = disk'.text.size
                                \/ op.checked < disk'.mtime
                                \/ disk'.text.by = "them" => disk'.text.n <= shown
    BY <1>5 DEF OpMet, Spared, Met
  <2>. QED  BY <1>1, <1>2, <1>3, <1>4, <1>5, <2>1
<1>6. CASE disk'.mtime = disk.mtime + 1
  <2>1. op.step = "write" => op.checked < disk'.mtime
    BY <1>1, <1>6 DEF OpMet
  <2>2. op.step = "write" => op.checked <= disk'.mtime
    BY <1>1, <1>6 DEF OpMet
  <2>. QED  BY <1>3, <1>4, <2>1, <2>2
<1>. QED  BY <1>2, <1>5, <1>6 DEF DiskMoves

LEMMA OpsMetKept == ASSUME Inv, KnownInv, MetInv, [Next]_vars PROVE OpsMet'
<1>. SUFFICES ASSUME NEW s \in Slots, saves'.ops[s].step \in Writing
              PROVE  OpMet(saves.ops[s])'
  BY DEF OpsMet, OpMet
<1>. DEFINE before == saves.ops[s]
            op == saves'.ops[s]
<1>0. saves.ops \in [Slots -> Ops] /\ before \in Ops /\ OpMet(before)
  BY DEF Inv, SaveInv, SaveQueue, MetInv, OpsMet
<1>1. CASE op = before
  BY <1>0, <1>1, OpMetOnwards DEF OpMet, Known, Spared, Met
<1>2. CASE WritesAsBefore(saves, saves')
  BY <1>1, <1>2 DEF WritesAsBefore
<1>3. ASSUME NEW t \in Slots, BeginWrite(t) PROVE OpMet(saves.ops[s])'
  <2>1. saves' = [saves EXCEPT !.running = [id |-> version, by |-> t],
                               !.ops[t] = [@ EXCEPT !.step = "check", !.version = version,
                                                    !.text = buffer.text, !.seen = stat]]
    BY <1>3 DEF BeginWrite
  <2>2. CASE t # s
    BY <1>0, <1>1, <2>1, <2>2 DEF Inv, SaveInv, SaveQueue
  <2>3. CASE t = s
    <3>1. op.step = "check" /\ op.text = buffer.text /\ op.seen = stat
      BY <1>0, <2>1, <2>3 DEF Inv, SaveInv, SaveQueue, Ops
    <3>2. UNCHANGED <<disk, shown>>
      BY <1>3 DEF BeginWrite, history
    <3>. QED  BY <3>1, <3>2 DEF OpMet, Known, Met, KnownInv, MetInv, TextsMet
  <2>. QED  BY <2>2, <2>3
<1>4. ASSUME NEW t \in Slots, Write(t) PROVE OpMet(saves.ops[s])'
  <2>1. saves' = [saves EXCEPT !.ops[t].step = "stat"] /\ before.step \in Writing
    BY <1>0, <1>4 DEF Write, Writing, Inv, SaveInv, SaveQueue
  <2>2. CASE t # s
    BY <1>0, <1>1, <2>1, <2>2 DEF Inv, SaveInv, SaveQueue
  <2>3. CASE t = s
    <3>1. op.step = "stat" /\ op.text = before.text /\ op.seen = before.seen
      BY <1>0, <2>1, <2>3 DEF Inv, SaveInv, SaveQueue, Ops
    <3>. QED  BY <1>0, <2>1, <3>1, OpMetOnwards DEF OpMet, Known, Met
  <2>. QED  BY <2>2, <2>3
<1>5. ASSUME NEW t \in Slots, Check(t), ~ModifiedSince(saves.ops[t]) PROVE OpMet(saves.ops[s])'
  <2>1. saves' = [saves EXCEPT !.ops[t] = [@ EXCEPT !.step = "write", !.checked = disk.mtime]]
    BY <1>5 DEF Check
  <2>2. CASE t # s
    BY <1>0, <1>1, <2>1, <2>2 DEF Inv, SaveInv, SaveQueue
  <2>3. CASE t = s
    <3>1. /\ op.step = "write" /\ op.text = before.text /\ op.seen = before.seen
          /\ op.kind = before.kind /\ op.checked = disk.mtime
      BY <1>0, <2>1, <2>3 DEF Inv, SaveInv, SaveQueue, Ops
    <3>2. UNCHANGED <<disk, shown>> /\ disk.mtime \in Nat /\ before.step \in Writing
      BY <1>5, <2>3 DEF Check, history, Writing, Inv, FileInv, Files
    <3>3. Known(before.seen) /\ Met(before.text) /\ before.seen \in Stats
      BY <1>0, <3>2 DEF OpMet, Ops
    <3>4. \/ before.kind = "overwrite"
          \/ before.seen.size = disk.text.size
          \/ Met(disk.text)
      BY <1>5, <2>3, <3>3 DEF ModifiedSince, Known, StatOf
    <3>. QED  BY <3>1, <3>2, <3>3, <3>4 DEF OpMet, Known, Met, Spared
  <2>. QED  BY <2>2, <2>3
<1>. QED  BY <1>2, <1>3, <1>4, <1>5, OpsAlone

LEMMA MetAlways == Spec => []MetInv
<1>1. Init => MetInv
  <2>. SUFFICES ASSUME Init PROVE MetInv
    OBVIOUS
  <2>1. buffer.text = Foreign(0, OwnSize) /\ past = <<>> /\ shown = 0
    BY DEF Init
  <2>2. TextsMet
    BY <2>1 DEF TextsMet, Met, Foreign
  <2>3. \A s \in Slots : saves.ops[s].step = "idle"
    BY DEF Init, NoSave
  <2>. QED  BY <2>2, <2>3 DEF MetInv, OpsMet, OpMet, Writing
<1>2. Inv /\ KnownInv /\ MetInv /\ [Next]_vars => MetInv'
  BY TextMet, OpsMetKept DEF MetInv
<1>. QED  BY <1>1, <1>2, SavesStayOrderly, KnownAlways, PTL DEF Spec

\* Whoever writes the file and whenever, a save replaces a text that the editor
\* never showed only as validateWriteFile and the user let it.
THEOREM TextFileOthersKept == Spec => OthersKept
<1>1. ASSUME MetInv, NEW s \in Slots, Write(s), disk.text.by = "them", disk.text.n > shown,
             Inv
      PROVE  \/ saves.ops[s].kind = "overwrite"
             \/ saves.ops[s].seen.size = disk.text.size
             \/ saves.ops[s].checked < disk.mtime
  <2>1. ~Met(disk.text)
    BY <1>1 DEF Met, Inv, FileInv, Files, Texts
  <2>2. Spared(saves.ops[s])
    BY <1>1 DEF MetInv, OpsMet, OpMet, Write, Writing
  <2>. QED  BY <2>1, <2>2 DEF Spared
<1>. DEFINE Allowed == \A s \in Slots : Write(s) /\ disk.text.by = "them" /\ disk.text.n > shown =>
       \/ saves.ops[s].kind = "overwrite"
       \/ saves.ops[s].seen.size = disk.text.size
       \/ saves.ops[s].checked < disk.mtime
<1>2. Inv /\ MetInv /\ [Next]_vars => [Allowed]_vars
  BY <1>1
<1>. QED  BY <1>2, SavesStayOrderly, MetAlways, PTL DEF Spec, OthersKept

----------------------------------------------------------------------------
(* A clean text is on disk once everything has settled.  Until it has, a   *)
(* clean text that is not on disk has something coming that will show or   *)
(* replace it (Expected): an announced change, a save that ends, a queued  *)
(* reload, a waiting revert, or a reading that will bring the file as it   *)
(* is.  The other three parts of SettleInv keep what is coming from being  *)
(* dropped: by a write of an older version, by a reload that finds the     *)
(* file as it is known, and by a reading that was overtaken.               *)

Active(by) == reading.step # "no" /\ reading.by = by
RevertToCome == reverting # None /\ ~Active("revert")
ReloadToCome == reloads > IF Active("reload") THEN 1 ELSE 0
ReadsForIt == reading.step # "no" /\ reading.version = version
Fresh == /\ ReadsForIt
         /\ reading.etag # IF reading.stat = None THEN StatOf(disk) ELSE reading.stat
         /\ reading.found # None => reading.found.text = disk.text

Clean == ~dirty /\ ~astray
Behind(op, v) == op.step \in Writing /\ op.version # v

WriteBehind == Clean /\ (\E s \in Slots : Behind(saves.ops[s], version)) => RevertToCome
FileKnown == Clean /\ stat.mtime = disk.mtime /\ buffer.text # disk.text =>
               RevertToCome \/ (Active("revert") /\ ReadsForIt)
Overtaken == Clean /\ reading.found # None /\ ReadsForIt /\ reading.found.mtime < disk.mtime =>
               event \/ ReloadToCome \/ RevertToCome \/ reading.found.mtime < stat.mtime
Expected == Clean /\ buffer.text # disk.text =>
              event \/ Busy(saves) \/ ReloadToCome \/ RevertToCome \/ Fresh

SettleInv == WriteBehind /\ FileKnown /\ Overtaken /\ Expected

AllInv == Inv /\ KeptInv /\ KnownInv /\ ReadBase /\ SettleInv

\* No save falls behind the text.
NoneFallsBehind ==
  \A s \in Slots : Behind(saves'.ops[s], version') => Behind(saves.ops[s], version)

LEMMA AsBeforeNotBehind ==
  ASSUME WritesAsBefore(saves, saves'), version' = version
  PROVE  NoneFallsBehind
BY DEF WritesAsBefore, NoneFallsBehind, Behind

LEMMA UncleanSettles == ~Clean' => SettleInv'
BY DEF SettleInv, WriteBehind, FileKnown, Overtaken, Expected

\* What changes the saves only.
LEMMA SavingSettles ==
  ASSUME SettleInv, UNCHANGED <<buffer, version, dirty, stat, disk, event, resolving>>,
         astray => astray', NoneFallsBehind,
         Busy(saves) => Busy(saves') \/ buffer.text = disk.text \/ ~Clean'
  PROVE  SettleInv'
<1>1. /\ Clean' => Clean
      /\ RevertToCome' = RevertToCome /\ ReloadToCome' = ReloadToCome /\ ReadsForIt' = ReadsForIt
      /\ Fresh' = Fresh /\ Active("revert")' = Active("revert")
      /\ reading' = reading
  BY DEF Clean, RevertToCome, ReloadToCome, ReadsForIt, Fresh, Active, resolving, StatOf
<1>2. WriteBehind'
  BY <1>1 DEF SettleInv, WriteBehind, NoneFallsBehind
<1>3. FileKnown'
  BY <1>1 DEF SettleInv, FileKnown
<1>4. Overtaken'
  BY <1>1 DEF SettleInv, Overtaken
<1>5. Expected'
  BY <1>1 DEF SettleInv, Expected
<1>. QED  BY <1>2, <1>3, <1>4, <1>5 DEF SettleInv

\* The file is written, by whomever.
LEMMA WrittenSettles ==
  ASSUME Inv, KnownInv, SettleInv, UNCHANGED <<buffer, version, dirty, astray, stat, resolving>>,
         disk'.mtime = disk.mtime + 1, event' = TRUE, NoneFallsBehind
  PROVE  SettleInv'
<1>1. Clean' = Clean /\ RevertToCome' = RevertToCome
  BY DEF Clean, RevertToCome, Active, resolving
<1>2. WriteBehind'
  BY <1>1 DEF SettleInv, WriteBehind, NoneFallsBehind
<1>3. stat'.mtime < disk'.mtime /\ stat'.mtime \in Nat
  BY DEF Inv, FileInv, Files, Stats, KnownInv, Known, StatOf
<1>4. FileKnown'
  BY <1>3 DEF FileKnown
<1>. QED  BY <1>2, <1>4 DEF SettleInv, Overtaken, Expected

LEMMA EditsSettle == ASSUME AllInv, Type \/ Undo PROVE SettleInv'
<1>1. CASE dirty' \/ astray'
  BY <1>1, UncleanSettles DEF Clean
<1>2. CASE Type
  BY <1>1, <1>2 DEF Type, SetDirty
<1>3. CASE Undo /\ ~dirty' /\ ~astray'
  <2>1. buffer'.alt = bufferSavedVersionId
    BY <1>3 DEF Undo, SetDirty
  <2>2. buffer'.text = disk.text /\ ~Busy(saves) /\ UNCHANGED <<saves, disk, reading>> /\ version' = version + 1
    BY <1>3, <2>1 DEF Undo, resolving
  <2>3. \A s \in Slots : saves'.ops[s].step = "idle"
    BY <2>2 DEF AllInv, Inv, SaveInv, Orderly, OpOrderly, Busy
  <2>4. ~ReadsForIt'
    <3>1. version \in Nat /\ reading.version \in Nat
      BY DEF AllInv, Inv, TextInv, ReadInv, Readings
    <3>. QED  BY <2>2, <3>1 DEF AllInv, ReadBase, ReadsForIt
  <2>. QED
    BY <2>2, <2>3, <2>4 DEF SettleInv, WriteBehind, FileKnown, Overtaken, Expected, Behind, Writing
<1>. QED  BY <1>1, <1>2, <1>3

LEMMA QueueBusy ==
  ASSUME NEW q \in SaveQueue, NEW kind, NEW callers, Busy(q)
  PROVE  Busy(Queue(q, kind, callers))
<1>1. CancelRunning(q).running = q.running
  BY DEF CancelRunning, SaveQueue
<1>. DEFINE r == CancelRunning(q)
            w == Await(r, callers, "queued")
<1>2. r = q \/ r = [q EXCEPT !.ops[q.running.by].cancelled = TRUE]
  BY DEF CancelRunning
<1>3. w.running = r.running /\ [w EXCEPT !.queued = kind].running = w.running
  <2>1. /\ DOMAIN q = {"running", "queued", "ops", "calls"} /\ DOMAIN r = DOMAIN q
    BY <1>2 DEF SaveQueue
  <2>. HIDE DEF r
  <2>. QED  BY <2>1 DEF Await
<1>. QED  BY <1>1, <1>3 DEF Queue, Busy

LEMMA CallBusy == ASSUME Inv, NEW kind \in SaveKinds, Save(kind), Busy(saves) PROVE Busy(saves')
<1>. DEFINE called == [saves EXCEPT !.calls = Append(@, "done")]
<1>1. Append(saves.calls, "done") \in Seq(Awaited)
  BY DEF Inv, SaveInv, SaveQueue, Awaited
<1>2. called \in SaveQueue /\ Busy(called)
  BY <1>1 DEF Inv, SaveInv, SaveQueue, Busy
<1>3. \/ saves' = called
      \/ \E step \in FirstStep, callers \in {{Len(called.calls)}} :
           saves' = DoSave(called, kind, callers, dirty, step)
  BY DEF Save, FirstSteps, FirstStep
<1>. HIDE DEF called
<1>4. ASSUME NEW step, NEW callers PROVE Busy(DoSave(called, kind, callers, dirty, step))
  <2>1. Busy(Await(called, callers, "done"))
    BY <1>2, AwaitCalls DEF Awaited, Busy
  <2>2. ASSUME IsRunning(called, version) PROVE Busy(Await(called, callers, called.running.by))
    <3>1. called.running.by \in Awaited
      BY <1>2 DEF Busy, SaveQueue, Running, Awaited
    <3>. QED  BY <1>2, <3>1, AwaitCalls DEF Busy
  <2>3. Busy(Queue(called, kind, callers))
    BY <1>2, QueueBusy
  <2>. QED  BY <1>2, <2>1, <2>2, <2>3 DEF DoSave
<1>. QED  BY <1>2, <1>3, <1>4

LEMMA CallsSettle == ASSUME AllInv, NEW kind \in SaveKinds, Save(kind) PROVE SettleInv'
<1>1. /\ UNCHANGED <<buffer, version, dirty, stat, disk, event, resolving, astray>>
  BY DEF Save, text, flags, history
<1>2. NoneFallsBehind
  BY <1>1, CallWrites, AsBeforeNotBehind DEF AllInv
<1>. QED  BY <1>1, <1>2, CallBusy, SavingSettles DEF AllInv

LEMMA OthersSettle == ASSUME AllInv, NEW size \in Sizes, OthersWrite(size) PROVE SettleInv'
<1>1. /\ UNCHANGED <<buffer, version, dirty, stat, resolving, astray, saves>>
      /\ disk'.mtime = disk.mtime + 1 /\ event' = TRUE
  BY DEF OthersWrite, text, flags
<1>2. NoneFallsBehind
  BY <1>1 DEF NoneFallsBehind
<1>. QED  BY <1>1, <1>2, WrittenSettles DEF AllInv

LEMMA AbandonSettles ==
  ASSUME AllInv, NEW s \in Slots, Saving(s), Abandon(s),
         UNCHANGED <<text, undid, stat, disk, event, resolving, kept, shown, used>>
  PROVE  SettleInv'
<1>1. FlagInv'
  BY DEF Abandon, flags, AllInv, Inv, FlagInv
<1>2. NoneFallsBehind
  BY <1>1, EndWrites, AsBeforeNotBehind DEF Abandon, text, AllInv
<1>3. /\ UNCHANGED <<buffer, version, dirty, stat, disk, event, resolving>>
      /\ astray => astray'
      /\ buffer.text = disk.text \/ dirty \/ astray'
  BY DEF Abandon, flags, text
<1>. QED  BY <1>2, <1>3, SavingSettles DEF AllInv, Clean

LEMMA DelaySettles == ASSUME AllInv, NEW s \in Slots, DelayEnds(s) PROVE SettleInv'
<1>1. CASE saves.ops[s].cancelled
  BY <1>1, AbandonSettles DEF DelayEnds, Saving
<1>2. CASE ~saves.ops[s].cancelled
  <2>1. /\ saves' = [saves EXCEPT !.ops[s].step = "participants"]
        /\ UNCHANGED <<buffer, version, dirty, astray, stat, disk, event, resolving>>
    BY <1>2 DEF DelayEnds, flags, text
  <2>2. saves \in SaveQueue /\ saves.ops[s] \in Ops
    BY DEF AllInv, Inv, SaveInv, SaveQueue
  <2>3. saves'.running = saves.running /\ saves'.ops[s].step = "participants"
    BY <2>1, <2>2 DEF SaveQueue, Ops
  <2>4. \A t \in Slots \ {s} : saves'.ops[t] = saves.ops[t]
    BY <2>1, <2>2 DEF SaveQueue
  <2>5. NoneFallsBehind
    BY <2>1, <2>3, <2>4 DEF NoneFallsBehind, Behind, Writing
  <2>. QED  BY <2>1, <2>3, <2>5, SavingSettles DEF AllInv, Busy
<1>. QED  BY <1>1, <1>2

LEMMA BeginWriteSettles == ASSUME AllInv, NEW s \in Slots, BeginWrite(s) PROVE SettleInv'
<1>1. /\ saves' = [saves EXCEPT !.running = [id |-> version, by |-> s],
                               !.ops[s] = [@ EXCEPT !.step = "check", !.version = version,
                                                    !.text = buffer.text, !.seen = stat]]
      /\ UNCHANGED <<buffer, version, dirty, astray, stat, disk, event, resolving>>
  BY DEF BeginWrite, text, history
<1>2. saves \in SaveQueue /\ saves.ops[s] \in Ops /\ version \in Nat
  BY DEF AllInv, Inv, SaveInv, SaveQueue, TextInv
<1>3. /\ saves'.running = [id |-> version, by |-> s]
      /\ saves'.ops[s].version = version
      /\ \A t \in Slots \ {s} : saves'.ops[t] = saves.ops[t]
  BY <1>1, <1>2 DEF SaveQueue, Ops
<1>4. Busy(saves')
  BY <1>2, <1>3, NoneAssumption DEF Busy
<1>5. NoneFallsBehind
  BY <1>1, <1>3 DEF NoneFallsBehind, Behind
<1>. QED  BY <1>1, <1>4, <1>5, SavingSettles DEF AllInv

LEMMA CheckSettles == ASSUME AllInv, NEW s \in Slots, Check(s) PROVE SettleInv'
<1>1. CASE ModifiedSince(saves.ops[s])
  BY <1>1, UncleanSettles DEF Check, SaveError, Clean
<1>2. CASE ~ModifiedSince(saves.ops[s])
  <2>1. /\ saves' = [saves EXCEPT !.ops[s] = [@ EXCEPT !.step = "write", !.checked = disk.mtime]]
        /\ UNCHANGED <<buffer, version, dirty, astray, stat, disk, event, resolving>>
        /\ saves.ops[s].step = "check"
    BY <1>2 DEF Check, flags, text, history
  <2>2. saves \in SaveQueue /\ saves.ops[s] \in Ops
    BY DEF AllInv, Inv, SaveInv, SaveQueue
  <2>3. /\ saves'.running = saves.running
        /\ saves'.ops[s].version = saves.ops[s].version
        /\ \A t \in Slots \ {s} : saves'.ops[t] = saves.ops[t]
    BY <2>1, <2>2 DEF SaveQueue, Ops
  <2>4. NoneFallsBehind
    BY <2>1, <2>3 DEF NoneFallsBehind, Behind, Writing
  <2>. QED  BY <2>1, <2>3, <2>4, SavingSettles DEF AllInv, Busy
<1>. QED  BY <1>1, <1>2

LEMMA WriteSettles == ASSUME AllInv, NEW s \in Slots, Write(s) PROVE SettleInv'
<1>1. /\ saves' = [saves EXCEPT !.ops[s].step = "stat"]
      /\ UNCHANGED <<buffer, version, dirty, astray, stat, resolving>>
      /\ disk'.mtime = disk.mtime + 1 /\ event' = TRUE
      /\ saves.ops[s].step = "write"
  BY DEF Write, Overwrite, flags, text
<1>2. saves \in SaveQueue /\ saves.ops[s] \in Ops
  BY DEF AllInv, Inv, SaveInv, SaveQueue
<1>3. /\ saves'.ops[s].version = saves.ops[s].version
      /\ \A t \in Slots \ {s} : saves'.ops[t] = saves.ops[t]
  BY <1>1, <1>2 DEF SaveQueue, Ops
<1>4. NoneFallsBehind
  BY <1>1, <1>3 DEF NoneFallsBehind, Behind, Writing
<1>. QED  BY <1>1, <1>4, WrittenSettles DEF AllInv

LEMMA WriteFailsSettles == ASSUME NEW s \in Slots, WriteFails(s) PROVE SettleInv'
BY UncleanSettles DEF WriteFails, SaveError, Clean

\* A write that has succeeded: of the text as it is, which makes the model
\* clean, or of an older one, which leaves a clean model to a revert.
LEMMA WriteSucceedsSettles == ASSUME AllInv, NEW s \in Slots, WriteSucceeds(s) PROVE SettleInv'
<1>. SUFFICES ASSUME Clean' PROVE SettleInv'
  BY UncleanSettles
<1>1. /\ saves.ops[s].step = "stat" /\ Saving(s) /\ Finish(s) /\ Succeeded(saves.ops[s])
      /\ UNCHANGED <<buffer, version, disk, event, resolving>>
      /\ UpdateStat(StatOf(disk)) /\ astray' = (astray \/ disk.text # saves.ops[s].text)
  BY DEF WriteSucceeds, text, Saving
<1>2. ~astray /\ disk.text = saves.ops[s].text
  BY <1>1 DEF Clean
<1>3. /\ RevertToCome' = RevertToCome /\ ReloadToCome' = ReloadToCome /\ reading' = reading
  BY <1>1 DEF RevertToCome, ReloadToCome, Active, resolving
<1>4. stat' = StatOf(disk') /\ disk' = disk
  <2>1. stat.mtime <= disk.mtime
    BY DEF AllInv, Inv, FileInv, Files, Stats, KnownInv, Known, StatOf
  <2>. QED  BY <1>1, <2>1 DEF UpdateStat, StatOf
<1>5. OpKept(saves.ops[s])
  BY DEF AllInv, KeptInv, OpsKept
<1>6. FlagInv'
  <2>1. buffer.alt \in Nat
    BY DEF AllInv, Inv, TextInv, Alts
  <2>. QED  BY <1>1, <2>1 DEF Succeeded, SetClean, flags, AllInv, Inv, FlagInv
<1>7. NoneFallsBehind
  BY <1>1, <1>6, EndWrites, AsBeforeNotBehind DEF AllInv
<1>8. Overtaken'
  <2>1. reading.found # None => reading.found \in Files
    BY DEF AllInv, Inv, ReadInv, Readings
  <2>. QED  BY <1>3, <1>4, <2>1 DEF Overtaken, StatOf, Files
<1>9. CASE saves.ops[s].version = version
  <2>1. buffer'.text = disk'.text
    BY <1>1, <1>2, <1>4, <1>5, <1>9 DEF OpKept, Writing
  <2>2. \A t \in Slots : ~Behind(saves'.ops[t], version')
    <3>1. ASSUME NEW t \in Slots, Behind(saves'.ops[t], version') PROVE FALSE
      <4>1. Behind(saves.ops[t], version)
        BY <1>7, <3>1 DEF NoneFallsBehind
      <4>2. t # s /\ Saving(t)
        BY <1>9, <4>1 DEF Behind, Saving, Writing
      <4>. QED  BY <1>1, <4>2 DEF AllInv, Inv, SaveInv, Orderly, OpOrderly, Saving
    <3>. QED  BY <3>1
  <2>. QED  BY <1>8, <2>1, <2>2 DEF SettleInv, WriteBehind, FileKnown, Expected
<1>10. CASE saves.ops[s].version # version
  <2>1. Clean
    BY <1>1, <1>2, <1>10 DEF Succeeded, flags, Clean
  <2>2. RevertToCome
    BY <1>1, <1>10, <2>1 DEF AllInv, SettleInv, WriteBehind, Behind, Writing
  <2>. QED  BY <1>3, <2>2 DEF SettleInv, WriteBehind, FileKnown, Overtaken, Expected
<1>. QED  BY <1>9, <1>10

\* A clean model is reloaded when its file changes, unless enough reloads wait.
LEMMA FileChangedSettles == ASSUME AllInv, FileChanged PROVE SettleInv'
<1>. SUFFICES ASSUME Clean' PROVE SettleInv'
  BY UncleanSettles
<1>1. /\ UNCHANGED <<buffer, version, dirty, astray, stat, saves, disk, reading, reverting>>
      /\ reloads' = IF ~dirty /\ reloads <= 1 THEN reloads + 1 ELSE reloads
  BY DEF FileChanged, text, flags, history
<1>2. /\ Clean /\ RevertToCome' = RevertToCome /\ ReadsForIt' = ReadsForIt
      /\ Active("revert")' = Active("revert")
  BY <1>1 DEF Clean, RevertToCome, ReadsForIt, Active
<1>3. ReloadToCome'
  <2>1. reloads \in 0..2 /\ (Active("reload") => reloads > 0)
    BY DEF AllInv, Inv, ReadInv, Active
  <2>. QED  BY <1>1, <1>2, <2>1 DEF ReloadToCome, Active, Clean
<1>4. WriteBehind' /\ FileKnown'
  BY <1>1, <1>2 DEF AllInv, SettleInv, WriteBehind, FileKnown
<1>. QED  BY <1>3, <1>4 DEF SettleInv, Overtaken, Expected

\* Asking for the file brings it, unless it is as the model knows it: then a
\* clean text that differs has a revert to come.
LEMMA ReloadStartsSettles == ASSUME AllInv, ReloadStarts PROVE SettleInv'
<1>. SUFFICES ASSUME Clean' PROVE SettleInv'
  BY UncleanSettles
<1>1. /\ UNCHANGED <<buffer, version, dirty, astray, stat, saves, disk, event, reverting>>
      /\ reloads > 0 /\ reading.step = "no"
  BY DEF ReloadStarts, text, flags, history
<1>2. Clean /\ ~dirty
  BY <1>1 DEF Clean
<1>3. \/ Busy(saves) /\ reading' = reading
      \/ reading' = Asked("reload", stat)
  BY <1>2 DEF ReloadStarts
<1>4. (reading'.step = "no" \/ reading'.found = None) /\ ~Active("revert")' /\ ~Active("revert")
  BY <1>1, <1>3 DEF Active, Asked
<1>5. RevertToCome' = RevertToCome
  BY <1>1, <1>4 DEF RevertToCome
<1>6. WriteBehind' /\ FileKnown' /\ Overtaken'
  BY <1>1, <1>2, <1>4, <1>5 DEF AllInv, SettleInv, WriteBehind, FileKnown, Overtaken, ReadsForIt
<1>7. Expected'
  <2>. SUFFICES ASSUME buffer.text # disk.text, ~Busy(saves), ~RevertToCome PROVE Fresh'
    BY <1>1, <1>5 DEF Expected
  <2>1. reading' = Asked("reload", stat)
    BY <1>3
  <2>2. stat.mtime # disk.mtime
    BY <1>2, <1>4 DEF AllInv, SettleInv, FileKnown
  <2>3. stat # StatOf(disk)
    BY <2>2 DEF StatOf
  <2>. QED  BY <1>1, <2>1, <2>3 DEF Fresh, ReadsForIt, Asked, StatOf
<1>. QED  BY <1>6, <1>7 DEF SettleInv

\* A revert asks for the file whatever the model knows of it.
LEMMA RevertReadsSettles ==
  ASSUME AllInv, NEW before, RevertReads(FALSE, before), reading.step = "no",
         UNCHANGED <<buffer, version, stat, saves, disk, event, reloads>>, Clean'
  PROVE  SettleInv'
<1>1. ~Busy(saves)
  BY DEF RevertReads, Clean
<1>2. reading' = Asked("revert", None)
  BY <1>1 DEF RevertReads
<1>3. reading'.stat = None /\ reading'.found = None /\ ReadsForIt' /\ Active("revert")'
  BY <1>2 DEF Asked, ReadsForIt, Active
<1>4. None # StatOf(disk')
  <2>1. disk \in Files /\ StatOf(disk) \in Stats
    BY StatTyped DEF AllInv, Inv, FileInv
  <2>2. None \notin Stats
    BY NoneAssumption DEF Stats
  <2>. QED  BY <2>1, <2>2
<1>5. Fresh'
  BY <1>2, <1>3, <1>4 DEF Fresh, Asked
<1>6. \A s \in Slots : saves'.ops[s].step = "idle"
  BY <1>1 DEF AllInv, Inv, SaveInv, Orderly, OpOrderly, Busy
<1>. QED
  BY <1>3, <1>5, <1>6 DEF SettleInv, WriteBehind, FileKnown, Overtaken, Expected, Behind, Writing

LEMMA RevertSettles == ASSUME AllInv, Revert PROVE SettleInv'
<1>. SUFFICES ASSUME Clean' PROVE SettleInv'
  BY UncleanSettles
<1>. DEFINE before == [dirty |-> dirty, conflict |-> inConflictMode, error |-> inErrorMode,
                       saved |-> bufferSavedVersionId]
<1>1. /\ UNCHANGED <<buffer, version, stat, saves, disk, event, reloads>> /\ reverting = None
      /\ IF reading.step = "no" THEN RevertReads(FALSE, before)
         ELSE reverting' = before /\ UNCHANGED <<reading, astray>>
  BY DEF Revert, text
<1>2. CASE reading.step = "no"
  BY <1>1, <1>2, RevertReadsSettles
<1>3. CASE reading.step # "no"
  <2>1. None \notin Before
    BY NoneAssumption DEF Before
  <2>2. before \in Before
    BY DEF Before, AllInv, Inv, FlagInv
  <2>3. ~Active("revert")
    BY <1>1, <2>1 DEF AllInv, Inv, ReadInv, Active
  <2>. HIDE DEF before
  <2>4. RevertToCome'
    BY <1>1, <1>3, <2>1, <2>2, <2>3 DEF RevertToCome, Active
  <2>. QED  BY <2>4 DEF SettleInv, WriteBehind, FileKnown, Overtaken, Expected
<1>. QED  BY <1>2, <1>3

LEMMA RevertStartsSettles == ASSUME AllInv, RevertStarts PROVE SettleInv'
<1>. SUFFICES ASSUME Clean' PROVE SettleInv'
  BY UncleanSettles
<1>1. /\ UNCHANGED <<buffer, version, dirty, stat, saves, disk, event, reloads>>
      /\ reading.step = "no" /\ RevertReads(dirty, reverting)
  BY DEF RevertStarts, text, flags
<1>2. dirty = FALSE
  BY <1>1 DEF Clean, AllInv, Inv, FlagInv
<1>. QED  BY <1>1, <1>2, RevertReadsSettles

LEMMA ReadFileSettles == ASSUME AllInv, ReadFile PROVE SettleInv'
<1>1. /\ UNCHANGED <<buffer, version, dirty, astray, stat, saves, disk, event, reloads, reverting>>
      /\ reading.step = "asked" /\ reading'.step # "no"
      /\ reading'.by = reading.by /\ reading'.version = reading.version
      /\ reading'.etag = reading.etag
      /\ \/ reading.stat = None /\ reading'.stat = StatOf(disk) /\ reading'.found = reading.found
         \/ reading'.found = disk /\ reading'.stat = reading.stat
  BY PartRead DEF AllInv, text, flags, history
<1>2. /\ Clean' = Clean /\ RevertToCome' = RevertToCome /\ ReloadToCome' = ReloadToCome
      /\ ReadsForIt' = ReadsForIt /\ Active("revert")' = Active("revert")
  BY <1>1 DEF Clean, RevertToCome, ReloadToCome, ReadsForIt, Active
<1>3. Fresh => Fresh'
  <2>1. StatOf(disk)' = StatOf(disk)
    BY <1>1 DEF StatOf
  <2>. QED  BY <1>1, <1>2, <2>1 DEF Fresh
<1>4. WriteBehind' /\ FileKnown' /\ Expected'
  BY <1>1, <1>2, <1>3 DEF AllInv, SettleInv, WriteBehind, FileKnown, Expected
<1>5. Overtaken'
  <2>1. disk.mtime \in Nat
    BY DEF AllInv, Inv, FileInv, Files
  <2>. QED  BY <1>1, <1>2, <2>1 DEF AllInv, SettleInv, Overtaken
<1>. QED  BY <1>4, <1>5 DEF SettleInv

\* What is to come is still to come when a reading ends.
LEMMA EndOfReading ==
  ASSUME AllInv, reading.step = "read", EndReading
  PROVE  /\ reading'.step = "no"
         /\ ReloadToCome => ReloadToCome'
         /\ RevertToCome => RevertToCome'
<1>1. /\ reading'.step = "no"
      /\ reloads' = IF reading.by = "reload" THEN reloads - 1 ELSE reloads
      /\ reverting' = IF reading.by = "revert" THEN None ELSE reverting
  BY DEF EndReading, NotReading
<1>2. ReloadToCome => ReloadToCome'
  <2>1. reloads \in Nat
    BY DEF AllInv, Inv, ReadInv
  <2>. QED  BY <1>1, <2>1 DEF ReloadToCome, Active
<1>3. RevertToCome => RevertToCome'
  BY <1>1 DEF RevertToCome, Active
<1>. QED  BY <1>1, <1>2, <1>3

\* What was read is what the model knows, or is too late for its text.
LEMMA DroppedSettles ==
  ASSUME AllInv, reading.step = "read", EndReading, Clean',
         UNCHANGED <<buffer, version, dirty, astray, saves, disk, event>>,
         \/ reading.etag = reading.stat /\ UpdateStat(reading.stat)
         \/ ChangedMeanwhile /\ UNCHANGED stat
  PROVE  SettleInv'
<1>1. Clean /\ reading'.step = "no" /\ (RevertToCome => RevertToCome')
      /\ (ReloadToCome => ReloadToCome')
  BY EndOfReading DEF Clean
<1>2. WriteBehind' /\ Overtaken'
  BY <1>1 DEF AllInv, SettleInv, WriteBehind, Overtaken, ReadsForIt
<1>3. ~Fresh
  <2>1. reading.stat # None
    BY FileNotNone DEF AllInv, Inv, ReadInv
  <2>. QED  BY <2>1 DEF Fresh, ReadsForIt, ChangedMeanwhile
<1>4. Expected'
  BY <1>1, <1>3 DEF AllInv, SettleInv, Expected
<1>5. stat'.mtime = stat.mtime /\ ~(Active("revert") /\ ReadsForIt)
  <2>1. CASE ChangedMeanwhile /\ UNCHANGED stat
    BY <2>1 DEF ChangedMeanwhile, ReadsForIt
  <2>2. CASE reading.etag = reading.stat /\ UpdateStat(reading.stat)
    <3>1. reading.stat \in Stats /\ stat \in Stats /\ None \notin Stats
      BY FileNotNone DEF AllInv, Inv, ReadInv, FileInv
    <3>2. reading.by \in {"reload", "revert"}
      BY DEF AllInv, Inv, ReadInv, Readings
    <3>3. reading.by = "reload"
      BY <2>2, <3>1, <3>2 DEF AllInv, KnownInv
    <3>4. reading.stat.mtime <= stat.mtime
      BY <2>2, <3>3 DEF AllInv, KnownInv
    <3>5. reading.stat.mtime \in Nat /\ stat.mtime \in Nat
      BY <3>1 DEF Stats
    <3>6. stat'.mtime = stat.mtime
      BY <2>2, <3>4, <3>5 DEF UpdateStat
    <3>. QED  BY <3>3, <3>6 DEF Active
  <2>. QED  BY <2>1, <2>2
<1>6. FileKnown'
  BY <1>1, <1>5 DEF AllInv, SettleInv, FileKnown
<1>. QED  BY <1>2, <1>4, <1>6 DEF SettleInv

\* What was read replaces a clean text: it is the file as it is, or something
\* more is to come.
LEMMA ReplacedSettles ==
  ASSUME AllInv, reading.step = "read", EndReading, Clean', ~ChangedMeanwhile,
         reading.found \in Files, Replace(reading.found, reading.stat),
         UNCHANGED <<saves, disk, event>>
  PROVE  SettleInv'
<1>1. /\ Clean /\ ~Busy(saves) /\ ~(reading.found.mtime < stat'.mtime)
      /\ reading'.step = "no" /\ (RevertToCome => RevertToCome')
      /\ (ReloadToCome => ReloadToCome')
  BY EndOfReading DEF Replace, Clean
<1>2. /\ reading.found.mtime \in Nat /\ stat.mtime \in Nat /\ disk.mtime \in Nat
      /\ reading.stat \in Stats /\ reading.stat.mtime \in Nat
  BY DEF AllInv, Inv, ReadInv, KnownInv, FileInv, Files, Stats
<1>3. buffer'.text = reading.found.text /\ ~(reading.found.mtime < stat.mtime) /\ stat'.mtime \in Nat
  BY <1>1, <1>2 DEF Replace, text, UpdateStat
<1>4. reading.found.mtime < disk.mtime \/ reading.found = disk
  BY FileNotNone DEF AllInv, KnownInv
<1>5. WriteBehind'
  <2>1. \A s \in Slots : saves'.ops[s].step = "idle"
    BY <1>1 DEF AllInv, Inv, SaveInv, Orderly, OpOrderly, Busy
  <2>. QED  BY <2>1 DEF WriteBehind, Behind, Writing
<1>6. FileKnown'
  BY <1>1, <1>2, <1>3, <1>4 DEF FileKnown
<1>7. Expected'
  <2>1. CASE reading.found = disk
    BY <1>3, <2>1 DEF Expected
  <2>2. CASE reading.found.mtime < disk.mtime
    <3>1. event \/ ReloadToCome \/ RevertToCome
      BY <1>1, <1>3, <2>2, FileNotNone DEF AllInv, SettleInv, Overtaken, ReadsForIt, ChangedMeanwhile
    <3>. QED  BY <1>1, <3>1 DEF Expected
  <2>. QED  BY <1>4, <2>1, <2>2
<1>. QED  BY <1>1, <1>5, <1>6, <1>7 DEF SettleInv, Overtaken, ReadsForIt

LEMMA ResolveSettles == ASSUME AllInv, Resolve PROVE SettleInv'
<1>. SUFFICES ASSUME Clean' PROVE SettleInv'
  BY UncleanSettles
<1>1. reading.step = "read" /\ EndReading /\ UNCHANGED <<saves, disk, event>>
  BY DEF Resolve
<1>2. CASE reading.etag = reading.stat
  <2>1. UpdateStat(reading.stat) /\ UNCHANGED <<buffer, version, dirty, astray>>
    BY <1>2 DEF Resolve, text, flags
  <2>. QED  BY <1>1, <1>2, <2>1, DroppedSettles
<1>3. CASE reading.etag # reading.stat /\ ChangedMeanwhile
  <2>1. UNCHANGED <<buffer, version, dirty, astray, stat>>
    BY <1>3 DEF Resolve, text, flags
  <2>. QED  BY <1>1, <1>3, <2>1, DroppedSettles
<1>4. CASE reading.etag # reading.stat /\ ~ChangedMeanwhile
  <2>1. Replace(reading.found, reading.stat) /\ reading.found \in Files
    BY <1>4 DEF Resolve, AllInv, Inv, ReadInv
  <2>. QED  BY <1>1, <1>4, <2>1, ReplacedSettles
<1>. QED  BY <1>2, <1>3, <1>4

LEMMA ReadFailsSettles == ASSUME ReadFails PROVE SettleInv'
<1>1. dirty' \/ astray'
  BY DEF ReadFails
<1>. QED  BY <1>1, UncleanSettles DEF Clean

LEMMA SettleStep == ASSUME AllInv, [Next]_vars PROVE SettleInv'
<1>1. CASE Type \/ Undo \/ Revert \/ ReadFails
  BY <1>1, EditsSettle, RevertSettles, ReadFailsSettles
<1>2. CASE Reload
  BY <1>2, FileChangedSettles, ReloadStartsSettles, RevertStartsSettles, ReadFileSettles,
     ResolveSettles DEF Reload
<1>3. CASE \E kind \in SaveKinds : Save(kind)
  BY <1>3, CallsSettle
<1>4. CASE \E size \in Sizes : OthersWrite(size)
  BY <1>4, OthersSettle
<1>5. ASSUME NEW s \in Slots, SaveSteps(s) \/ ParticipantsCancel(s) \/ WriteFails(s)
      PROVE  SettleInv'
  <2>1. CASE ParticipantsCancel(s)
    BY <2>1, AbandonSettles DEF ParticipantsCancel, Saving
  <2>2. CASE WriteFails(s)
    BY <2>2, WriteFailsSettles
  <2>3. CASE SaveSteps(s)
    BY <2>3, DelaySettles, BeginWriteSettles, CheckSettles, WriteSettles, WriteSucceedsSettles
       DEF SaveSteps
  <2>. QED  BY <1>5, <2>1, <2>2, <2>3
<1>6. CASE UNCHANGED vars
  <2>1. UNCHANGED <<buffer, version, dirty, astray, stat, disk, event, resolving, saves>>
    BY <1>6 DEF vars, text, flags, history
  <2>. QED  BY <2>1, SavingSettles DEF AllInv, NoneFallsBehind
<1>. QED  BY <1>1, <1>2, <1>3, <1>4, <1>5, <1>6 DEF Next

LEMMA InitSettles == Init => SettleInv
<1>. SUFFICES ASSUME Init PROVE SettleInv
  OBVIOUS
<1>. DEFINE first == Foreign(0, OwnSize)
<1>1. /\ buffer = [alt |-> 1, text |-> first] /\ disk = [text |-> first, mtime |-> 0]
      /\ reading.found = None
  BY DEF Init, NotReading
<1>. HIDE DEF first
<1>2. buffer.text = disk.text
  BY <1>1
<1>3. \A s \in Slots : saves.ops[s].step = "idle"
  BY DEF Init, NoSave
<1>. QED
  BY <1>1, <1>2, <1>3 DEF SettleInv, WriteBehind, FileKnown, Overtaken, Expected, Behind, Writing

\* However edits, saves, reloads, reverts and writes of other programs follow
\* each other, a clean model for which nothing is under way any more shows the
\* file as it is, unless one of the known ways to differ came up (handleSaveSuccess,
\* TextFileEditorModelManager's queue of reloads, resolveFromContent, revert).
THEOREM TextFileCleanTextIsOnDisk == Spec => []CleanTextIsOnDisk
<1>1. Init => SettleInv /\ ReadBase
  BY InitSettles DEF Init, NotReading, ReadBase
<1>2. Inv /\ KeptInv /\ KnownInv /\ (ReadBase /\ SettleInv) /\ [Next]_vars => (ReadBase /\ SettleInv)'
  BY SettleStep, BaseKept DEF AllInv
<1>3. SettleInv => CleanTextIsOnDisk
  BY DEF SettleInv, Expected, CleanTextIsOnDisk, Settled, Clean, Busy, ReloadToCome, RevertToCome,
         Active, Fresh, ReadsForIt
<1>. QED  BY <1>1, <1>2, <1>3, SavesStayOrderly, KeptAlways, KnownAlways, PTL DEF Spec
=============================================================================
