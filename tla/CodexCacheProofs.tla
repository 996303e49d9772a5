--------------------------- MODULE CodexCacheProofs ---------------------------
(***************************************************************************)
(* What is cached, or being loaded, belongs to the folder the settings     *)
(* name, and what a caller is answered is what the files of that folder    *)
(* held while the answer was made: for every folder tree, any number of    *)
(* requests and loads, and any number of changes and failures.             *)
(*                                                                         *)
(* CacheFollowsSetting is not inductive: a load that starts without a      *)
(* workspace leaves _codexRoot as it was, so one needs that _codexRoot is  *)
(* empty whenever nothing is cached (EmptyTogether).  While the service is *)
(* still to be told of other workspace folders, its folder is one that was *)
(* configured since the load began (SameFolder), and as long as there is   *)
(* such a folder, there is an event to come (NoticeDue).                   *)
(*                                                                         *)
(* AnswersCurrent needs to know where each load is in its walk: whatever   *)
(* of the folder it has not found yet is pending, or appeared behind it.   *)
(***************************************************************************)
EXTENDS CodexCache, TLAPS

EmptyTogether == entriesPromise = None => codexRoot = None

SameFolder == entriesPromise # None =>
  /\ codexRoot = loads[entriesPromise].root
  /\ codexRoot \in {configured} \cup formerly

NoticeDue == formerly # {} => notices > 0

CacheInv == TypeOK /\ EmptyTogether /\ SameFolder /\ NoticeDue

----------------------------------------------------------------------------
(* The operators. *)

LEMMA NewLoadType ==
  ASSUME configured \in Roots \cup {None}
  PROVE  /\ NewLoad \in Load /\ NewLoad.root = configured
         /\ [NewLoad EXCEPT !.stage = "done"] \in Load
         /\ [NewLoad EXCEPT !.stage = "done"].root = configured
         /\ [NewLoad EXCEPT !.stage = "unused", !.root = None] \in Load
BY DEF NewLoad, Load, Nothing, Values

LEMMA MergedType ==
  ASSUME NEW a \in {"none", "added", "updated", "deleted"},
         NEW b \in {"added", "updated", "deleted"}
  PROVE  Merged(a, b) \in {"none", "added", "updated", "deleted"}
BY DEF Merged

LEMMA HeldType ==
  ASSUME disk \in [Files -> Values], NEW r, NEW f \in Files
  PROVE  Held(r, f) \in Values
BY DEF Held, Values

LEMMA BatchType == ASSUME NEW w PROVE Batch(w) \subseteq Paths
BY DEF Batch

----------------------------------------------------------------------------
(* The initial states, and every action. *)

LEMMA CacheInit == Init => CacheInv
<1> SUFFICES ASSUME Init PROVE CacheInv
  OBVIOUS
<1>1. folders \subseteq Folders
  BY DEF Init
<1>2. loads \in [Loads -> Load]
  BY NewLoadType DEF Init
<1>3. sent \in Seq(SUBSET Paths)
  BY DEF Init
<1>4. TypeOK
  BY <1>1, <1>2, <1>3, BoundAssumption DEF Init, TypeOK, NoValues
<1> QED
  BY <1>4 DEF Init, CacheInv, EmptyTogether, SameFolder, NoticeDue

LEMMA DiskKeeps ==
  ASSUME CacheInv, NEW made, NEW kept, NEW gone,
         disk' \in [Files -> Values], folders' \subseteq Folders,
         Change, Disk(made, kept, gone)
  PROVE  CacheInv'
<1> USE DEF CacheInv
<1>1. gathered' \in [Paths -> {"none", "added", "updated", "deleted"}]
  BY MergedType DEF Disk, TypeOK
<1>2. recent' \in [Files -> SUBSET Values]
  BY HeldType DEF Disk, TypeOK, Visible
<1>3. Silent \subseteq Files
  BY DEF Silent
<1>4. /\ loads' \in [Loads -> Load]
      /\ \A l \in Loads : loads'[l].root = loads[l].root
  <2>1. CASE entriesPromise = None
    BY <2>1 DEF Disk, TypeOK
  <2>2. CASE entriesPromise # None
    <3>1. loads' = [loads EXCEPT ![entriesPromise].missed = @ \cup Silent]
      BY <2>2 DEF Disk
    <3>2. [loads[entriesPromise] EXCEPT !.missed = @ \cup Silent] \in Load
      <4>1. loads[entriesPromise] \in Load
        BY <2>2 DEF TypeOK
      <4> HIDE DEF CacheInv
      <4> QED
        BY <1>3, <4>1 DEF Load
    <3> QED
      BY <3>1, <3>2, <2>2 DEF TypeOK, Load
  <2> QED
    BY <2>1, <2>2
<1>5. acceptable' \in [Callers -> [Files -> SUBSET Values]]
  <2>1. \A r : \A f \in Files : Held(r, f)' \in Values
    BY DEF Held, Values
  <2>2. acceptable' = [cl \in Callers |->
          IF awaits[cl] = None THEN acceptable[cl]
          ELSE [f \in Files |-> acceptable[cl][f] \cup {Held(loads[awaits[cl]].root, f)'}]]
    BY DEF Disk, Witness
  <2> QED
    BY <2>1, <2>2 DEF TypeOK
<1>6. changes' \in 0..MaxChanges
  BY BoundAssumption DEF Change, TypeOK
<1>7. TypeOK'
  BY <1>1, <1>2, <1>4, <1>5, <1>6 DEF TypeOK, Disk, setting, sinceLoad
<1> QED
  BY <1>4, <1>7 DEF Disk, EmptyTogether, SameFolder, NoticeDue, TypeOK, setting, sinceLoad

LEMMA PeopleKeep == CacheInv /\ People => CacheInv'
<1> SUFFICES ASSUME CacheInv, People PROVE CacheInv'
  OBVIOUS
<1>1. ASSUME NEW f \in Files, NEW content \in Contents, WriteFile(f, content)
      PROVE  CacheInv'
  <2>1. disk' \in [Files -> Values] /\ folders' \subseteq Folders
    BY <1>1 DEF WriteFile, CacheInv, TypeOK, Values
  <2> QED
    BY <1>1, <2>1, DiskKeeps DEF WriteFile
<1>2. ASSUME NEW f \in Files, DeleteFile(f) PROVE CacheInv'
  <2>1. disk' \in [Files -> Values] /\ folders' \subseteq Folders
    BY <1>2 DEF DeleteFile, CacheInv, TypeOK, Values
  <2> QED
    BY <1>2, <2>1, DiskKeeps DEF DeleteFile
<1>3. ASSUME NEW d \in Folders, DeleteFolder(d) PROVE CacheInv'
  <2>1. disk' \in [Files -> Values] /\ folders' \subseteq Folders
    BY <1>3 DEF DeleteFolder, CacheInv, TypeOK, Values
  <2> QED
    BY <1>3, <2>1, DiskKeeps DEF DeleteFolder
<1>4. ASSUME NEW folder \in Roots \cup {None}, Reconfigure(folder) PROVE CacheInv'
  BY <1>4, BoundAssumption
     DEF Reconfigure, Invalidate, Change, CacheInv, TypeOK, EmptyTogether,
         SameFolder, NoticeDue, storage, watcher, NoValues
<1>5. ASSUME NEW folder \in Roots \cup {None}, ReplaceFolders(folder) PROVE CacheInv'
  BY <1>5, BoundAssumption
     DEF ReplaceFolders, Change, CacheInv, TypeOK, EmptyTogether, SameFolder, NoticeDue,
         storage, watcher, service
<1> QED
  BY <1>1, <1>2, <1>3, <1>4, <1>5 DEF People

LEMMA FoldersReplacedKeeps == CacheInv /\ FoldersReplaced => CacheInv'
BY DEF FoldersReplaced, Invalidate, CacheInv, TypeOK, EmptyTogether, SameFolder, NoticeDue,
       storage, watcher, NoValues

LEMMA FlushKeeps == CacheInv /\ Flush => CacheInv'
<1> SUFFICES ASSUME CacheInv, Flush PROVE CacheInv'
  OBVIOUS
<1> USE DEF Flush, storage, service, history
<1>1. sent' \in Seq(SUBSET Paths)
  BY BatchType DEF CacheInv, TypeOK
<1>2. gathered' \in [Paths -> {"none", "added", "updated", "deleted"}]
  OBVIOUS
<1> QED
  BY <1>1, <1>2 DEF CacheInv, TypeOK, EmptyTogether, SameFolder, NoticeDue, setting,
                    sinceLoad

LEMMA HearKeeps == CacheInv /\ Hear => CacheInv'
<1> SUFFICES ASSUME CacheInv, Hear PROVE CacheInv'
  OBVIOUS
<1> USE DEF Hear, Invalidate, storage
<1>1. sent' \in Seq(SUBSET Paths)
  BY DEF CacheInv, TypeOK
<1>2. recent' \in [Files -> SUBSET Values]
  BY DEF CacheInv, TypeOK, NoValues, setting, sinceLoad
<1> QED
  BY <1>1, <1>2 DEF CacheInv, TypeOK, EmptyTogether, SameFolder, NoticeDue, setting,
                    sinceLoad

LEMMA AskKeeps == ASSUME CacheInv, NEW cl \in Callers, Ask(cl) PROVE CacheInv'
<1> USE DEF Ask, storage, watcher, service
<1>1. acceptable' \in [Callers -> [Files -> SUBSET Values]]
  <2>1. Acceptable \in [Files -> SUBSET Values]
    BY HeldType DEF Acceptable, Visible, CacheInv, TypeOK
  <2> QED
    BY <2>1 DEF CacheInv, TypeOK
<1>2. CASE entriesPromise # None
  BY <1>1, <1>2 DEF CacheInv, TypeOK, EmptyTogether, SameFolder, NoticeDue, setting,
                    sinceLoad
<1>3. CASE entriesPromise = None
  <2>1. PICK l \in Loads : Start(l) /\ awaits' = [awaits EXCEPT ![cl] = l]
    BY <1>3
  <2>2. /\ loads' \in [Loads -> Load] /\ loads'[l].root = configured
    BY <2>1, NewLoadType DEF Start, CacheInv, TypeOK
  <2>3. codexRoot' = configured
    BY <1>3, <2>1 DEF Start, CacheInv, EmptyTogether
  <2>4. TypeOK'
    BY <1>1, <2>1, <2>2, <2>3 DEF Start, CacheInv, TypeOK, NoValues, setting, sinceLoad
  <2> QED
    BY <2>1, <2>2, <2>3, <2>4, LoadAssumption
       DEF Start, CacheInv, EmptyTogether, SameFolder, NoticeDue, setting, sinceLoad
<1> QED
  BY <1>2, <1>3

LEMMA AnswerKeeps == ASSUME CacheInv, NEW cl \in Callers, Answer(cl) PROVE CacheInv'
BY DEF Answer, NoValues, CacheInv, TypeOK, EmptyTogether, SameFolder, NoticeDue, storage,
       watcher, service, setting, sinceLoad

LEMMA GoesKeeps ==
  ASSUME CacheInv, NEW l \in Loads, NEW state \in Load, state.root = loads[l].root,
         failures' \in 0..MaxFailures, Goes(l, state)
  PROVE  CacheInv'
<1> DEFINE stage == IF state.children # {} THEN "read"
                    ELSE IF state.queue # {} THEN "list" ELSE "done"
           next == [state EXCEPT !.stage = stage]
<1>1. next \in Load /\ next.root = loads[l].root
  BY DEF Load
<1>2. loads' = [loads EXCEPT ![l] = next]
  BY DEF Goes
<1> HIDE DEF next
<1>3. loads' \in [Loads -> Load] /\ \A k \in Loads : loads'[k].root = loads[k].root
  BY <1>1, <1>2 DEF CacheInv, TypeOK
<1> QED
  BY <1>3 DEF Goes, CacheInv, TypeOK, EmptyTogether, SameFolder, NoticeDue, storage,
              watcher, history, setting, sinceLoad

LEMMA StepKeeps == ASSUME CacheInv, NEW l \in Loads, Step(l) PROVE CacheInv'
<1>1. loads[l] \in Load
  BY DEF CacheInv, TypeOK
<1>2. Fail => failures' \in 0..MaxFailures
  BY BoundAssumption DEF Fail, CacheInv, TypeOK
<1>3. UNCHANGED failures => failures' \in 0..MaxFailures
  BY DEF CacheInv, TypeOK
<1>4. CASE Exists(l)
  <2> DEFINE some == [loads[l] EXCEPT !.queue = {loads[l].root}]
             lost == [loads[l] EXCEPT !.missed = @ \cup (Files \cap Below[loads[l].root])]
  <2>1. loads[l].root \in folders => some \in Load /\ some.root = loads[l].root
    BY <1>1 DEF Load, CacheInv, TypeOK
  <2>2. lost \in Load /\ lost.root = loads[l].root
    BY <1>1 DEF Load
  <2>3. CASE Fail /\ Goes(l, lost)
    BY <2>2, <2>3, <1>2, GoesKeeps
  <2>4. CASE Goes(l, IF loads[l].root \in folders THEN some ELSE loads[l]) /\ UNCHANGED failures
    <3> DEFINE state == IF loads[l].root \in folders THEN some ELSE loads[l]
    <3>1. state \in Load /\ state.root = loads[l].root
      BY <1>1, <2>1
    <3> HIDE DEF state
    <3> QED
      BY <3>1, <2>4, <1>3, GoesKeeps DEF state
  <2> QED
    BY <1>4, <2>3, <2>4 DEF Exists
<1>5. CASE List(l)
  <2>1. PICK d \in loads[l].queue :
          LET rest == [loads[l] EXCEPT !.queue = @ \ {d}]
          IN \/ /\ d \in folders
                /\ Goes(l, [rest EXCEPT
                     !.queue = @ \cup {s \in folders : In[s] = d},
                     !.children = {f \in Files : In[f] = d /\ disk[f] # Absent}])
                /\ UNCHANGED failures
             \/ d \notin folders /\ Goes(l, rest) /\ UNCHANGED failures
             \/ Fail /\ Goes(l, [rest EXCEPT !.missed = @ \cup (Files \cap Below[d])])
    BY <1>5 DEF List
  <2> DEFINE rest == [loads[l] EXCEPT !.queue = @ \ {d}]
             listed == [rest EXCEPT !.queue = @ \cup {s \in folders : In[s] = d},
                          !.children = {f \in Files : In[f] = d /\ disk[f] # Absent}]
             lost == [rest EXCEPT !.missed = @ \cup (Files \cap Below[d])]
  <2>2. rest \in Load /\ rest.root = loads[l].root
    BY <1>1 DEF Load
  <2>3. listed \in Load /\ listed.root = loads[l].root
    BY <1>1 DEF Load, CacheInv, TypeOK
  <2>4. lost \in Load /\ lost.root = loads[l].root
    BY <1>1 DEF Load
  <2>5. \/ Goes(l, listed) /\ UNCHANGED failures
        \/ Goes(l, rest) /\ UNCHANGED failures
        \/ Goes(l, lost) /\ Fail
    BY <2>1
  <2> HIDE DEF rest, listed, lost
  <2> QED
    BY <2>2, <2>3, <2>4, <2>5, <1>2, <1>3, GoesKeeps
<1>6. CASE Read(l)
  <2>1. PICK f \in loads[l].children :
          LET rest == [loads[l] EXCEPT !.children = @ \ {f}]
          IN \/ Goes(l, [rest EXCEPT !.found[f] = disk[f]]) /\ UNCHANGED failures
             \/ Fail /\ Goes(l, [rest EXCEPT !.missed = @ \cup {f}])
    BY <1>6 DEF Read
  <2> DEFINE rest == [loads[l] EXCEPT !.children = @ \ {f}]
             read == [rest EXCEPT !.found[f] = disk[f]]
             lost == [rest EXCEPT !.missed = @ \cup {f}]
  <2>2. f \in Files
    BY <1>1 DEF Load
  <2>3. read \in Load /\ read.root = loads[l].root
    <3>1. [loads[l].found EXCEPT ![f] = disk[f]] \in [Files -> Values]
      BY <1>1, <2>2 DEF Load, CacheInv, TypeOK
    <3>2. read = [rest EXCEPT !.found = [rest.found EXCEPT ![f] = disk[f]]]
      OBVIOUS
    <3> QED
      BY <1>1, <3>1, <3>2 DEF Load
  <2>4. lost \in Load /\ lost.root = loads[l].root
    BY <1>1, <2>2 DEF Load
  <2>5. \/ Goes(l, read) /\ UNCHANGED failures
        \/ Goes(l, lost) /\ Fail
    BY <2>1
  <2> HIDE DEF rest, read, lost
  <2> QED
    BY <2>3, <2>4, <2>5, <1>2, <1>3, GoesKeeps
<1> QED
  BY <1>4, <1>5, <1>6 DEF Step

----------------------------------------------------------------------------

LEMMA CacheInductive == Spec => []CacheInv
<1>1. CacheInv /\ UNCHANGED vars => CacheInv'
  BY DEF CacheInv, TypeOK, EmptyTogether, SameFolder, NoticeDue, vars, storage, watcher,
         service, history, setting, sinceLoad
<1>2. CacheInv /\ Next => CacheInv'
  BY PeopleKeep, FlushKeeps, HearKeeps, FoldersReplacedKeeps, AskKeeps, AnswerKeeps, StepKeeps DEF Next
<1> QED
  BY <1>1, <1>2, CacheInit, PTL DEF Spec

\* Every variable keeps its type, and what a load has still to read are files.
THEOREM CacheTypes == Spec => []TypeOK
<1>1. CacheInv => TypeOK
  BY DEF CacheInv
<1> QED
  BY <1>1, CacheInductive, PTL

\* The listener of NorrisWriterCodexService tests changes against the folder
\* that is cached, and that is the one the settings and the workspace name,
\* unless the service is still to be told of other workspace folders.
THEOREM CacheOfConfiguredFolder == Spec => []CacheFollowsSetting
<1>1. CacheInv => CacheFollowsSetting
  BY DEF CacheInv, SameFolder, NoticeDue, CacheFollowsSetting
<1> QED
  BY <1>1, CacheInductive, PTL

----------------------------------------------------------------------------
(* What callers are answered.  A load's walk has yet to come to some files *)
(* (Pending); of every other file it holds what the file held once since   *)
(* the caller asked, or since the load began.  Only of the latter can the  *)
(* change still be on its way to the service: were the service told of it, *)
(* the load would not be the current one any more.                         *)

FilesInFolders == \A f \in Files : disk[f] # Absent =>
  \A d \in Folders : f \in Below[d] => d \in folders

\* Where in its walk a load is.
WalkOrder(load) ==
  /\ load.stage # "read" => load.children = {}
  /\ load.stage \in {"exists", "done"} => load.queue = {}
  /\ load.stage = "exists" \/ load.children # {} \/ load.queue # {} => load.root # None
  /\ load.root # None => /\ load.children \subseteq Below[load.root]
                         /\ \A d \in load.queue : Below[d] \subseteq Below[load.root]

Pending(load, f) == \/ load.stage = "exists" /\ f \in Below[load.root]
                    \/ f \in load.children
                    \/ \E d \in load.queue : f \in Below[d]

Shows(load, f, values) ==
  load.found[f] \in values \/ (Pending(load, f) /\ load.found[f] = Absent)

Served(cl) == awaits[cl] # None =>
  /\ \A f \in Files : Held(loads[awaits[cl]].root, f) \in acceptable[cl][f]
  /\ \A f \in Files \ loads[awaits[cl]].missed :
       Shows(loads[awaits[cl]], f, acceptable[cl][f])

CurrentShows == entriesPromise # None =>
  \A f \in Files \ loads[entriesPromise].missed :
    /\ Shows(loads[entriesPromise], f,
             {Held(loads[entriesPromise].root, f)} \cup recent[f])
    /\ recent[f] # {} => Audible(f)

AnswersInv == /\ FilesInFolders
              /\ \A l \in Loads : WalkOrder(loads[l])
              /\ \A cl \in Callers : Served(cl)
              /\ CurrentShows

\* One step of a load's walk: it misses more files, or gets what is there now.
Advance(old, new) ==
  /\ WalkOrder(new) /\ new.root = old.root /\ old.missed \subseteq new.missed
  /\ \A f \in Files \ new.missed : \A values :
       Held(old.root, f) \in values /\ Shows(old, f, values) => Shows(new, f, values)

----------------------------------------------------------------------------
(* The walk. *)

\* "Goes" brings the state of the walk in order.
LEMMA GoesInOrder ==
  ASSUME NEW old \in Load, NEW state \in Load, state.root = old.root,
         state.root # None \/ (state.children = {} /\ state.queue = {}),
         state.root # None => /\ state.children \subseteq Below[state.root]
                              /\ \A d \in state.queue : Below[d] \subseteq Below[state.root],
         old.missed \subseteq state.missed,
         NEW next, next = [state EXCEPT !.stage = IF state.children # {} THEN "read"
                                                  ELSE IF state.queue # {} THEN "list" ELSE "done"],
         \A f \in Files \ state.missed : \A values :
           Held(old.root, f) \in values /\ Shows(old, f, values) =>
             \/ state.found[f] \in values
             \/ /\ state.found[f] = Absent
                /\ f \in state.children \/ \E d \in state.queue : f \in Below[d]
  PROVE  Advance(old, next)
<1>1. /\ next.root = state.root /\ next.children = state.children /\ next.queue = state.queue
      /\ next.found = state.found /\ next.missed = state.missed
      /\ next.stage = IF state.children # {} THEN "read"
                      ELSE IF state.queue # {} THEN "list" ELSE "done"
  BY DEF Load
<1>2. WalkOrder(next)
  BY <1>1 DEF WalkOrder
<1>3. ASSUME NEW f \in Files \ next.missed, NEW values,
             Held(old.root, f) \in values, Shows(old, f, values)
      PROVE  Shows(next, f, values)
  BY <1>1, <1>3 DEF Shows, Pending
<1>. QED  BY <1>1, <1>2, <1>3 DEF Advance

\* What is not on disk, and what the folder does not hold, is shown as absent.
LEMMA HeldAbsent ==
  ASSUME NEW r, NEW f \in Files, r = None \/ f \notin Below[r] \/ disk[f] = Absent
  PROVE  Held(r, f) = Absent
BY DEF Held

LEMMA ExistsAdvances ==
  ASSUME CacheInv, AnswersInv, NEW l \in Loads, Exists(l)
  PROVE  Advance(loads[l], loads'[l])
<1>. DEFINE old == loads[l]
<1>1. old \in Load /\ loads \in [Loads -> Load]
  BY DEF CacheInv, TypeOK
<1>2. /\ old.stage = "exists" /\ old.root \in Roots /\ old.queue = {} /\ old.children = {}
      /\ old.root # None
  BY <1>1 DEF Exists, AnswersInv, WalkOrder, Load
<1>3. old.root \in Folders /\ old.root \in Paths
  BY <1>2, RootAssumption DEF Paths
<1>4. CASE Goes(l, [old EXCEPT !.missed = @ \cup (Files \cap Below[old.root])])
  <2>. DEFINE lost == [old EXCEPT !.missed = @ \cup (Files \cap Below[old.root])]
              next == [lost EXCEPT !.stage = IF lost.children # {} THEN "read"
                                             ELSE IF lost.queue # {} THEN "list" ELSE "done"]
  <2>1. /\ lost \in Load /\ lost.root = old.root /\ lost.children = {} /\ lost.queue = {}
        /\ lost.missed = old.missed \cup (Files \cap Below[old.root])
        /\ lost.found = old.found
    BY <1>1, <1>2 DEF Load
  <2>2. loads'[l] = next
    BY <1>1, <1>4 DEF Goes
  <2>3. ASSUME NEW f \in Files \ lost.missed, NEW values,
               Held(old.root, f) \in values, Shows(old, f, values)
        PROVE  lost.found[f] \in values
    <3>1. f \notin Below[old.root]
      BY <2>1
    <3>. QED  BY <1>2, <2>1, <2>3, <3>1 DEF Shows, Pending
  <2>. HIDE DEF lost, next
  <2>4. next = [lost EXCEPT !.stage = IF lost.children # {} THEN "read"
                                      ELSE IF lost.queue # {} THEN "list" ELSE "done"]
    BY DEF next
  <2>. QED
    BY <1>1, <2>1, <2>2, <2>3, <2>4, GoesInOrder
<1>5. CASE Goes(l, IF old.root \in folders THEN [old EXCEPT !.queue = {old.root}] ELSE old)
  <2>. DEFINE state == IF old.root \in folders THEN [old EXCEPT !.queue = {old.root}] ELSE old
              next == [state EXCEPT !.stage = IF state.children # {} THEN "read"
                                              ELSE IF state.queue # {} THEN "list" ELSE "done"]
  <2>1. /\ state \in Load /\ state.root = old.root /\ state.children = {}
        /\ state.queue = IF old.root \in folders THEN {old.root} ELSE {}
        /\ state.missed = old.missed /\ state.found = old.found
    BY <1>1, <1>2, <1>3 DEF Load
  <2>2. loads'[l] = next
    BY <1>1, <1>5 DEF Goes
  <2>3. ASSUME NEW f \in Files \ state.missed, NEW values,
               Held(old.root, f) \in values, Shows(old, f, values)
        PROVE  \/ state.found[f] \in values
               \/ state.found[f] = Absent /\ \E d \in state.queue : f \in Below[d]
    <3>1. CASE old.found[f] \in values
      BY <2>1, <3>1
    <3>2. CASE f \in Below[old.root] /\ old.found[f] = Absent
      <4>1. CASE old.root \in folders
        BY <2>1, <3>2, <4>1
      <4>2. CASE old.root \notin folders
        <5>1. disk[f] = Absent
          BY <1>3, <3>2, <4>2 DEF AnswersInv, FilesInFolders
        <5>. QED  BY <2>1, <2>3, <3>2, <5>1, HeldAbsent
      <4>. QED  BY <4>1, <4>2
    <3>. QED  BY <1>2, <2>3, <3>1, <3>2 DEF Shows, Pending
  <2>. HIDE DEF state, next
  <2>4. next = [state EXCEPT !.stage = IF state.children # {} THEN "read"
                                       ELSE IF state.queue # {} THEN "list" ELSE "done"]
    BY DEF next
  <2>. QED
    BY <1>1, <1>2, <2>1, <2>2, <2>3, <2>4, GoesInOrder
<1>. QED  BY <1>4, <1>5 DEF Exists

LEMMA ListAdvances ==
  ASSUME CacheInv, AnswersInv, NEW l \in Loads, List(l)
  PROVE  Advance(loads[l], loads'[l])
<1>. DEFINE old == loads[l]
<1>1. old \in Load /\ loads \in [Loads -> Load]
  BY DEF CacheInv, TypeOK
<1>2. PICK d \in old.queue :
        LET rest == [old EXCEPT !.queue = @ \ {d}]
        IN \/ /\ d \in folders
              /\ Goes(l, [rest EXCEPT
                   !.queue = @ \cup {s \in folders : In[s] = d},
                   !.children = {f \in Files : In[f] = d /\ disk[f] # Absent}])
           \/ d \notin folders /\ Goes(l, rest)
           \/ Goes(l, [rest EXCEPT !.missed = @ \cup (Files \cap Below[d])])
  BY DEF List
<1>3. /\ old.stage = "list" /\ old.children = {} /\ old.root # None
      /\ \A s \in old.queue : Below[s] \subseteq Below[old.root]
      /\ d \in Folders /\ d \in Paths
  BY <1>1, <1>2 DEF List, AnswersInv, WalkOrder, Load, Paths
<1>. DEFINE rest == [old EXCEPT !.queue = @ \ {d}]
            listed == [rest EXCEPT !.queue = @ \cup {s \in folders : In[s] = d},
                                   !.children = {f \in Files : In[f] = d /\ disk[f] # Absent}]
            lost == [rest EXCEPT !.missed = @ \cup (Files \cap Below[d])]
<1>4. CASE Goes(l, listed)
  <2>. DEFINE next == [listed EXCEPT !.stage = IF listed.children # {} THEN "read"
                                               ELSE IF listed.queue # {} THEN "list" ELSE "done"]
  <2>1. /\ listed \in Load /\ listed.root = old.root
        /\ listed.children = {f \in Files : In[f] = d /\ disk[f] # Absent}
        /\ listed.queue = (old.queue \ {d}) \cup {s \in folders : In[s] = d}
        /\ listed.missed = old.missed /\ listed.found = old.found
    BY <1>1, <1>3 DEF Load, CacheInv, TypeOK
  <2>2. loads'[l] = next
    BY <1>1, <1>4 DEF Goes
  <2>3. ASSUME NEW f \in Files \ listed.missed, NEW values,
               Held(old.root, f) \in values, Shows(old, f, values)
        PROVE  \/ listed.found[f] \in values
               \/ /\ listed.found[f] = Absent
                  /\ f \in listed.children \/ \E s \in listed.queue : f \in Below[s]
    <3>1. CASE old.found[f] \in values \/ \E s \in old.queue \ {d} : f \in Below[s] /\ old.found[f] = Absent
      BY <2>1, <3>1
    <3>2. CASE f \in Below[d] /\ old.found[f] = Absent
      <4>1. f # d
        BY <1>3, PathAssumption
      <4>2. PICK s \in Paths : In[s] = d /\ f \in Below[s]
        BY <1>3, <3>2, <4>1, TreeAssumption
      <4>3. CASE disk[f] = Absent
        BY <2>1, <2>3, <3>2, <4>3, HeldAbsent
      <4>4. CASE disk[f] # Absent /\ s \in Folders
        <5>1. s \in folders
          BY <4>2, <4>4 DEF AnswersInv, FilesInFolders
        <5>. QED  BY <2>1, <3>2, <4>2, <5>1
      <4>5. CASE disk[f] # Absent /\ s \in Files
        <5>1. s = f
          BY <4>2, <4>5, PathAssumption
        <5>. QED  BY <2>1, <3>2, <4>2, <4>5, <5>1
      <4>. QED  BY <4>3, <4>4, <4>5 DEF Paths
    <3>. QED  BY <1>3, <2>3, <3>1, <3>2 DEF Shows, Pending
  <2>4. /\ listed.children \subseteq Below[old.root]
        /\ \A s \in listed.queue : Below[s] \subseteq Below[old.root]
    <3>1. ASSUME NEW s \in Paths, In[s] = d PROVE s \in Below[s] /\ Below[s] \subseteq Below[d]
      <4>1. d # None
        BY <1>3, PathAssumption
      <4>. QED  BY <3>1, <4>1, <1>3, TreeAssumption, PathAssumption
    <3>2. folders \subseteq Paths
      BY DEF CacheInv, TypeOK, Paths
    <3>. QED  BY <1>2, <1>3, <2>1, <3>1, <3>2 DEF Paths
  <2>. HIDE DEF rest, listed, next
  <2>5. next = [listed EXCEPT !.stage = IF listed.children # {} THEN "read"
                                        ELSE IF listed.queue # {} THEN "list" ELSE "done"]
    BY DEF next
  <2>. QED
    BY <1>1, <1>3, <2>1, <2>2, <2>3, <2>4, <2>5, GoesInOrder
<1>5. CASE d \notin folders /\ Goes(l, rest)
  <2>. DEFINE next == [rest EXCEPT !.stage = IF rest.children # {} THEN "read"
                                             ELSE IF rest.queue # {} THEN "list" ELSE "done"]
  <2>1. /\ rest \in Load /\ rest.root = old.root /\ rest.children = {}
        /\ rest.queue = old.queue \ {d} /\ rest.missed = old.missed /\ rest.found = old.found
    BY <1>1, <1>3 DEF Load
  <2>2. loads'[l] = next
    BY <1>1, <1>5 DEF Goes
  <2>3. ASSUME NEW f \in Files \ rest.missed, NEW values,
               Held(old.root, f) \in values, Shows(old, f, values)
        PROVE  \/ rest.found[f] \in values
               \/ rest.found[f] = Absent /\ \E s \in rest.queue : f \in Below[s]
    <3>1. CASE old.found[f] \in values \/ \E s \in old.queue \ {d} : f \in Below[s] /\ old.found[f] = Absent
      BY <2>1, <3>1
    <3>2. CASE f \in Below[d] /\ old.found[f] = Absent
      <4>1. disk[f] = Absent
        BY <1>3, <1>5, <3>2 DEF AnswersInv, FilesInFolders
      <4>. QED  BY <2>1, <2>3, <3>2, <4>1, HeldAbsent
    <3>. QED  BY <1>3, <2>3, <3>1, <3>2 DEF Shows, Pending
  <2>. HIDE DEF rest, next
  <2>4. next = [rest EXCEPT !.stage = IF rest.children # {} THEN "read"
                                      ELSE IF rest.queue # {} THEN "list" ELSE "done"]
    BY DEF next
  <2>. QED
    BY <1>1, <1>3, <2>1, <2>2, <2>3, <2>4, GoesInOrder
<1>6. CASE Goes(l, lost)
  <2>. DEFINE next == [lost EXCEPT !.stage = IF lost.children # {} THEN "read"
                                             ELSE IF lost.queue # {} THEN "list" ELSE "done"]
  <2>1. /\ lost \in Load /\ lost.root = old.root /\ lost.children = {}
        /\ lost.queue = old.queue \ {d} /\ lost.found = old.found
        /\ lost.missed = old.missed \cup (Files \cap Below[d])
    BY <1>1, <1>3 DEF Load
  <2>2. loads'[l] = next
    BY <1>1, <1>6 DEF Goes
  <2>3. ASSUME NEW f \in Files \ lost.missed, NEW values,
               Held(old.root, f) \in values, Shows(old, f, values)
        PROVE  \/ lost.found[f] \in values
               \/ lost.found[f] = Absent /\ \E s \in lost.queue : f \in Below[s]
    BY <1>3, <2>1, <2>3 DEF Shows, Pending
  <2>. HIDE DEF rest, lost, next
  <2>4. next = [lost EXCEPT !.stage = IF lost.children # {} THEN "read"
                                      ELSE IF lost.queue # {} THEN "list" ELSE "done"]
    BY DEF next
  <2>. QED
    BY <1>1, <1>3, <2>1, <2>2, <2>3, <2>4, GoesInOrder
<1>. QED  BY <1>2, <1>4, <1>5, <1>6

LEMMA ReadAdvances ==
  ASSUME CacheInv, AnswersInv, NEW l \in Loads, Read(l)
  PROVE  Advance(loads[l], loads'[l])
<1>. DEFINE old == loads[l]
<1>1. old \in Load /\ loads \in [Loads -> Load]
  BY DEF CacheInv, TypeOK
<1>2. PICK g \in old.children :
        LET rest == [old EXCEPT !.children = @ \ {g}]
        IN \/ Goes(l, [rest EXCEPT !.found[g] = disk[g]])
           \/ Goes(l, [rest EXCEPT !.missed = @ \cup {g}])
  BY DEF Read
<1>3. /\ old.stage = "read" /\ old.root # None
      /\ old.children \subseteq Below[old.root]
      /\ \A d \in old.queue : Below[d] \subseteq Below[old.root]
      /\ g \in Files
  BY <1>1, <1>2 DEF Read, AnswersInv, WalkOrder, Load
<1>. DEFINE rest == [old EXCEPT !.children = @ \ {g}]
            read == [rest EXCEPT !.found[g] = disk[g]]
            lost == [rest EXCEPT !.missed = @ \cup {g}]
<1>4. CASE Goes(l, read)
  <2>. DEFINE next == [read EXCEPT !.stage = IF read.children # {} THEN "read"
                                             ELSE IF read.queue # {} THEN "list" ELSE "done"]
  <2>1. [old.found EXCEPT ![g] = disk[g]] \in [Files -> Values]
    BY <1>1, <1>3 DEF Load, CacheInv, TypeOK
  <2>2. /\ read \in Load /\ read.root = old.root /\ read.children = old.children \ {g}
        /\ read.queue = old.queue /\ read.missed = old.missed
        /\ read.found = [old.found EXCEPT ![g] = disk[g]]
    <3>1. read = [rest EXCEPT !.found = [rest.found EXCEPT ![g] = disk[g]]]
      OBVIOUS
    <3>. QED  BY <1>1, <2>1, <3>1 DEF Load
  <2>3. loads'[l] = next
    BY <1>1, <1>4 DEF Goes
  <2>4. Held(old.root, g) = disk[g]
    BY <1>2, <1>3 DEF Held
  <2>5. old.found \in [Files -> Values]
    BY <1>1 DEF Load
  <2>6. read.found[g] = disk[g] /\ \A f \in Files : f # g => read.found[f] = old.found[f]
    BY <1>3, <2>2, <2>5
  <2>7. ASSUME NEW f \in Files \ read.missed, NEW values,
               Held(old.root, f) \in values, Shows(old, f, values)
        PROVE  \/ read.found[f] \in values
               \/ /\ read.found[f] = Absent
                  /\ f \in read.children \/ \E d \in read.queue : f \in Below[d]
    <3>1. CASE f = g
      BY <2>4, <2>6, <2>7, <3>1
    <3>2. CASE f # g
      BY <1>3, <2>2, <2>6, <2>7, <3>2 DEF Shows, Pending
    <3>. QED  BY <3>1, <3>2
  <2>. HIDE DEF rest, read, next
  <2>8. next = [read EXCEPT !.stage = IF read.children # {} THEN "read"
                                      ELSE IF read.queue # {} THEN "list" ELSE "done"]
    BY DEF next
  <2>9. /\ read.root # None /\ read.children \subseteq Below[read.root]
        /\ \A d \in read.queue : Below[d] \subseteq Below[read.root]
        /\ old.missed \subseteq read.missed
    BY <1>3, <2>2
  <2>10. old \in Load /\ read \in Load /\ read.root = old.root
    BY <1>1, <2>2
  <2>11. Advance(old, next)
    BY SMTT(30), <2>7, <2>8, <2>9, <2>10, GoesInOrder
  <2>. QED  BY <2>3, <2>11
<1>5. CASE Goes(l, lost)
  <2>. DEFINE next == [lost EXCEPT !.stage = IF lost.children # {} THEN "read"
                                             ELSE IF lost.queue # {} THEN "list" ELSE "done"]
  <2>1. /\ lost \in Load /\ lost.root = old.root /\ lost.children = old.children \ {g}
        /\ lost.queue = old.queue /\ lost.found = old.found
        /\ lost.missed = old.missed \cup {g}
    BY <1>1, <1>3 DEF Load
  <2>2. loads'[l] = next
    BY <1>1, <1>5 DEF Goes
  <2>3. ASSUME NEW f \in Files \ lost.missed, NEW values,
               Held(old.root, f) \in values, Shows(old, f, values)
        PROVE  \/ lost.found[f] \in values
               \/ /\ lost.found[f] = Absent
                  /\ f \in lost.children \/ \E d \in lost.queue : f \in Below[d]
    BY <1>3, <2>1, <2>3 DEF Shows, Pending
  <2>. HIDE DEF rest, lost, next
  <2>4. next = [lost EXCEPT !.stage = IF lost.children # {} THEN "read"
                                      ELSE IF lost.queue # {} THEN "list" ELSE "done"]
    BY DEF next
  <2>. QED
    BY <1>1, <1>3, <2>1, <2>2, <2>3, <2>4, GoesInOrder
<1>. QED  BY <1>2, <1>4, <1>5

\* A step of a walk changes nothing but its load.
LEMMA StepAnswers ==
  ASSUME CacheInv, AnswersInv, NEW l \in Loads, Step(l)
  PROVE  AnswersInv'
<1>1. Advance(loads[l], loads'[l])
  BY ExistsAdvances, ListAdvances, ReadAdvances DEF Step
<1>2. /\ UNCHANGED <<storage, watcher, setting, codexRoot, entriesPromise, awaits, history>>
      /\ \A k \in Loads \ {l} : loads'[k] = loads[k]
  BY DEF Step, Exists, List, Read, Goes, CacheInv, TypeOK
<1>3. FilesInFolders'
  BY <1>2 DEF AnswersInv, FilesInFolders, storage
<1>4. \A k \in Loads : WalkOrder(loads[k])'
  <2>. SUFFICES ASSUME NEW k \in Loads PROVE WalkOrder(loads'[k])
    BY DEF WalkOrder
  <2>. QED  BY <1>1, <1>2 DEF Advance, AnswersInv
<1>5. \A r, f : Held(r, f)' = Held(r, f)
  BY <1>2 DEF Held, storage
<1>6. \A k \in Loads : /\ loads'[k].root = loads[k].root
                       /\ loads[k].missed \subseteq loads'[k].missed
                       /\ \A f \in Files \ loads'[k].missed : \A values :
                            Held(loads[k].root, f) \in values /\ Shows(loads[k], f, values)
                            => Shows(loads'[k], f, values)
  BY <1>1, <1>2 DEF Advance
<1>7. \A k, f, values : Shows(loads[k], f, values)' <=> Shows(loads'[k], f, values')
  BY DEF Shows, Pending
<1>8. ASSUME NEW cl \in Callers PROVE Served(cl)'
  <2>1. CASE awaits[cl] = None
    BY <1>2, <2>1 DEF Served
  <2>2. CASE awaits[cl] # None
    <3>0. PICK k \in Loads : k = awaits[cl]
      BY <2>2 DEF CacheInv, TypeOK
    <3>1. awaits'[cl] = k /\ awaits[cl] = k /\ acceptable' = acceptable
      BY <1>2, <2>2, <3>0 DEF CacheInv, TypeOK, history
    <3>2. /\ \A f \in Files : Held(loads[k].root, f) \in acceptable[cl][f]
          /\ \A f \in Files \ loads[k].missed : Shows(loads[k], f, acceptable[cl][f])
      BY <2>2, <3>0 DEF AnswersInv, Served
    <3>3. \A f \in Files \ loads'[k].missed : Shows(loads'[k], f, acceptable'[cl][f])
      BY <1>6, <3>1, <3>2
    <3>. QED  BY <1>5, <1>6, <3>1, <3>2, <3>3 DEF Served, Shows, Pending
  <2>. QED  BY <2>1, <2>2
<1>9. CurrentShows'
  <2>1. CASE entriesPromise = None
    BY <1>2, <2>1 DEF CurrentShows
  <2>2. CASE entriesPromise # None
    <3>0. PICK k \in Loads : k = entriesPromise
      BY <2>2 DEF CacheInv, TypeOK
    <3>1. /\ entriesPromise' = k /\ entriesPromise = k /\ recent' = recent
          /\ codexRoot' = codexRoot /\ loads'[k].root = loads[k].root
      BY <1>2, <1>6, <3>0 DEF history, sinceLoad
    <3>2. \A f \in Files : Audible(f)' = Audible(f)
      BY <1>2 DEF Audible, Announced, Concerns, Batch, watcher
    <3>3. \A f \in Files \ loads[k].missed :
            /\ Shows(loads[k], f, {Held(loads[k].root, f)} \cup recent[f])
            /\ recent[f] # {} => Audible(f)
      BY <2>2, <3>0 DEF AnswersInv, CurrentShows
    <3>4. \A f \in Files \ loads'[k].missed :
            Shows(loads'[k], f, {Held(loads[k].root, f)} \cup recent[f])
      BY <1>6, <3>3
    <3>5. \A f \in Files : Held(loads[k].root, f)' = Held(loads[k].root, f)
      BY <1>5, <3>1 DEF Held
    <3>6. \A f \in Files \ loads'[k].missed :
            /\ Shows(loads'[k], f, {Held(loads[k].root, f)'} \cup recent'[f])
            /\ recent'[f] # {} => Audible(f)'
      BY <1>6, <3>1, <3>2, <3>3, <3>4, <3>5
    <3>. QED  BY <3>1, <3>6 DEF CurrentShows, Shows, Pending, Audible
  <2>. QED  BY <2>1, <2>2
<1>. QED  BY <1>3, <1>4, <1>8, <1>9 DEF AnswersInv

----------------------------------------------------------------------------
(* Everything else. *)

LEMMA AnswersInit == Init => AnswersInv
<1>. SUFFICES ASSUME Init PROVE AnswersInv
  OBVIOUS
<1>1. FilesInFolders
  BY DEF Init, FilesInFolders
<1>2. ASSUME NEW l \in Loads PROVE WalkOrder(loads[l])
  BY DEF Init, WalkOrder, NewLoad
<1>. QED  BY <1>1, <1>2, LoadAssumption DEF Init, AnswersInv, Served, CurrentShows

\* What is on disk changes: every load may find what is there now.
LEMMA DiskAnswers ==
  ASSUME CacheInv, AnswersInv, NEW made, NEW kept, NEW gone, disk' \in [Files -> Values],
         FilesInFolders', Disk(made, kept, gone)
  PROVE  AnswersInv'
<1>1. /\ UNCHANGED <<codexRoot, entriesPromise, awaits>>
      /\ \A f \in Files : disk'[f] # disk[f] /\ entriesPromise # None =>
           recent'[f] = recent[f] \cup {Held(loads[entriesPromise].root, f)}
      /\ \A f \in Files : disk'[f] = disk[f] => recent'[f] = recent[f]
  BY DEF Disk
<1>2. \A l \in Loads : /\ loads'[l].stage = loads[l].stage /\ loads'[l].root = loads[l].root
                       /\ loads'[l].queue = loads[l].queue /\ loads'[l].found = loads[l].found
                       /\ loads'[l].children = loads[l].children
                       /\ loads[l].missed \subseteq loads'[l].missed
                       /\ l = entriesPromise => Silent \subseteq loads'[l].missed
  <2>1. CASE entriesPromise = None
    BY <2>1, LoadAssumption DEF Disk
  <2>2. CASE entriesPromise # None
    <3>1. loads' = [loads EXCEPT ![entriesPromise].missed = @ \cup Silent]
      BY <2>2 DEF Disk
    <3>2. loads \in [Loads -> Load]
      BY DEF CacheInv, TypeOK
    <3>3. ASSUME NEW l \in Loads, l # entriesPromise PROVE loads'[l] = loads[l]
      BY <3>1, <3>2, <3>3
    <3>4. loads'[entriesPromise] = [loads[entriesPromise] EXCEPT !.missed = @ \cup Silent]
      BY <2>2, <3>1, <3>2 DEF CacheInv, TypeOK
    <3>5. loads[entriesPromise] \in Load
      BY <2>2, <3>2 DEF CacheInv, TypeOK
    <3>6. /\ loads'[entriesPromise].stage = loads[entriesPromise].stage
          /\ loads'[entriesPromise].root = loads[entriesPromise].root
          /\ loads'[entriesPromise].queue = loads[entriesPromise].queue
          /\ loads'[entriesPromise].found = loads[entriesPromise].found
          /\ loads'[entriesPromise].children = loads[entriesPromise].children
          /\ loads'[entriesPromise].missed = loads[entriesPromise].missed \cup Silent
      BY <3>4, <3>5 DEF Load
    <3>. QED  BY <3>3, <3>6
  <2>. QED  BY <2>1, <2>2
<1>3. \A l \in Loads : WalkOrder(loads[l])'
  BY <1>2 DEF WalkOrder, AnswersInv
<1>4. \A l \in Loads : \A f, values : Shows(loads[l], f, values) <=> Shows(loads'[l], f, values)
  BY <1>2 DEF Shows, Pending
<1>5. ASSUME NEW cl \in Callers PROVE Served(cl)'
  <2>1. CASE awaits[cl] = None
    BY <1>1, <2>1 DEF Served
  <2>2. CASE awaits[cl] # None
    <3>0. PICK k \in Loads : k = awaits[cl]
      BY <2>2 DEF CacheInv, TypeOK
    <3>1. awaits'[cl] = k /\ awaits[cl] = k
      BY <1>1, <3>0
    <3>2. \A f \in Files : acceptable'[cl][f] = acceptable[cl][f] \cup {Held(loads[k].root, f)'}
      BY <2>2, <3>1 DEF Disk, Witness
    <3>3. \A f \in Files \ loads[k].missed : Shows(loads[k], f, acceptable[cl][f])
      BY <2>2, <3>0 DEF AnswersInv, Served
    <3>4. \A f \in Files : Held(loads[k].root, f)' \in acceptable'[cl][f]
      BY <3>2
    <3>5. \A f \in Files \ loads'[k].missed : Shows(loads'[k], f, acceptable'[cl][f])
      BY <1>2, <1>4, <3>1, <3>2, <3>3 DEF Shows
    <3>. QED  BY <3>1, <3>4, <3>5 DEF Served, Shows, Pending
  <2>. QED  BY <2>1, <2>2
<1>6. CurrentShows'
  <2>1. CASE entriesPromise = None
    BY <1>1, <2>1 DEF CurrentShows
  <2>2. CASE entriesPromise # None
    <3>0. PICK k \in Loads : k = entriesPromise
      BY <2>2 DEF CacheInv, TypeOK
    <3>1. entriesPromise' = k /\ entriesPromise = k
      BY <1>1, <3>0
    <3>2. \A f \in Files \ loads[k].missed :
            Shows(loads[k], f, {Held(loads[k].root, f)} \cup recent[f])
      BY <2>2, <3>0 DEF AnswersInv, CurrentShows
    <3>3. \A f \in Files : {Held(loads[k].root, f)} \cup recent[f]
                            \subseteq {Held(loads[k].root, f)'} \cup recent'[f]
      BY <1>1, <1>2, <2>2, <3>1 DEF Held
    <3>4. \A f \in Files \ loads'[k].missed : recent'[f] # {} => Audible(f)'
      BY <1>2, <3>1 DEF Silent
    <3>5. \A f \in Files \ loads'[k].missed :
            Shows(loads'[k], f, {Held(loads[k].root, f)'} \cup recent'[f])
      BY <1>2, <1>4, <3>1, <3>2, <3>3 DEF Shows
    <3>. QED  BY <3>1, <3>4, <3>5 DEF CurrentShows, Shows, Pending
  <2>. QED  BY <2>1, <2>2
<1>. QED  BY <1>3, <1>5, <1>6 DEF AnswersInv

LEMMA PeopleAnswer == CacheInv /\ AnswersInv /\ People => AnswersInv'
<1>. SUFFICES ASSUME CacheInv, AnswersInv, People PROVE AnswersInv'
  OBVIOUS
<1>1. ASSUME NEW f \in Files, NEW content \in Contents, WriteFile(f, content)
      PROVE  AnswersInv'
  <2>1. disk' \in [Files -> Values]
    BY <1>1 DEF WriteFile, CacheInv, TypeOK, Values
  <2>2. FilesInFolders'
    BY <1>1 DEF WriteFile, AnswersInv, FilesInFolders, CacheInv, TypeOK
  <2>. QED  BY <1>1, <2>1, <2>2, DiskAnswers DEF WriteFile
<1>2. ASSUME NEW f \in Files, DeleteFile(f) PROVE AnswersInv'
  <2>1. disk' \in [Files -> Values]
    BY <1>2 DEF DeleteFile, CacheInv, TypeOK, Values
  <2>2. FilesInFolders'
    BY <1>2 DEF DeleteFile, AnswersInv, FilesInFolders, CacheInv, TypeOK
  <2>. QED  BY <1>2, <2>1, <2>2, DiskAnswers DEF DeleteFile
<1>3. ASSUME NEW d \in Folders, DeleteFolder(d) PROVE AnswersInv'
  <2>1. disk' \in [Files -> Values]
    BY <1>3 DEF DeleteFolder, CacheInv, TypeOK, Values
  <2>2. \A e \in Folders \cap Below[d] : Below[e] \subseteq Below[d]
    BY TreeAssumption DEF Paths
  <2>3. FilesInFolders'
    BY <1>3, <2>2 DEF DeleteFolder, AnswersInv, FilesInFolders
  <2>. QED  BY <1>3, <2>1, <2>3, DiskAnswers DEF DeleteFolder
<1>4. ASSUME NEW folder \in Roots \cup {None}, Reconfigure(folder) PROVE AnswersInv'
  BY <1>4 DEF Reconfigure, Invalidate, AnswersInv, FilesInFolders, WalkOrder, Served,
              CurrentShows, Held, Shows, Pending, storage
<1>5. ASSUME NEW folder \in Roots \cup {None}, ReplaceFolders(folder) PROVE AnswersInv'
  BY <1>5 DEF ReplaceFolders, AnswersInv, FilesInFolders, WalkOrder, Served, CurrentShows,
              Held, Shows, Pending, Audible, Announced, Batch, Concerns, storage, watcher,
              service
<1>. QED  BY <1>1, <1>2, <1>3, <1>4, <1>5 DEF People

\* The event that tells of other workspace folders leaves nothing cached.
LEMMA FoldersReplacedAnswers == CacheInv /\ AnswersInv /\ FoldersReplaced => AnswersInv'
BY DEF FoldersReplaced, Invalidate, AnswersInv, FilesInFolders, WalkOrder, Served,
       CurrentShows, Held, Shows, Pending, storage

\* The watcher's window closes: what is announced stays announced.
LEMMA FlushAnswers == CacheInv /\ AnswersInv /\ Flush => AnswersInv'
<1>. SUFFICES ASSUME CacheInv, AnswersInv, Flush PROVE AnswersInv'
  OBVIOUS
<1>1. UNCHANGED <<storage, setting, service, awaits, history>>
  BY DEF Flush
<1>2. \A f \in Files : Audible(f) => Audible(f)'
  <2>1. sent \in Seq(SUBSET Paths) /\ Batch(gathered) \subseteq Paths
    BY BatchType DEF CacheInv, TypeOK
  <2>2. sent' = Append(sent, Batch(gathered))
    BY DEF Flush
  <2>3. ASSUME NEW x \in Announced PROVE x \in Announced'
    <3>1. CASE x \in Batch(gathered)
      <4>1. Len(sent') \in DOMAIN sent' /\ sent'[Len(sent')] = Batch(gathered)
        BY <2>1, <2>2
      <4>. QED  BY <3>1, <4>1 DEF Announced
    <3>2. CASE x \in UNION {sent[i] : i \in DOMAIN sent}
      <4>1. PICK i \in DOMAIN sent : x \in sent[i]
        BY <3>2
      <4>2. i \in DOMAIN sent' /\ sent'[i] = sent[i]
        BY <2>1, <2>2, <4>1
      <4>. QED  BY <4>1, <4>2 DEF Announced
    <3>. QED  BY <3>1, <3>2 DEF Announced
  <2>. QED  BY <1>1, <2>3 DEF Audible, Concerns, service
<1>3. CurrentShows'
  BY <1>1, <1>2 DEF AnswersInv, CurrentShows, Shows, Pending, Visible, Held, storage,
                    service, history, setting, sinceLoad
<1>. QED
  BY <1>1, <1>3 DEF AnswersInv, FilesInFolders, WalkOrder, Served, Shows, Pending, Held,
                    storage, service, history

\* A batch that does not invalidate says nothing of the folder.
LEMMA HearAnswers == CacheInv /\ AnswersInv /\ Hear => AnswersInv'
<1>. SUFFICES ASSUME CacheInv, AnswersInv, Hear PROVE AnswersInv'
  OBVIOUS
<1>1. UNCHANGED <<storage, gathered, setting, loads, awaits, acceptable>>
  BY DEF Hear
<1>2. CurrentShows'
  <2>1. CASE \E x \in Head(sent) : Concerns(x)
    BY <2>1 DEF Hear, Invalidate, CurrentShows
  <2>2. CASE ~\E x \in Head(sent) : Concerns(x)
    <3>1. UNCHANGED <<entriesPromise, codexRoot, sinceLoad>>
      BY <2>2 DEF Hear
    <3>2. \A f \in Files : Audible(f) => Audible(f)'
      <4>1. sent \in Seq(SUBSET Paths) /\ sent # <<>> /\ sent' = Tail(sent)
        BY DEF Hear, CacheInv, TypeOK
      <4>2. ASSUME NEW x \in Announced, Concerns(x) PROVE x \in Announced'
        <5>1. CASE x \in Batch(gathered)
          BY <1>1, <5>1 DEF Announced, Batch
        <5>2. CASE x \in UNION {sent[i] : i \in DOMAIN sent}
          <6>1. PICK i \in DOMAIN sent : x \in sent[i]
            BY <5>2
          <6>2. i # 1
            BY <2>2, <4>1, <4>2, <6>1
          <6>3. i - 1 \in DOMAIN sent' /\ sent'[i - 1] = sent[i]
            BY <4>1, <6>1, <6>2
          <6>. QED  BY <6>1, <6>3 DEF Announced
        <5>. QED  BY <5>1, <5>2 DEF Announced
      <4>. QED  BY <3>1, <4>2 DEF Audible, Concerns
    <3>. QED
      BY <1>1, <3>1, <3>2 DEF AnswersInv, CurrentShows, Shows, Pending, Visible, Held,
                              storage, setting, sinceLoad
  <2>. QED  BY <2>1, <2>2
<1>. QED
  BY <1>1, <1>2 DEF AnswersInv, FilesInFolders, WalkOrder, Served, Shows, Pending, Held, storage

\* Who joins the current load is served by it.
LEMMA JoinServes ==
  ASSUME CacheInv, AnswersInv, NEW cl \in Callers, entriesPromise # None, Ask(cl)
  PROVE  Served(cl)'
<1>0. PICK k \in Loads : k = entriesPromise
  BY DEF CacheInv, TypeOK
<1>1. /\ awaits'[cl] = k /\ acceptable'[cl] = Acceptable
      /\ UNCHANGED <<loads, disk>> /\ loads[k].root \in Named
  BY <1>0 DEF Ask, CacheInv, TypeOK, SameFolder, NoticeDue, Named, service, storage
<1>2. \A f \in Files : Held(loads[k].root, f)' \in Acceptable[f]
  BY <1>1 DEF Acceptable, Held
<1>3. ASSUME NEW f \in Files \ loads[k].missed PROVE Shows(loads[k], f, Acceptable[f])
  <2>1. /\ Shows(loads[k], f, {Held(loads[k].root, f)} \cup recent[f])
        /\ recent[f] # {} => Audible(f)
    BY <1>0 DEF AnswersInv, CurrentShows
  <2>2. {Held(loads[k].root, f)} \cup recent[f] \subseteq Acceptable[f]
    BY <1>1, <2>1 DEF Acceptable
  <2>. QED  BY <2>1, <2>2 DEF Shows
<1>4. \A f \in Files \ loads'[k].missed : Shows(loads'[k], f, acceptable'[cl][f])
  BY <1>1, <1>3
<1>. QED  BY <1>1, <1>2, <1>4 DEF Served, Shows, Pending

\* A load that starts has everything to visit.
LEMMA StartServes ==
  ASSUME CacheInv, AnswersInv, NEW cl \in Callers, NEW l \in Loads, entriesPromise = None,
         Ask(cl), Start(l), awaits' = [awaits EXCEPT ![cl] = l]
  PROVE  Served(cl)' /\ CurrentShows' /\ WalkOrder(loads[l])'
<1>1. /\ awaits'[cl] = l /\ acceptable'[cl] = Acceptable /\ entriesPromise' = l
      /\ UNCHANGED <<disk, configured>> /\ recent' = NoValues
  BY DEF Ask, Start, CacheInv, TypeOK, storage, setting, sinceLoad
<1>2. /\ loads'[l].root = configured /\ loads'[l].queue = {} /\ loads'[l].children = {}
      /\ loads'[l].found = Nothing
      /\ loads'[l].stage = IF configured = None THEN "done" ELSE "exists"
  BY DEF Start, NewLoad, CacheInv, TypeOK
<1>3. \A f \in Files : Held(loads[l].root, f)' = Visible(f) /\ Visible(f)' = Visible(f)
  BY <1>1, <1>2 DEF Held, Visible
<1>4. ASSUME NEW f \in Files, NEW values, Visible(f) \in values
      PROVE  Shows(loads'[l], f, values)
  <2>1. loads'[l].found[f] = Absent
    BY <1>2 DEF Nothing
  <2>2. CASE configured = None \/ f \notin Below[configured]
    <3>1. Visible(f) = Absent
      BY <2>2 DEF Visible, Held
    <3>. QED  BY <1>4, <2>1, <3>1 DEF Shows
  <2>3. CASE configured # None /\ f \in Below[configured]
    BY <1>2, <2>1, <2>3 DEF Shows, Pending
  <2>. QED  BY <2>2, <2>3
<1>5. \A f \in Files : Visible(f) \in Acceptable[f] /\ recent'[f] = {}
  BY <1>1 DEF Acceptable, Visible, Named, NoValues
<1>6. Served(cl)'
  BY <1>1, <1>3, <1>4, <1>5 DEF Served, Shows, Pending
<1>7. CurrentShows'
  BY <1>1, <1>3, <1>4, <1>5 DEF CurrentShows, Shows, Pending
<1>8. WalkOrder(loads[l])'
  BY <1>2 DEF WalkOrder
<1>. QED  BY <1>6, <1>7, <1>8

LEMMA AskAnswers ==
  ASSUME CacheInv, AnswersInv, NEW cl \in Callers, Ask(cl)
  PROVE  AnswersInv'
<1>1. /\ UNCHANGED <<storage, watcher, setting>>
      /\ \A other \in Callers \ {cl} : acceptable'[other] = acceptable[other]
  BY DEF Ask, CacheInv, TypeOK
<1>2. FilesInFolders'
  BY <1>1 DEF AnswersInv, FilesInFolders, storage
<1>3. CASE entriesPromise # None
  <2>1. UNCHANGED <<service, sinceLoad>> /\ \A other \in Callers \ {cl} : awaits'[other] = awaits[other]
    BY <1>3 DEF Ask, CacheInv, TypeOK
  <2>2. ASSUME NEW other \in Callers \ {cl} PROVE Served(other)'
    BY <1>1, <2>1 DEF AnswersInv, Served, Shows, Pending, Held, storage, service
  <2>3. CurrentShows' /\ \A l \in Loads : WalkOrder(loads[l])'
    BY <1>1, <2>1 DEF AnswersInv, CurrentShows, WalkOrder, Shows, Pending, Visible, Held,
                      Audible, Announced, Batch, Concerns, storage, watcher, service,
                      setting, sinceLoad
  <2>. QED  BY <1>2, <1>3, <2>2, <2>3, JoinServes DEF AnswersInv
<1>4. CASE entriesPromise = None
  <2>1. PICK l \in Loads : Free(l) /\ Start(l) /\ awaits' = [awaits EXCEPT ![cl] = l]
    BY <1>4 DEF Ask
  <2>2. \A k \in Loads \ {l} : loads'[k] = loads[k]
    BY <2>1 DEF Start, CacheInv, TypeOK
  <2>3. ASSUME NEW other \in Callers \ {cl} PROVE Served(other)'
    <3>1. awaits'[other] = awaits[other] /\ awaits[other] # l
      BY <2>1 DEF Free, CacheInv, TypeOK
    <3>2. awaits[other] # None => awaits[other] \in Loads \ {l}
      BY <3>1 DEF CacheInv, TypeOK
    <3>. QED
      BY <1>1, <2>2, <3>1, <3>2 DEF AnswersInv, Served, Shows, Pending, Held, storage
  <2>4. ASSUME NEW k \in Loads \ {l} PROVE WalkOrder(loads[k])'
    BY <2>2 DEF AnswersInv, WalkOrder
  <2>. QED  BY <1>2, <1>4, <2>1, <2>3, <2>4, StartServes DEF AnswersInv
<1>. QED  BY <1>3, <1>4

LEMMA AnswerAnswers ==
  ASSUME CacheInv, AnswersInv, NEW cl \in Callers, Answer(cl)
  PROVE  AnswersInv'
<1>1. /\ UNCHANGED <<storage, watcher, setting, service, sinceLoad>>
      /\ awaits'[cl] = None
      /\ \A other \in Callers \ {cl} : /\ awaits'[other] = awaits[other]
                                       /\ acceptable'[other] = acceptable[other]
  BY DEF Answer, CacheInv, TypeOK
<1>2. \A other \in Callers : Served(other)'
  BY <1>1 DEF AnswersInv, Served, Shows, Pending, Held, storage, service
<1>. QED
  BY <1>1, <1>2 DEF AnswersInv, FilesInFolders, CurrentShows, WalkOrder, Shows, Pending,
                    Visible, Held, Audible, Announced, Batch, Concerns, storage, watcher,
                    service, setting, sinceLoad

\* What getEntries answers is, of every file the load could read and the
\* watcher told of, an entry the codex folder has held since the request, or
\* one whose change is still on its way to the service; the folder is the one
\* configured at the request, or an earlier one while the service is still to
\* be told of other workspace folders.
THEOREM AnswersFromTheFolder == Spec => []AnswersCurrent
<1>1. CacheInv /\ AnswersInv /\ Next => AnswersInv'
  BY PeopleAnswer, FlushAnswers, HearAnswers, FoldersReplacedAnswers, AskAnswers, AnswerAnswers, StepAnswers DEF Next
<1>2. CacheInv /\ AnswersInv /\ UNCHANGED vars => AnswersInv'
  BY DEF AnswersInv, FilesInFolders, Served, CurrentShows, WalkOrder, Shows, Pending,
         Visible, Held, Audible, Announced, Batch, Concerns, vars, storage, watcher,
         service, history, setting, sinceLoad
<1>3. CacheInv /\ AnswersInv => AnswersCurrent
  <2>. SUFFICES ASSUME CacheInv, AnswersInv, NEW cl \in Callers, Answerable(cl),
                       NEW f \in Files \ loads[awaits[cl]].missed
                PROVE  Answered(cl, f)
    BY DEF AnswersCurrent
  <2>. DEFINE load == loads[awaits[cl]]
  <2>1. load.stage = "done" /\ awaits[cl] \in Loads /\ awaits[cl] # None
    BY DEF Answerable, CacheInv, TypeOK
  <2>2. ~Pending(load, f)
    BY <2>1 DEF AnswersInv, WalkOrder, Pending
  <2>3. Shows(load, f, acceptable[cl][f])
    BY <2>1 DEF AnswersInv, Served
  <2>. QED  BY <2>2, <2>3 DEF Shows, Answered
<1>. QED  BY <1>1, <1>2, <1>3, AnswersInit, CacheInductive, PTL DEF Spec
=============================================================================
