------------------------------ MODULE CodexCache ------------------------------
(***************************************************************************)
(* The codex entries the writing assistant is given: the cache that        *)
(* NorrisWriterCodexService keeps of the codex folder, while files change, *)
(* settings change, and several requests are in flight.                    *)
(*                                                                         *)
(* The first request after an invalidation starts a load; later ones await *)
(* the same promise.  A load walks the folder with one await per folder    *)
(* and per file, so it is no snapshot.  What changes on disk reaches the   *)
(* service late, in batches the file watcher has coalesced.                *)
(*                                                                         *)
(* A file here is a codex file (_isCodexFile), and its content is what     *)
(* _parseEntry makes of it; selection and formatting in resolveContext     *)
(* work on the answer alone.  A setting changes and is told of in one      *)
(* step; the workspace's folders are replaced first, and told of after     *)
(* several awaits.  Switching the codex off or on, and the invalidate() of *)
(* the New Codex Entry command, are a Reconfigure that keeps the folder.   *)
(*                                                                         *)
(* Bounds: MaxChanges bounds what people do to files and settings,         *)
(* MaxFailures the file system's failures.  One load for each caller is    *)
(* enough for any run: a load that is not the current one has a caller.    *)
(***************************************************************************)
EXTENDS Naturals, Sequences

CONSTANTS
  Files, Folders,
  In,          \* the folder a file or a folder is in, None at the top
  Below,       \* a path -> it and all paths below it
  Roots,       \* folders the setting may name
  StartsWith,  \* root -> the paths whose text starts with the root's
  Contents, Absent, None,
  Callers, Loads,
  MaxChanges, MaxFailures

Paths == Files \cup Folders

ASSUME PathAssumption ==
  /\ Files \cap Folders = {} /\ None \notin Paths
  /\ In \in [Paths -> Folders \cup {None}]
  /\ Below \in [Paths -> SUBSET Paths] /\ \A x \in Paths : x \in Below[x]
  /\ \A f \in Files : Below[f] = {f}
\* A path is in one folder, and what is below a folder is below something in it.
ASSUME TreeAssumption ==
  /\ \A x \in Paths : /\ In[x] # None => x \in Below[In[x]]
                      /\ \A y \in Below[x] : Below[y] \subseteq Below[x]
  /\ \A d \in Folders : \A x \in Below[d] \ {d} : \E s \in Paths : In[s] = d /\ x \in Below[s]
ASSUME RootAssumption ==
  /\ Roots \subseteq Folders
  /\ StartsWith \in [Roots -> SUBSET Paths]
  /\ \A r \in Roots : Below[r] \subseteq StartsWith[r]
ASSUME ContentAssumption == Absent \notin Contents
ASSUME LoadAssumption == None \notin Loads
ASSUME BoundAssumption == MaxChanges \in Nat /\ MaxFailures \in Nat

VARIABLES
  disk, folders,    \* file -> content or Absent; the folders that exist
  gathered,         \* the watcher: path -> the change of this window
  sent,             \* batches on their way to the service
  configured,       \* the folder getCodexFolder returns, None without a workspace
  notices,          \* onDidChangeWorkspaceFolders events still to be fired
  codexRoot, entriesPromise,    \* the service
  loads,            \* load -> how far its promise has come
  awaits,           \* caller -> the load it awaits, None when idle
  recent,           \* history: file -> what it held earlier, since the load began
  formerly,         \* history: folders configured earlier, since the load began
  acceptable,       \* history: caller -> file -> what it may be answered
  changes, failures

storage == <<disk, folders>>
watcher == <<gathered, sent>>
service == <<codexRoot, entriesPromise, loads>>
setting == <<configured, notices>>
sinceLoad == <<recent, formerly>>
history == <<sinceLoad, acceptable>>
vars == <<storage, watcher, setting, service, awaits, history, changes, failures>>

Values == Contents \cup {Absent}
Nothing == [f \in Files |-> Absent]
NoValues == [f \in Files |-> {}]

\* "missed" is history: files it could not read or was never told about.
Load == [stage : {"unused", "exists", "list", "read", "done"},
         root : Roots \cup {None},
         queue : SUBSET Folders, children : SUBSET Files,
         found : [Files -> Values], missed : SUBSET Files]
NewLoad == [stage |-> "exists", root |-> configured, queue |-> {}, children |-> {},
            found |-> Nothing, missed |-> {}]

Init == /\ disk \in [Files -> Values]
        /\ folders = UNION {{d \in Folders : f \in Below[d]} :
                              f \in {g \in Files : disk[g] # Absent}}
        /\ gathered = [x \in Paths |-> "none"] /\ sent = <<>>
        /\ configured \in Roots /\ notices = 0
        /\ codexRoot = None /\ entriesPromise = None
        /\ loads = [l \in Loads |-> [NewLoad EXCEPT !.stage = "unused", !.root = None]]
        /\ awaits = [cl \in Callers |-> None]
        /\ recent = NoValues /\ formerly = {}
        /\ acceptable = [cl \in Callers |-> NoValues]
        /\ changes = 0 /\ failures = 0

----------------------------------------------------------------------------
(* What can be heard of, and what can be seen. *)

\* EventCoalescer.processEvent
Merged(earlier, later) ==
  CASE earlier = "none" -> later
    [] earlier = "added" /\ later = "deleted" -> "none"
    [] earlier = "deleted" /\ later = "added" -> "updated"
    [] earlier = "added" /\ later = "updated" -> "added"
    [] OTHER -> later

\* EventCoalescer.coalesce: a deleted folder speaks for what is below it.
Batch(window) ==
  LET deleted == {x \in Paths : window[x] = "deleted"}
  IN {x \in Paths : window[x] \in {"added", "updated"}}
       \cup {x \in deleted : \A d \in deleted \ {x} : x \notin Below[d]}

\* The listener's startsWith test of a changed path.
Concerns(path) == codexRoot # None /\ path \in StartsWith[codexRoot]

Announced == Batch(gathered) \cup UNION {sent[i] : i \in DOMAIN sent}
Audible(f) == \E x \in Announced : Concerns(x) /\ f \in Below[x]

\* What a load of the folder "root" would make of f now.
Held(root, f) == IF root # None /\ f \in Below[root] THEN disk[f] ELSE Absent
Visible(f) == Held(configured, f)

\* The folders a caller may be answered from: the one that is configured, or
\* was until a replacement of the workspace's folders still to be told of.
Named == {configured} \cup (IF notices > 0 THEN formerly ELSE {})

\* What a caller that asks now may be answered: what is there, or was until
\* a change that is still to be heard of.
Acceptable == [f \in Files |-> {Held(root, f) : root \in Named}
                                 \cup (IF Audible(f) THEN recent[f] ELSE {})]

\* Callers that wait may be answered what their folder holds by now, too.
Witness == acceptable' = [cl \in Callers |->
  IF awaits[cl] = None THEN acceptable[cl]
  ELSE [f \in Files |-> acceptable[cl][f] \cup {Held(loads[awaits[cl]].root, f)'}]]

----------------------------------------------------------------------------
(* Files and settings change. *)

Change == changes < MaxChanges /\ changes' = changes + 1

\* The files whose last change no event will bring to the current load.
Silent == {f \in Files : recent'[f] # {} /\ ~Audible(f)'}

\* The paths in "made" and "gone" come and go, those in "kept" change.
Disk(made, kept, gone) ==
  /\ UNCHANGED <<sent, setting, codexRoot, entriesPromise, awaits, formerly, failures>>
  /\ gathered' = [x \in Paths |-> CASE x \in made -> Merged(gathered[x], "added")
                                    [] x \in kept -> Merged(gathered[x], "updated")
                                    [] x \in gone -> Merged(gathered[x], "deleted")
                                    [] OTHER -> gathered[x]]
  /\ recent' = [f \in Files |->
       IF entriesPromise # None /\ disk'[f] # disk[f]
       THEN recent[f] \cup {Held(loads[entriesPromise].root, f)} ELSE recent[f]]
  /\ loads' = IF entriesPromise = None THEN loads
              ELSE [loads EXCEPT ![entriesPromise].missed = @ \cup Silent]
  /\ Witness

\* A file is written, in folders that are made for it.
WriteFile(f, content) ==
  LET above == {d \in Folders : f \in Below[d]}
  IN /\ Change /\ content # disk[f]
     /\ disk' = [disk EXCEPT ![f] = content]
     /\ folders' = folders \cup above
     /\ Disk((above \ folders) \cup (IF disk[f] = Absent THEN {f} ELSE {}),
             IF disk[f] = Absent THEN {} ELSE {f}, {})

DeleteFile(f) ==
  /\ Change /\ disk[f] # Absent
  /\ disk' = [disk EXCEPT ![f] = Absent] /\ UNCHANGED folders
  /\ Disk({}, {}, {f})

\* A folder is deleted, or moved away, with everything in it.
DeleteFolder(d) ==
  /\ Change /\ d \in folders
  /\ disk' = [f \in Files |-> IF f \in Below[d] THEN Absent ELSE disk[f]]
  /\ folders' = folders \ Below[d]
  /\ Disk({}, {}, {x \in Below[d] : x \in folders \/ (x \in Files /\ disk[x] # Absent)})

\* The watcher's window closes.
Flush ==
  /\ Batch(gathered) # {}
  /\ sent' = Append(sent, Batch(gathered))
  /\ gathered' = [x \in Paths |-> "none"]
  /\ UNCHANGED <<storage, setting, service, awaits, history, changes, failures>>

----------------------------------------------------------------------------
(* The service's listeners. *)

Invalidate == /\ entriesPromise' = None /\ codexRoot' = None
              /\ recent' = NoValues /\ formerly' = {}

\* Mutant: the codex folder itself is not among the paths tested.
HearInside ==
  /\ sent # <<>> /\ sent' = Tail(sent)
  /\ IF \E x \in Head(sent) : Concerns(x) /\ x # codexRoot
     THEN Invalidate ELSE UNCHANGED <<entriesPromise, codexRoot, sinceLoad>>
  /\ UNCHANGED <<storage, gathered, setting, loads, awaits, acceptable, changes, failures>>

\* onDidFilesChange
Hear ==
  /\ sent # <<>> /\ sent' = Tail(sent)
  /\ IF \E x \in Head(sent) : Concerns(x)
     THEN Invalidate ELSE UNCHANGED <<entriesPromise, codexRoot, sinceLoad>>
  /\ UNCHANGED <<storage, gathered, setting, loads, awaits, acceptable, changes, failures>>

\* onDidChangeConfiguration, fired in the step that changes the value.
Reconfigure(folder) ==
  /\ Change /\ configured' = folder /\ (folder = None <=> configured = None)
  /\ Invalidate
  /\ UNCHANGED <<storage, watcher, notices, loads, awaits, acceptable, failures>>

\* The workspace gets other folders; the event waits for their settings to be
\* read and for those who joined onWillChangeWorkspaceFolders.
ReplaceFolders(folder) ==
  /\ Change /\ configured' = folder
  /\ notices' = notices + 1
  /\ formerly' = IF entriesPromise = None THEN formerly ELSE formerly \cup {configured}
  /\ UNCHANGED <<storage, watcher, service, awaits, recent, acceptable, failures>>

\* Mutant: changes of the workspace's folders are not listened to.
FoldersReplacedUnheard ==
  /\ notices > 0 /\ notices' = notices - 1
  /\ UNCHANGED <<storage, watcher, configured, service, awaits, history, changes, failures>>

\* onDidChangeWorkspaceFolders
FoldersReplaced ==
  /\ notices > 0 /\ notices' = notices - 1
  /\ Invalidate
  /\ UNCHANGED <<storage, watcher, configured, loads, awaits, acceptable, changes, failures>>

----------------------------------------------------------------------------
(* getEntries and _loadEntries. *)

Free(l) == /\ loads[l].stage \in {"unused", "done"}
           /\ l # entriesPromise /\ \A cl \in Callers : awaits[cl] # l

\* Up to the first await: without a folder the promise is already resolved.
Start(l) == /\ entriesPromise' = l
            /\ loads' = [loads EXCEPT ![l] =
                 IF configured = None THEN [NewLoad EXCEPT !.stage = "done"] ELSE NewLoad]
            /\ codexRoot' = IF configured = None THEN codexRoot ELSE configured
            /\ recent' = NoValues /\ formerly' = {}

Ask(cl) ==
  /\ awaits[cl] = None
  /\ acceptable' = [acceptable EXCEPT ![cl] = Acceptable]
  /\ IF entriesPromise # None
     THEN /\ awaits' = [awaits EXCEPT ![cl] = entriesPromise]
          /\ UNCHANGED <<service, sinceLoad>>
     ELSE \E l \in Loads : Free(l) /\ Start(l) /\ awaits' = [awaits EXCEPT ![cl] = l]
  /\ UNCHANGED <<storage, watcher, setting, changes, failures>>

\* The load goes on with "state", and settles when nothing is left to visit.
Goes(l, state) ==
  /\ loads' = [loads EXCEPT ![l] =
       [state EXCEPT !.stage = IF state.children # {} THEN "read"
                               ELSE IF state.queue # {} THEN "list" ELSE "done"]]
  /\ UNCHANGED <<storage, watcher, setting, codexRoot, entriesPromise, awaits, history,
                 changes>>

Fail == failures < MaxFailures /\ failures' = failures + 1

\* exists: an error says that the folder is not there.
Exists(l) ==
  /\ loads[l].stage = "exists"
  /\ \/ /\ Goes(l, IF loads[l].root \in folders
                  THEN [loads[l] EXCEPT !.queue = {loads[l].root}] ELSE loads[l])
        /\ UNCHANGED failures
     \/ Fail /\ Goes(l, [loads[l] EXCEPT !.missed = @ \cup (Files \cap Below[loads[l].root])])

\* Mutant: a folder is queued, and then read like a file.
ListAll(l) ==
  /\ loads[l].stage = "list"
  /\ \E d \in loads[l].queue :
       LET rest == [loads[l] EXCEPT !.queue = @ \ {d}]
       IN /\ d \in folders
          /\ Goes(l, [rest EXCEPT
               !.queue = @ \cup {s \in folders : In[s] = d},
               !.children = {x \in Paths : In[x] = d /\ (x \in folders \/ disk[x] # Absent)}])
          /\ UNCHANGED failures

\* Mutant: the folder is taken off the queue once it has been listed.
ListAgain(l) ==
  /\ loads[l].stage = "list"
  /\ \E d \in loads[l].queue :
       IF d \in folders
       THEN /\ Goes(l, [loads[l] EXCEPT
                 !.queue = (@ \ {d}) \cup {s \in folders : In[s] = d},
                 !.children = {f \in Files : In[f] = d /\ disk[f] # Absent}])
            /\ UNCHANGED failures
       ELSE Goes(l, loads[l]) /\ UNCHANGED failures

\* resolve: its children, or an error that skips the folder.
List(l) ==
  /\ loads[l].stage = "list"
  /\ \E d \in loads[l].queue :
       LET rest == [loads[l] EXCEPT !.queue = @ \ {d}]
       IN \/ /\ d \in folders
             /\ Goes(l, [rest EXCEPT
                  !.queue = @ \cup {s \in folders : In[s] = d},
                  !.children = {f \in Files : In[f] = d /\ disk[f] # Absent}])
             /\ UNCHANGED failures
          \/ d \notin folders /\ Goes(l, rest) /\ UNCHANGED failures
          \/ Fail /\ Goes(l, [rest EXCEPT !.missed = @ \cup (Files \cap Below[d])])

\* _parseEntry: an error, of a file that is gone or any other, is no entry.
Read(l) ==
  /\ loads[l].stage = "read"
  /\ \E f \in loads[l].children :
       LET rest == [loads[l] EXCEPT !.children = @ \ {f}]
       IN \/ Goes(l, [rest EXCEPT !.found[f] = disk[f]]) /\ UNCHANGED failures
          \/ Fail /\ Goes(l, [rest EXCEPT !.missed = @ \cup {f}])

Answer(cl) ==
  /\ awaits[cl] # None /\ loads[awaits[cl]].stage = "done"
  /\ awaits' = [awaits EXCEPT ![cl] = None]
  /\ acceptable' = [acceptable EXCEPT ![cl] = NoValues]
  /\ UNCHANGED <<storage, watcher, setting, service, sinceLoad, changes, failures>>

----------------------------------------------------------------------------

People == \/ \E f \in Files : \/ \E content \in Contents : WriteFile(f, content)
                              \/ DeleteFile(f)
          \/ \E d \in Folders : DeleteFolder(d)
          \/ \E folder \in Roots \cup {None} : Reconfigure(folder) \/ ReplaceFolders(folder)

Step(l) == Exists(l) \/ List(l) \/ Read(l)

Next == \/ People \/ Flush \/ Hear \/ FoldersReplaced
        \/ \E cl \in Callers : Ask(cl) \/ Answer(cl)
        \/ \E l \in Loads : Step(l)

Spec == Init /\ [][Next]_vars

\* The file system answers, well or badly, and continuations run.
FairSpec == /\ Spec
            /\ \A l \in Loads : WF_vars(Step(l))
            /\ \A cl \in Callers : WF_vars(Answer(cl))

----------------------------------------------------------------------------
(* Properties. *)

\* Every variable has its type; what a load has still to read are files.
TypeOK ==
  /\ disk \in [Files -> Values] /\ folders \subseteq Folders
  /\ gathered \in [Paths -> {"none", "added", "updated", "deleted"}]
  /\ sent \in Seq(SUBSET Paths)
  /\ configured \in Roots \cup {None} /\ codexRoot \in Roots \cup {None}
  /\ notices \in Nat /\ formerly \subseteq Roots \cup {None}
  /\ entriesPromise \in Loads \cup {None}
  /\ loads \in [Loads -> Load]
  /\ awaits \in [Callers -> Loads \cup {None}]
  /\ recent \in [Files -> SUBSET Values]
  /\ acceptable \in [Callers -> [Files -> SUBSET Values]]
  /\ changes \in 0..MaxChanges /\ failures \in 0..MaxFailures

Answered(cl, f) == loads[awaits[cl]].found[f] \in acceptable[cl][f]
Answerable(cl) == awaits[cl] # None /\ loads[awaits[cl]].stage = "done"

\* A request gets, of every file, an entry the codex folder has held since the
\* request was made, or one whose change is still on its way to the service,
\* also when it shares a load that began earlier or that was invalidated
\* meanwhile.  The codex folder is the one configured when the request was
\* made, or one configured before if the service is still to be told that the
\* workspace has other folders.  Left out are files that could not be read and
\* files whose change the watcher never tells of.
AnswersCurrent == \A cl \in Callers : Answerable(cl) =>
  \A f \in Files \ loads[awaits[cl]].missed : Answered(cl, f)

\* Once nothing that happened to the folder or the workspace is still on its
\* way to the service, the entries it has cached are those of the project.
CachedEntriesTrue ==
  /\ entriesPromise # None /\ loads[entriesPromise].stage = "done"
  /\ Batch(gathered) = {} /\ sent = <<>> /\ notices = 0
  => \A f \in Files : loads[entriesPromise].found[f] = Visible(f)

\* The listener tests file changes against the very folder that is cached or
\* being loaded; and that is the configured one as soon as the service has
\* been told of every replacement of the workspace's folders.
CacheFollowsSetting == entriesPromise # None =>
  /\ codexRoot = loads[entriesPromise].root
  /\ notices = 0 => codexRoot = configured

\* Every request gets its entries, whatever happens to the folder meanwhile.
AsksAnswered == \A cl \in Callers : awaits[cl] # None ~> awaits[cl] = None
=============================================================================
