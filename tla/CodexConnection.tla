--------------------------- MODULE CodexConnection ---------------------------
(***************************************************************************)
(* How the codex database file is opened, upgraded, shared and closed:     *)
(* CodexDatabaseMainService._getDatabase and dispose, CodexDatabase.open,  *)
(* _ensureDb and dispose, and the runMigrations they call.                 *)
(*                                                                         *)
(* An opening is an async function.  Each of its statements is an action   *)
(* here, which may fail.  dispose forgets an opening that is under way but *)
(* does not stop it, so a later call may start a second one on the same    *)
(* file, in the same process.  Crash ends the process at any point and     *)
(* launches another build.                                                 *)
(*                                                                         *)
(* Bounds: Connections bounds the openings of one process.  Nothing else   *)
(* grows without bound.                                                    *)
(***************************************************************************)
EXTENDS Naturals

CONSTANTS
  Connections,
  Clients,       \* calls that windows have in flight
  Newest,        \* the newest migration of a build, for each build there is
  None

ASSUME NewestAssumption == Newest \subseteq Nat
ASSUME NoneAssumption == None \notin Connections

VARIABLES
  stored,           \* the file: the migrations in it, and its user_version
  draft,            \* the same, as the open write transaction sees it
  writer,           \* the connection that holds the write lock, or None
  build,            \* the newest migration of the running build
  pc,               \* connection -> where its opening stands
  foreignKeys,      \* connection -> PRAGMA foreign_keys
  next,             \* connection -> the migration its loop is at
  databasePromise,  \* the service: the opening its promise stands for, or None
  database,         \* the service: the connection that resolved, or None
  disposed,
  awaits            \* client -> the connection it awaits, None when idle

file == <<stored, draft, writer>>
service == <<databasePromise, database, disposed>>
vars == <<file, build, pc, foreignKeys, next, service, awaits>>

Database == [schema : SUBSET Nat, version : Nat]
Steps == {"unused", "open", "configure", "foreignKeys", "version", "begin", "migrate",
          "stamp", "commit", "rollback", "close", "rejected", "ready", "disposing",
          "closed"}

Init == /\ stored = [schema |-> {}, version |-> 0]
        /\ draft = stored
        /\ writer = None
        /\ build \in Newest
        /\ pc = [c \in Connections |-> "unused"]
        /\ foreignKeys = [c \in Connections |-> FALSE]
        /\ next = [c \in Connections |-> 0]
        /\ databasePromise = None /\ database = None /\ disposed = FALSE
        /\ awaits = [cl \in Clients |-> None]

Goto(c, step) == pc' = [pc EXCEPT ![c] = step]

----------------------------------------------------------------------------
(* The service. *)

\* A call awaits the opening the service already has, or starts one.
Call(cl) ==
  /\ awaits[cl] = None
  /\ IF databasePromise # None
     THEN /\ awaits' = [awaits EXCEPT ![cl] = databasePromise]
          /\ UNCHANGED <<pc, databasePromise>>
     ELSE \E c \in Connections :
            /\ pc[c] = "unused"
            /\ Goto(c, "open")
            /\ databasePromise' = c
            /\ awaits' = [awaits EXCEPT ![cl] = c]
  /\ UNCHANGED <<file, build, foreignKeys, next, database, disposed>>

\* The promise has settled: the call runs, or rejects.
Answer(cl) ==
  /\ awaits[cl] # None
  /\ pc[awaits[cl]] \in {"ready", "disposing", "closed", "rejected"}
  /\ awaits' = [awaits EXCEPT ![cl] = None]
  /\ UNCHANGED <<file, build, pc, foreignKeys, next, service>>

\* Only a connection that has resolved is disposed of.
Dispose ==
  /\ ~disposed /\ disposed' = TRUE
  /\ IF database = None THEN UNCHANGED pc ELSE Goto(database, "disposing")
  /\ database' = None
  /\ databasePromise' = None
  /\ UNCHANGED <<file, build, foreignKeys, next, awaits>>

\* CodexDatabase.dispose: the close waits for the await of the resolved promise.
Close(c) ==
  /\ pc[c] = "disposing"
  /\ Goto(c, "closed")
  /\ UNCHANGED <<file, build, foreignKeys, next, service, awaits>>

----------------------------------------------------------------------------
(* _ensureDb and runMigrations. *)

Quietly(c) == UNCHANGED <<file, build, service, awaits>>

\* Mutant: the error of mkdir or of the open is not passed on, so the opening
\* goes nowhere and its promise stays pending.
OpenFileSilently(c) ==
  /\ pc[c] = "open"
  /\ Goto(c, "configure") \/ Goto(c, "unused")
  /\ Quietly(c) /\ UNCHANGED <<foreignKeys, next>>

\* mkdir and dbOpen; a failure here has no connection to close.
OpenFile(c) ==
  /\ pc[c] = "open"
  /\ Goto(c, "configure") \/ Goto(c, "rejected")
  /\ Quietly(c) /\ UNCHANGED <<foreignKeys, next>>

\* journal_mode and busy_timeout.
Configure(c) ==
  /\ pc[c] = "configure" /\ Goto(c, "foreignKeys")
  /\ Quietly(c) /\ UNCHANGED <<foreignKeys, next>>

\* Mutant: foreign keys are enabled only on the way to a migration.
EnableForeignKeysToMigrate(c) ==
  /\ pc[c] = "foreignKeys" /\ Goto(c, "version")
  /\ foreignKeys' = [foreignKeys EXCEPT ![c] = stored.version < build]
  /\ Quietly(c) /\ UNCHANGED next

EnableForeignKeys(c) ==
  /\ pc[c] = "foreignKeys" /\ Goto(c, "version")
  /\ foreignKeys' = [foreignKeys EXCEPT ![c] = TRUE]
  /\ Quietly(c) /\ UNCHANGED next

\* The db is resolved: open's then sets _database, disposed or not.
Resolve(c) == /\ Goto(c, "ready")
              /\ database' = c
              /\ UNCHANGED <<build, foreignKeys, next, databasePromise, disposed, awaits>>

\* user_version is read outside the transaction.
ReadVersion(c) ==
  /\ pc[c] = "version"
  /\ IF stored.version >= build
     THEN Resolve(c) /\ UNCHANGED file
     ELSE /\ Goto(c, "begin")
          /\ next' = [next EXCEPT ![c] = stored.version + 1]
          /\ Quietly(c) /\ UNCHANGED foreignKeys

\* A deferred transaction: it takes no lock yet.
Begin(c) ==
  /\ pc[c] = "begin" /\ Goto(c, "migrate")
  /\ Quietly(c) /\ UNCHANGED <<foreignKeys, next>>

Locks(c) == writer \in {None, c} /\ writer' = c

\* Mutant: without BEGIN each statement commits by itself.
RunMigrationUnguarded(c) ==
  /\ pc[c] = "migrate" /\ Locks(c)
  /\ next[c] \notin stored.schema
  /\ stored' = [stored EXCEPT !.schema = @ \cup {next[c]}]
  /\ draft' = stored'
  /\ Goto(c, "stamp")
  /\ UNCHANGED <<build, foreignKeys, next, service, awaits>>

\* The migration's own SQL: CREATE TABLE fails where the table exists.
RunMigration(c) ==
  /\ pc[c] = "migrate" /\ Locks(c)
  /\ next[c] \notin draft.schema
  /\ draft' = [draft EXCEPT !.schema = @ \cup {next[c]}]
  /\ Goto(c, "stamp")
  /\ UNCHANGED <<stored, build, foreignKeys, next, service, awaits>>

\* Mutant: the loop takes one turn too many.
StampVersionPastEnd(c) ==
  /\ pc[c] = "stamp" /\ Locks(c)
  /\ draft' = [draft EXCEPT !.version = next[c]]
  /\ next' = [next EXCEPT ![c] = @ + 1]
  /\ Goto(c, IF next[c] > build THEN "commit" ELSE "migrate")
  /\ UNCHANGED <<stored, build, foreignKeys, service, awaits>>

\* Mutant: the loop commits each migration.
StampVersionAndCommit(c) ==
  /\ pc[c] = "stamp" /\ Locks(c)
  /\ draft' = [draft EXCEPT !.version = next[c]]
  /\ stored' = draft'
  /\ next' = [next EXCEPT ![c] = @ + 1]
  /\ Goto(c, IF next[c] = build THEN "commit" ELSE "migrate")
  /\ UNCHANGED <<build, foreignKeys, service, awaits>>

\* PRAGMA user_version, then the next turn of the loop.
StampVersion(c) ==
  /\ pc[c] = "stamp" /\ Locks(c)
  /\ draft' = [draft EXCEPT !.version = next[c]]
  /\ next' = [next EXCEPT ![c] = @ + 1]
  /\ Goto(c, IF next[c] = build THEN "commit" ELSE "migrate")
  /\ UNCHANGED <<stored, build, foreignKeys, service, awaits>>

\* COMMIT, and the promise resolves.
Commit(c) ==
  /\ pc[c] = "commit" /\ writer = c
  /\ stored' = draft
  /\ writer' = None
  /\ Resolve(c)
  /\ UNCHANGED draft

\* Whatever c had written goes, when its transaction ends.
Discard(c) == IF writer = c THEN writer' = None /\ draft' = stored /\ UNCHANGED stored
              ELSE UNCHANGED file

\* A statement fails.  BEGIN and what precedes it are outside the try block.
Fail(c) ==
  /\ \/ pc[c] \in {"configure", "foreignKeys", "version", "begin"} /\ Goto(c, "close")
     \/ pc[c] \in {"migrate", "stamp", "commit"} /\ Goto(c, "rollback")
     \/ pc[c] = "rollback" /\ Goto(c, "close")
  /\ Quietly(c) /\ UNCHANGED <<foreignKeys, next>>

Rollback(c) ==
  /\ pc[c] = "rollback" /\ Goto(c, "close") /\ Discard(c)
  /\ UNCHANGED <<build, foreignKeys, next, service, awaits>>

\* Mutant: the catch of _ensureDb does not close the connection.
RejectUnclosed(c) ==
  /\ pc[c] = "close" /\ Goto(c, "rejected")
  /\ Quietly(c) /\ UNCHANGED <<foreignKeys, next>>

\* The catch of _ensureDb: close, and reject.  The service keeps the promise.
CloseFailed(c) ==
  /\ pc[c] = "close" /\ Goto(c, "rejected") /\ Discard(c)
  /\ UNCHANGED <<build, foreignKeys, next, service, awaits>>

\* The process ends; the file keeps what was committed.
Crash ==
  /\ build' \in Newest
  /\ draft' = stored /\ writer' = None /\ UNCHANGED stored
  /\ pc' = [c \in Connections |-> "unused"]
  /\ foreignKeys' = [c \in Connections |-> FALSE]
  /\ next' = [c \in Connections |-> 0]
  /\ databasePromise' = None /\ database' = None /\ disposed' = FALSE
  /\ awaits' = [cl \in Clients |-> None]

Step(c) == \/ OpenFile(c) \/ Configure(c) \/ EnableForeignKeys(c) \/ ReadVersion(c)
           \/ Begin(c) \/ RunMigration(c) \/ StampVersion(c) \/ Commit(c)
           \/ Fail(c) \/ Rollback(c) \/ CloseFailed(c) \/ Close(c)

Next == \/ \E cl \in Clients : Call(cl) \/ Answer(cl)
        \/ \E c \in Connections : Step(c)
        \/ Dispose
        \/ Crash

Spec == Init /\ [][Next]_vars

\* A statement that has been submitted succeeds or fails, and continuations run.
FairSpec == /\ Spec
            /\ \A c \in Connections : WF_vars(Step(c))
            /\ \A cl \in Clients : WF_vars(Answer(cl))

----------------------------------------------------------------------------
(* Properties. *)

\* Every variable has its type, and no loop runs past the last migration.
TypeOK ==
  /\ stored \in Database /\ draft \in Database
  /\ writer \in Connections \cup {None}
  /\ build \in Newest
  /\ pc \in [Connections -> Steps]
  /\ foreignKeys \in [Connections -> BOOLEAN]
  /\ next \in [Connections -> 0..build + 1]
  /\ databasePromise \in Connections \cup {None}
  /\ database \in Connections \cup {None}
  /\ disposed \in BOOLEAN
  /\ awaits \in [Clients -> Connections \cup {None}]

\* The file's tables are those its user_version says, wherever an upgrade
\* failed or the process ended: what runMigrations reads at the next launch
\* tells it what is left to do.
SchemaMatchesVersion == stored.schema = 1..stored.version

\* A connection that calls run on enforces foreign keys and has every table
\* the build knows of, also when the opening found nothing to migrate, or
\* raced with another.  CodexDatabase relies on both.
HandedOutReady == \A c \in Connections : pc[c] = "ready" =>
  foreignKeys[c] /\ 1..build \subseteq stored.schema

\* An opening that has settled holds no transaction: the lock of a failed
\* upgrade, even of one whose ROLLBACK failed too, does not lock others out.
NoLockLeftBehind == \A c \in Connections :
  pc[c] \in {"rejected", "ready", "disposing", "closed"} => writer # c

\* Every call is answered, whatever fails while the database is opened.
CallsAnswered == \A cl \in Clients : awaits[cl] # None ~> awaits[cl] = None

\* An upgrade is all or nothing.
Schema == INSTANCE SchemaUpgrade WITH schema <- stored.schema
ImplementsUpgrade == Schema!Spec
=============================================================================
