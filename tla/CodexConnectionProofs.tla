------------------------ MODULE CodexConnectionProofs ------------------------
(***************************************************************************)
(* What holds of the codex database file and of its connections for every  *)
(* list of migrations and any number of openings, calls and launches.      *)
(***************************************************************************)
EXTENDS CodexConnection, TLAPS

----------------------------------------------------------------------------
(* The inductive invariant. *)

\* What the open write transaction holds, by the statement its connection is at.
DraftBegun(c) == /\ draft.schema = 1..draft.version
                 /\ next[c] = draft.version + 1
DraftMigrated(c) == /\ draft.schema = 1..next[c]
                    /\ draft.version + 1 = next[c]
DraftFinished == draft.schema = 1..build /\ draft.version = build

Draft ==
  /\ writer = None => draft = stored
  /\ writer # None =>
       /\ stored.version < build
       /\ pc[writer] \in {"migrate", "stamp", "commit", "rollback", "close"}
       /\ pc[writer] = "migrate" => DraftBegun(writer)
       /\ pc[writer] = "stamp" => DraftMigrated(writer)
       /\ pc[writer] = "commit" => DraftFinished

\* The loop of a connection starts at most one past what the file has: another
\* connection may have upgraded the file since the version was read.
Loop == \A c \in Connections :
  /\ pc[c] \in {"begin", "migrate", "stamp"} => next[c] \in 1..build
  /\ pc[c] \in {"begin", "migrate"} /\ writer # c => next[c] <= stored.version + 1
  /\ pc[c] \in {"stamp", "commit"} => writer = c

Enforced == \A c \in Connections :
  pc[c] \in {"version", "begin", "migrate", "stamp", "commit", "ready"} => foreignKeys[c]

Upgraded == \A c \in Connections : pc[c] = "ready" => build <= stored.version

\* The service holds on to a connection only while it is open.
Held == database # None => pc[database] = "ready"

ConnectionInv ==
  TypeOK /\ SchemaMatchesVersion /\ Draft /\ Loop /\ Enforced /\ Upgraded /\ Held

----------------------------------------------------------------------------
(* Small facts. *)

LEMMA Numbers ==
  ASSUME TypeOK
  PROVE  /\ build \in Nat /\ build + 1 \in Nat
         /\ stored.version \in Nat /\ draft.version \in Nat
         /\ stored.schema \in SUBSET Nat /\ draft.schema \in SUBSET Nat
         /\ 0 \in 0..build + 1
  <1>1. build \in Nat
    BY NewestAssumption DEF TypeOK
  <1>2. stored \in Database /\ draft \in Database
    BY DEF TypeOK
  <1> QED BY <1>1, <1>2 DEF Database

LEMMA StepNames ==
  {"unused", "open", "configure", "foreignKeys", "version", "begin", "migrate", "stamp",
   "commit", "rollback", "close", "rejected", "ready", "disposing", "closed"} = Steps
  BY DEF Steps

\* Where one connection's pc moves, the others' stay.
LEMMA Moves ==
  ASSUME TypeOK, NEW c \in Connections, NEW step \in Steps, Goto(c, step)
  PROVE  /\ pc' \in [Connections -> Steps]
         /\ pc'[c] = step
         /\ \A d \in Connections : d # c => pc'[d] = pc[d]
  BY DEF TypeOK, Goto

----------------------------------------------------------------------------
(* The invariant holds at first, and of every launch. *)

LEMMA ConnectionInit == Init => ConnectionInv
  <1> SUFFICES ASSUME Init PROVE ConnectionInv
    OBVIOUS
  <1>1. build \in Nat /\ 0 \in 0..build + 1
    BY NewestAssumption DEF Init
  <1>2. stored \in Database /\ draft \in Database
    BY DEF Init, Database
  <1>3. pc \in [Connections -> Steps]
    BY StepNames DEF Init
  <1>4. TypeOK
    BY <1>1, <1>2, <1>3 DEF Init, TypeOK
  <1>5. SchemaMatchesVersion
    BY DEF Init, SchemaMatchesVersion
  <1>6. Draft /\ Held
    BY DEF Init, Draft, Held
  <1>7. \A c \in Connections : pc[c] = "unused"
    BY DEF Init
  <1>8. Loop
    BY <1>7 DEF Loop
  <1>9. Enforced
    BY <1>7 DEF Enforced
  <1>10. Upgraded
    BY <1>7 DEF Upgraded
  <1> QED
    BY <1>9, <1>10, <1>4, <1>5, <1>6, <1>8 DEF ConnectionInv

LEMMA CrashKeeps ==
  ASSUME ConnectionInv, Crash
  PROVE  ConnectionInv'
  <1>1. build' \in Nat /\ 0 \in 0..build' + 1
    <2>1. build' \in Newest
      BY DEF Crash
    <2>2. build' \in Nat
      BY <2>1, NewestAssumption
    <2>3. \A n \in Nat : 0 \in 0..n + 1
      OBVIOUS
    <2> QED BY <2>2, <2>3
  <1>2. stored' \in Database /\ draft' \in Database
    <2>1. stored \in Database /\ stored' = stored /\ draft' = stored
      BY DEF ConnectionInv, TypeOK, Crash
    <2> QED BY <2>1
  <1>3. pc' \in [Connections -> Steps]
    BY StepNames DEF Crash
  <1>4. TypeOK'
    BY <1>1, <1>2, <1>3 DEF Crash, TypeOK
  <1>5. SchemaMatchesVersion'
    BY DEF ConnectionInv, Crash, SchemaMatchesVersion
  <1> QED
    BY <1>4, <1>5 DEF Crash, ConnectionInv, Draft, Loop, Enforced, Upgraded, Held

----------------------------------------------------------------------------
(* Steps that leave the file alone. *)

\* A connection outside the transaction moves on, and no step of it is taken
\* for granted: the clauses of the invariant are asked of it alone.
LEMMA OutsideKeeps ==
  ASSUME ConnectionInv, TypeOK', NEW c \in Connections, NEW step \in Steps, Goto(c, step),
         UNCHANGED <<file, build>>,
         writer # c,
         step \notin {"stamp", "commit"},
         \A d \in Connections : d # c => next'[d] = next[d] /\ foreignKeys'[d] = foreignKeys[d],
         step \in {"begin", "migrate"} =>
           next'[c] \in 1..build /\ next'[c] <= stored.version + 1,
         step \in {"version", "begin", "migrate", "ready"} => foreignKeys'[c],
         step = "ready" => build <= stored.version,
         Held'
  PROVE  ConnectionInv'
  <1>1. /\ pc'[c] = step
        /\ \A d \in Connections : d # c => pc'[d] = pc[d]
    BY Moves DEF ConnectionInv
  <1>2. UNCHANGED <<stored, draft, writer, build>>
    BY DEF file
  <1>3. SchemaMatchesVersion'
    BY <1>2 DEF ConnectionInv, SchemaMatchesVersion
  <1>4. Draft'
    <2>1. CASE writer = None
      BY <1>2, <2>1 DEF ConnectionInv, Draft
    <2>2. CASE writer # None
      <3>1. writer \in Connections /\ pc'[writer] = pc[writer] /\ next'[writer] = next[writer]
        BY <1>1, <2>2 DEF ConnectionInv, TypeOK
      <3> QED
        BY <1>2, <3>1, <2>2 DEF ConnectionInv, Draft, DraftBegun, DraftMigrated, DraftFinished
    <2> QED BY <2>1, <2>2
  <1>5. Loop'
    BY <1>1, <1>2 DEF ConnectionInv, Loop
  <1>6. Enforced'
    BY <1>1 DEF ConnectionInv, Enforced
  <1>7. Upgraded'
    BY <1>1, <1>2 DEF ConnectionInv, Upgraded
  <1> QED BY <1>3, <1>4, <1>5, <1>6, <1>7 DEF ConnectionInv

\* A connection that is at none of the transaction's statements has not the lock.
LEMMA NotWriter ==
  ASSUME ConnectionInv, NEW c \in Connections,
         pc[c] \notin {"migrate", "stamp", "commit", "rollback", "close"}
  PROVE  writer # c
  BY NoneAssumption DEF ConnectionInv, Draft

\* Nor has the service that connection.
LEMMA NotHeld ==
  ASSUME ConnectionInv, NEW c \in Connections, pc[c] # "ready", NEW step \in Steps,
         Goto(c, step), database' = database
  PROVE  Held'
  <1>1. \A d \in Connections : d # c => pc'[d] = pc[d]
    BY Moves DEF ConnectionInv
  <1> QED BY <1>1, NoneAssumption DEF ConnectionInv, Held, TypeOK

LEMMA CallKeeps ==
  ASSUME ConnectionInv, NEW cl \in Clients, Call(cl)
  PROVE  ConnectionInv'
  <1>1. CASE databasePromise # None
    <2>1. UNCHANGED <<file, build, pc, foreignKeys, next, service>>
      BY <1>1 DEF Call, service
    <2>2. TypeOK'
      BY <1>1, <2>1 DEF ConnectionInv, TypeOK, Call, file, service
    <2> QED
      BY <2>1, <2>2 DEF ConnectionInv, SchemaMatchesVersion, Draft, DraftBegun,
           DraftMigrated, DraftFinished, Loop, Enforced, Upgraded, Held, file, service
  <1>2. CASE databasePromise = None
    <2>1. PICK c \in Connections : /\ pc[c] = "unused"
                                   /\ Goto(c, "open")
                                   /\ databasePromise' = c
                                   /\ awaits' = [awaits EXCEPT ![cl] = c]
      BY <1>2 DEF Call
    <2>2. UNCHANGED <<file, build, foreignKeys, next, database, disposed>> /\ "open" \in Steps
      BY StepNames DEF Call
    <2>3. TypeOK'
      BY <2>1, <2>2, Moves DEF ConnectionInv, TypeOK, file
    <2>4. Held'
      BY <2>1, <2>2, NotHeld
    <2> QED
      BY <2>1, <2>2, <2>3, <2>4, NotWriter, OutsideKeeps
  <1> QED BY <1>1, <1>2

LEMMA AnswerKeeps ==
  ASSUME ConnectionInv, NEW cl \in Clients, Answer(cl)
  PROVE  ConnectionInv'
  <1>1. UNCHANGED <<file, build, pc, foreignKeys, next, service>>
    BY DEF Answer
  <1>2. TypeOK'
    BY <1>1 DEF ConnectionInv, TypeOK, Answer, file, service
  <1> QED
    BY <1>1, <1>2 DEF ConnectionInv, SchemaMatchesVersion, Draft, DraftBegun,
         DraftMigrated, DraftFinished, Loop, Enforced, Upgraded, Held, file, service

LEMMA DisposeKeeps ==
  ASSUME ConnectionInv, Dispose
  PROVE  ConnectionInv'
  <1>1. UNCHANGED <<file, build, foreignKeys, next>> /\ database' = None
    BY DEF Dispose
  <1>2. Held'
    BY <1>1 DEF Held
  <1>3. CASE database = None
    <2>1. UNCHANGED pc
      BY <1>3 DEF Dispose
    <2>2. TypeOK'
      BY <1>1, <2>1 DEF ConnectionInv, TypeOK, Dispose, file
    <2> QED
      BY <1>1, <1>2, <2>1, <2>2 DEF ConnectionInv, SchemaMatchesVersion, Draft, DraftBegun,
           DraftMigrated, DraftFinished, Loop, Enforced, Upgraded, file
  <1>4. CASE database # None
    <2>1. PICK c \in Connections : c = database /\ pc[c] = "ready"
      BY <1>4 DEF ConnectionInv, TypeOK, Held
    <2>2. Goto(c, "disposing") /\ "disposing" \in Steps
      BY <1>4, <2>1, StepNames DEF Dispose
    <2>3. TypeOK'
      BY <1>1, <2>2, Moves DEF ConnectionInv, TypeOK, Dispose, file
    <2> QED
      BY <1>1, <1>2, <2>1, <2>2, <2>3, NotWriter, OutsideKeeps
  <1> QED BY <1>3, <1>4

\* The types after a step of a connection that leaves next alone.
LEMMA StepTypes ==
  ASSUME TypeOK, NEW c \in Connections, NEW step \in Steps, Goto(c, step),
         stored' \in Database, draft' \in Database, writer' \in Connections \cup {None},
         foreignKeys' \in [Connections -> BOOLEAN],
         next' \in [Connections -> 0..build + 1],
         database' \in Connections \cup {None},
         UNCHANGED <<build, databasePromise, disposed, awaits>>
  PROVE  TypeOK'
  BY Moves DEF TypeOK

LEMMA UnchangedTypes ==
  ASSUME TypeOK
  PROVE  /\ UNCHANGED file => /\ stored' \in Database /\ draft' \in Database
                              /\ writer' \in Connections \cup {None}
         /\ UNCHANGED foreignKeys => foreignKeys' \in [Connections -> BOOLEAN]
         /\ UNCHANGED next => next' \in [Connections -> 0..build + 1]
         /\ UNCHANGED database => database' \in Connections \cup {None}
  BY DEF TypeOK, file

LEMMA OpeningKeeps ==
  ASSUME ConnectionInv, NEW c \in Connections,
         OpenFile(c) \/ Configure(c) \/ EnableForeignKeys(c) \/ Begin(c)
  PROVE  ConnectionInv'
  <1>0. TypeOK
    BY DEF ConnectionInv
  <1>1. UNCHANGED <<file, build, service, awaits, next>>
    BY DEF OpenFile, Configure, EnableForeignKeys, Begin, Quietly
  <1>2. CASE OpenFile(c) \/ Configure(c)
    <2>1. PICK step \in {"configure", "rejected", "foreignKeys"} : Goto(c, step)
      BY <1>2 DEF OpenFile, Configure
    <2>2. step \in Steps /\ pc[c] \in {"open", "configure"} /\ UNCHANGED foreignKeys
      BY <1>2, StepNames DEF OpenFile, Configure
    <2>3. TypeOK'
      BY <1>0, <1>1, <2>1, <2>2, UnchangedTypes, StepTypes DEF service
    <2> QED
      BY <1>1, <2>1, <2>2, <2>3, NotWriter, NotHeld, OutsideKeeps DEF service
  <1>3. CASE EnableForeignKeys(c)
    <2>1. /\ pc[c] = "foreignKeys" /\ Goto(c, "version") /\ "version" \in Steps
          /\ foreignKeys' = [foreignKeys EXCEPT ![c] = TRUE]
      BY <1>3, StepNames DEF EnableForeignKeys
    <2>2. /\ foreignKeys' \in [Connections -> BOOLEAN] /\ foreignKeys'[c]
          /\ \A d \in Connections : d # c => foreignKeys'[d] = foreignKeys[d]
      BY <1>0, <2>1 DEF TypeOK
    <2>3. TypeOK'
      BY <1>0, <1>1, <2>1, <2>2, UnchangedTypes, StepTypes DEF service
    <2> QED
      BY <1>1, <2>1, <2>2, <2>3, NotWriter, NotHeld, OutsideKeeps DEF service
  <1>4. CASE Begin(c)
    <2>1. /\ pc[c] = "begin" /\ Goto(c, "migrate") /\ "migrate" \in Steps
          /\ UNCHANGED foreignKeys
      BY <1>4, StepNames DEF Begin
    <2>2. /\ next'[c] \in 1..build /\ next'[c] <= stored.version + 1 /\ foreignKeys'[c]
          /\ writer # c
      BY <1>1, <2>1, NotWriter DEF ConnectionInv, Loop, Enforced
    <2>3. TypeOK'
      BY <1>0, <1>1, <2>1, UnchangedTypes, StepTypes DEF service
    <2> QED
      BY <1>1, <2>1, <2>2, <2>3, NotHeld, OutsideKeeps DEF service
  <1> QED BY <1>2, <1>3, <1>4

LEMMA ReadVersionKeeps ==
  ASSUME ConnectionInv, NEW c \in Connections, ReadVersion(c)
  PROVE  ConnectionInv'
  <1>0. TypeOK /\ pc[c] = "version" /\ UNCHANGED <<file, build, foreignKeys, awaits>>
    BY DEF ConnectionInv, ReadVersion, Quietly, Resolve
  <1>1. foreignKeys'[c] /\ writer # c
    BY <1>0, NotWriter DEF ConnectionInv, Enforced
  <1>2. CASE stored.version >= build
    <2>1. /\ Goto(c, "ready") /\ "ready" \in Steps /\ database' = c
          /\ UNCHANGED <<next, databasePromise, disposed>>
      BY <1>2, StepNames DEF ReadVersion, Resolve
    <2>2. TypeOK'
      BY <1>0, <2>1, UnchangedTypes, StepTypes
    <2>3. Held'
      BY <1>0, <2>1, Moves DEF Held
    <2> QED
      BY <1>0, <1>1, <1>2, <2>1, <2>2, <2>3, Numbers, OutsideKeeps
  <1>3. CASE ~(stored.version >= build)
    <2>1. /\ Goto(c, "begin") /\ "begin" \in Steps
          /\ next' = [next EXCEPT ![c] = stored.version + 1]
          /\ UNCHANGED service
      BY <1>3, StepNames DEF ReadVersion, Quietly
    <2>2. stored.version + 1 \in 1..build /\ stored.version + 1 \in 0..build + 1
      BY <1>0, <1>3, Numbers
    <2>3. /\ next' \in [Connections -> 0..build + 1] /\ next'[c] = stored.version + 1
          /\ \A d \in Connections : d # c => next'[d] = next[d]
      BY <1>0, <2>1, <2>2 DEF TypeOK
    <2>4. TypeOK'
      BY <1>0, <2>1, <2>3, UnchangedTypes, StepTypes DEF service
    <2>5. next'[c] \in 1..build /\ next'[c] <= stored.version + 1
      BY <1>0, <2>2, <2>3, Numbers
    <2> QED
      BY <1>0, <1>1, <2>1, <2>3, <2>4, <2>5, NotHeld, OutsideKeeps DEF service
  <1> QED BY <1>2, <1>3

LEMMA CloseKeeps ==
  ASSUME ConnectionInv, NEW c \in Connections, Close(c)
  PROVE  ConnectionInv'
  <1>0. /\ TypeOK /\ pc[c] = "disposing" /\ Goto(c, "closed") /\ "closed" \in Steps
        /\ UNCHANGED <<file, build, foreignKeys, next, service, awaits>>
    BY StepNames DEF ConnectionInv, Close
  <1>1. TypeOK'
    BY <1>0, UnchangedTypes, StepTypes DEF service
  <1> QED
    BY <1>0, <1>1, NotWriter, NotHeld, OutsideKeeps DEF service

----------------------------------------------------------------------------
(* Steps inside the transaction. *)

\* What a step of the transaction leaves alone.
LEMMA InsideKeeps ==
  ASSUME ConnectionInv, TypeOK', NEW c \in Connections, NEW step \in Steps, Goto(c, step),
         step \notin {"version", "begin"},
         pc[c] \notin {"ready"},
         UNCHANGED <<build, foreignKeys>>,
         stored.version <= stored'.version,
         step = "ready" => build <= stored'.version /\ database' = c,
         step # "ready" => database' = database,
         step \in {"migrate", "stamp", "commit", "ready"} => foreignKeys[c]
  PROVE  Enforced' /\ Upgraded' /\ Held'
  <1>1. /\ pc'[c] = step
        /\ \A d \in Connections : d # c => pc'[d] = pc[d]
    BY Moves DEF ConnectionInv
  <1>2. Enforced'
    BY <1>1 DEF ConnectionInv, Enforced
  <1>3. Upgraded'
    <2>1. build \in Nat /\ stored.version \in Nat /\ stored'.version \in Nat
      BY NewestAssumption DEF ConnectionInv, TypeOK, Database
    <2> QED BY <1>1, <2>1 DEF ConnectionInv, Upgraded
  <1>4. Held'
    BY <1>1, NotHeld DEF Held
  <1> QED BY <1>2, <1>3, <1>4

LEMMA RunMigrationKeeps ==
  ASSUME ConnectionInv, NEW c \in Connections, RunMigration(c)
  PROVE  ConnectionInv'
  <1>0. /\ TypeOK /\ pc[c] = "migrate" /\ Goto(c, "stamp") /\ "stamp" \in Steps
        /\ writer \in {None, c} /\ writer' = c
        /\ next[c] \notin draft.schema
        /\ draft' = [draft EXCEPT !.schema = @ \cup {next[c]}]
        /\ UNCHANGED <<stored, build, foreignKeys, next, service, awaits>>
    BY StepNames DEF ConnectionInv, RunMigration, Locks
  <1>1. next[c] \in 1..build /\ foreignKeys[c]
    BY <1>0 DEF ConnectionInv, Loop, Enforced
  <1>2. /\ draft.schema = 1..draft.version /\ next[c] = draft.version + 1
        /\ stored.version < build
    <2>1. CASE writer = None
      <3>1. draft = stored /\ next[c] <= stored.version + 1 /\ draft.schema = 1..draft.version
        BY <1>0, <2>1, NoneAssumption DEF ConnectionInv, Draft, Loop, SchemaMatchesVersion
      <3> QED BY <1>0, <1>1, <3>1, Numbers
    <2>2. CASE writer = c
      BY <1>0, <2>2, NoneAssumption DEF ConnectionInv, Draft, DraftBegun
    <2> QED BY <1>0, <2>1, <2>2
  <1>3. draft' \in Database /\ draft'.schema = 1..next[c] /\ draft'.version + 1 = next[c]
    <2>1. draft \in Database /\ next[c] \in Nat
      BY <1>0, <1>1 DEF TypeOK
    <2>2. /\ draft' = [schema |-> draft.schema \cup {next[c]}, version |-> draft.version]
          /\ draft' \in Database
      BY <1>0, <2>1 DEF Database
    <2>3. 1..draft.version \cup {draft.version + 1} = 1..draft.version + 1
      BY <1>0, Numbers
    <2> QED BY <1>2, <2>2, <2>3
  <1>4. TypeOK'
    <2>1. stored' \in Database /\ writer' \in Connections \cup {None}
      BY <1>0 DEF TypeOK
    <2> QED BY <1>0, <1>3, <2>1, UnchangedTypes, StepTypes DEF service
  <1>5. /\ pc'[c] = "stamp"
        /\ \A d \in Connections : d # c => pc'[d] = pc[d]
    BY <1>0, Moves
  <1>6. Enforced' /\ Upgraded' /\ Held'
    BY <1>0, <1>1, <1>4, Numbers, InsideKeeps DEF service
  <1>7. SchemaMatchesVersion'
    BY <1>0 DEF ConnectionInv, SchemaMatchesVersion
  <1>8. Draft'
    BY <1>0, <1>2, <1>3, <1>5, NoneAssumption DEF Draft, DraftMigrated
  <1>9. Loop'
    BY <1>0, <1>1, <1>5, NoneAssumption DEF ConnectionInv, Loop
  <1> QED BY <1>4, <1>6, <1>7, <1>8, <1>9 DEF ConnectionInv

LEMMA StampVersionKeeps ==
  ASSUME ConnectionInv, NEW c \in Connections, StampVersion(c)
  PROVE  ConnectionInv'
  <1> DEFINE step == IF next[c] = build THEN "commit" ELSE "migrate"
  <1>0. /\ TypeOK /\ pc[c] = "stamp" /\ Goto(c, step) /\ step \in Steps
        /\ draft' = [draft EXCEPT !.version = next[c]]
        /\ next' = [next EXCEPT ![c] = @ + 1]
        /\ writer = c /\ writer' = c
        /\ UNCHANGED <<stored, build, foreignKeys, service, awaits>>
    BY StepNames DEF ConnectionInv, StampVersion, Locks, Loop
  <1>1. next[c] \in 1..build /\ foreignKeys[c] /\ stored.version < build
    BY <1>0, NoneAssumption DEF ConnectionInv, Loop, Enforced, Draft
  <1>2. draft' \in Database /\ draft'.schema = 1..draft'.version /\ draft'.version = next[c]
    <2>1. draft \in Database /\ next[c] \in Nat
      BY <1>0, <1>1 DEF TypeOK
    <2>2. draft.schema = 1..next[c]
      BY <1>0, NoneAssumption DEF ConnectionInv, Draft, DraftMigrated
    <2> QED BY <1>0, <2>1, <2>2 DEF Database
  <1>3. /\ next' \in [Connections -> 0..build + 1] /\ next'[c] = next[c] + 1
        /\ \A d \in Connections : d # c => next'[d] = next[d]
    <2>1. next[c] + 1 \in 0..build + 1
      BY <1>0, <1>1, Numbers
    <2> QED BY <1>0, <2>1 DEF TypeOK
  <1>4. TypeOK'
    BY <1>0, <1>2, <1>3, UnchangedTypes, StepTypes DEF service, TypeOK
  <1>5. /\ pc'[c] = step
        /\ \A d \in Connections : d # c => pc'[d] = pc[d]
    BY <1>0, Moves
  <1>6. Enforced' /\ Upgraded' /\ Held'
    <2>1. step \notin {"version", "begin", "ready"}
      OBVIOUS
    <2>2. database' = database /\ stored.version <= stored'.version
      BY <1>0, Numbers DEF service
    <2> HIDE DEF step
    <2> QED BY <1>0, <1>1, <1>4, <2>1, <2>2, InsideKeeps
  <1>7. SchemaMatchesVersion'
    BY <1>0 DEF ConnectionInv, SchemaMatchesVersion
  <1>8. step = "migrate" => next'[c] \in 1..build
    BY <1>0, <1>1, <1>3, Numbers
  <1>9. step = "commit" => draft'.schema = 1..build /\ draft'.version = build
    BY <1>2
  <1>10. step \in {"migrate", "commit"}
    OBVIOUS
  <1> HIDE DEF step
  <1>11. Draft'
    BY <1>0, <1>1, <1>2, <1>3, <1>5, <1>9, <1>10, NoneAssumption
       DEF Draft, DraftBegun, DraftFinished
  <1>12. Loop'
    BY <1>0, <1>3, <1>5, <1>8, <1>10 DEF ConnectionInv, Loop
  <1> QED BY <1>4, <1>6, <1>7, <1>11, <1>12 DEF ConnectionInv

LEMMA CommitKeeps ==
  ASSUME ConnectionInv, NEW c \in Connections, Commit(c)
  PROVE  ConnectionInv'
  <1>0. /\ TypeOK /\ pc[c] = "commit" /\ Goto(c, "ready") /\ "ready" \in Steps
        /\ writer = c /\ writer' = None /\ stored' = draft /\ database' = c
        /\ UNCHANGED <<draft, build, foreignKeys, next, databasePromise, disposed, awaits>>
    BY StepNames DEF ConnectionInv, Commit, Resolve
  <1>1. /\ foreignKeys[c] /\ stored.version < build
        /\ draft.schema = 1..build /\ draft.version = build
    BY <1>0, NoneAssumption DEF ConnectionInv, Enforced, Draft, DraftFinished
  <1>2. /\ stored' \in Database /\ draft' \in Database
        /\ writer' \in Connections \cup {None} /\ database' \in Connections \cup {None}
    BY <1>0 DEF TypeOK
  <1>3. TypeOK'
    BY <1>0, <1>2, UnchangedTypes, StepTypes
  <1>4. /\ pc'[c] = "ready"
        /\ \A d \in Connections : d # c => pc'[d] = pc[d]
    BY <1>0, Moves
  <1>5. Enforced' /\ Upgraded' /\ Held'
    BY <1>0, <1>1, <1>3, Numbers, InsideKeeps
  <1>6. SchemaMatchesVersion' /\ Draft'
    BY <1>0, <1>1 DEF SchemaMatchesVersion, Draft
  <1>7. Loop'
    <2>1. \A d \in Connections : pc[d] \in {"begin", "migrate", "stamp"} => next[d] <= build + 1
      BY Numbers DEF ConnectionInv, Loop
    <2>2. \A d \in Connections : pc'[d] \notin {"stamp", "commit"}
      BY <1>0, <1>4 DEF ConnectionInv, Loop
    <2> QED BY <1>0, <1>1, <1>4, <2>1, <2>2 DEF ConnectionInv, Loop
  <1> QED BY <1>3, <1>5, <1>6, <1>7 DEF ConnectionInv

LEMMA FailKeeps ==
  ASSUME ConnectionInv, NEW c \in Connections, Fail(c)
  PROVE  ConnectionInv'
  <1>1. PICK step \in {"rollback", "close"} :
          /\ Goto(c, step)
          /\ pc[c] \notin {"ready"}
    BY DEF Fail
  <1>2. TypeOK /\ step \in Steps /\ UNCHANGED <<file, build, foreignKeys, next, service, awaits>>
    BY StepNames DEF ConnectionInv, Fail, Quietly
  <1>3. TypeOK'
    BY <1>1, <1>2, UnchangedTypes, StepTypes DEF service
  <1>4. /\ pc'[c] = step
        /\ \A d \in Connections : d # c => pc'[d] = pc[d]
    BY <1>1, <1>2, Moves
  <1>5. Enforced' /\ Upgraded' /\ Held'
    BY <1>1, <1>2, <1>3, Numbers, InsideKeeps DEF service, file
  <1>6. SchemaMatchesVersion'
    BY <1>2 DEF ConnectionInv, SchemaMatchesVersion, file
  <1>7. Draft'
    BY <1>1, <1>2, <1>4 DEF ConnectionInv, TypeOK, Draft, DraftBegun, DraftMigrated,
         DraftFinished, file
  <1>8. Loop'
    BY <1>1, <1>2, <1>4 DEF ConnectionInv, Loop, file
  <1> QED BY <1>3, <1>5, <1>6, <1>7, <1>8 DEF ConnectionInv

LEMMA DiscardKeeps ==
  ASSUME ConnectionInv, NEW c \in Connections, Rollback(c) \/ CloseFailed(c)
  PROVE  ConnectionInv'
  <1>1. PICK step \in {"close", "rejected"} :
          /\ Goto(c, step)
          /\ pc[c] \notin {"ready"}
    BY DEF Rollback, CloseFailed
  <1>2. /\ TypeOK /\ step \in Steps /\ Discard(c)
        /\ UNCHANGED <<build, foreignKeys, next, service, awaits>>
    BY StepNames DEF ConnectionInv, Rollback, CloseFailed
  <1>3. UNCHANGED stored /\ writer' # c
        /\ \/ writer = c /\ writer' = None /\ draft' = stored
           \/ UNCHANGED <<writer, draft>>
    BY <1>2, NoneAssumption DEF Discard, file
  <1>4. TypeOK'
    <2>1. /\ stored' \in Database /\ draft' \in Database
          /\ writer' \in Connections \cup {None}
      BY <1>2, <1>3 DEF TypeOK
    <2> QED BY <1>1, <1>2, <2>1, UnchangedTypes, StepTypes DEF service
  <1>5. /\ pc'[c] = step
        /\ \A d \in Connections : d # c => pc'[d] = pc[d]
    BY <1>1, <1>2, Moves
  <1>6. Enforced' /\ Upgraded' /\ Held'
    BY <1>1, <1>2, <1>3, <1>4, Numbers, InsideKeeps DEF service
  <1>7. SchemaMatchesVersion'
    BY <1>3 DEF ConnectionInv, SchemaMatchesVersion
  <1>8. Draft'
    BY <1>2, <1>3, <1>4, <1>5 DEF ConnectionInv, TypeOK, Draft, DraftBegun, DraftMigrated,
         DraftFinished
  <1>9. Loop'
    BY <1>1, <1>2, <1>3, <1>5 DEF ConnectionInv, Loop
  <1> QED BY <1>4, <1>6, <1>7, <1>8, <1>9 DEF ConnectionInv

----------------------------------------------------------------------------
(* The theorems. *)

LEMMA ConnectionStep == ConnectionInv /\ [Next]_vars => ConnectionInv'
  <1> SUFFICES ASSUME ConnectionInv, [Next]_vars PROVE ConnectionInv'
    OBVIOUS
  <1>1. CASE Next
    BY <1>1, CallKeeps, AnswerKeeps, OpeningKeeps, ReadVersionKeeps, RunMigrationKeeps,
       StampVersionKeeps, CommitKeeps, FailKeeps, DiscardKeeps, CloseKeeps, DisposeKeeps,
       CrashKeeps DEF Next, Step
  <1>2. CASE UNCHANGED vars
    BY <1>2 DEF vars, file, service, ConnectionInv, TypeOK, SchemaMatchesVersion, Draft,
         DraftBegun, DraftMigrated, DraftFinished, Loop, Enforced, Upgraded, Held
  <1> QED BY <1>1, <1>2

LEMMA ConnectionInvariant == Spec => []ConnectionInv
  BY ConnectionInit, ConnectionStep, PTL DEF Spec

\* Every variable of the service, of the openings and of the file keeps its
\* type, and the loop of runMigrations stays within the list of migrations.
THEOREM ConnectionTypes == Spec => []TypeOK
  <1>1. ConnectionInv => TypeOK
    BY DEF ConnectionInv
  <1> QED BY <1>1, ConnectionInvariant, PTL

\* The tables in the file are those of its user_version, whatever fails or
\* crashes while runMigrations works, and however many openings race.
THEOREM VersionTellsSchema == Spec => []SchemaMatchesVersion
  <1>1. ConnectionInv => SchemaMatchesVersion
    BY DEF ConnectionInv
  <1> QED BY <1>1, ConnectionInvariant, PTL

\* A connection that _getDatabase hands out enforces foreign keys and finds
\* every table that the build knows of.
THEOREM HandedOutConnectionsReady == Spec => []HandedOutReady
  <1>1. ConnectionInv => HandedOutReady
    <2> SUFFICES ASSUME ConnectionInv, NEW c \in Connections, pc[c] = "ready"
                 PROVE  foreignKeys[c] /\ 1..build \subseteq stored.schema
      BY DEF HandedOutReady
    <2>1. foreignKeys[c] /\ build <= stored.version /\ stored.schema = 1..stored.version
      BY DEF ConnectionInv, Enforced, Upgraded, SchemaMatchesVersion
    <2> QED BY <2>1, Numbers DEF ConnectionInv
  <1> QED BY <1>1, ConnectionInvariant, PTL

\* No opening that has settled, well or badly, still holds the write lock.
THEOREM SettledOpeningsHoldNoLock == Spec => []NoLockLeftBehind
  <1>1. ConnectionInv => NoLockLeftBehind
    BY NoneAssumption DEF ConnectionInv, Draft, NoLockLeftBehind
  <1> QED BY <1>1, ConnectionInvariant, PTL

\* The database file goes from what it was to what the build wants in one
\* step, as SchemaUpgrade has it: every other step leaves its tables alone.
THEOREM OpeningImplementsUpgrade == Spec => ImplementsUpgrade
  <1>1. Init => Schema!Init
    BY DEF Init, Schema!Init
  <1>2. ConnectionInv /\ [Next]_vars => [Schema!Next]_(Schema!upgradeVars)
    <2> SUFFICES ASSUME ConnectionInv, [Next]_vars
                 PROVE  Schema!Next \/ UNCHANGED <<stored.schema, build>>
      BY DEF Schema!upgradeVars
    <2>1. CASE \E c \in Connections : Commit(c)
      <3>1. /\ stored' = draft /\ UNCHANGED build
            /\ draft.schema = 1..build /\ stored.version < build
        BY <2>1, NoneAssumption DEF Commit, Resolve, ConnectionInv, Draft, DraftFinished
      <3>2. /\ build \in Nat /\ stored.version \in Nat
            /\ stored.schema = 1..stored.version
        BY Numbers DEF ConnectionInv, SchemaMatchesVersion
      <3>3. build \in 1..build /\ build \notin stored.schema
        BY <3>1, <3>2
      <3> QED BY <3>1, <3>3 DEF Schema!Next, Schema!Upgrade
    <2>2. CASE Crash
      BY <2>2 DEF Crash, Schema!Next, Schema!Launch
    <2>3. CASE UNCHANGED <<stored, build>>
      BY <2>3
    <2>4. ASSUME NEW c \in Connections, Step(c), ~Commit(c)
          PROVE  UNCHANGED <<stored, build>>
      BY <2>4 DEF Step, OpenFile, Configure, EnableForeignKeys, ReadVersion, Begin,
           RunMigration, StampVersion, Fail, Rollback, CloseFailed, Close, Quietly,
           Resolve, Discard, file
    <2>5. ASSUME NEW cl \in Clients, Call(cl) \/ Answer(cl)
          PROVE  UNCHANGED <<stored, build>>
      BY <2>5 DEF Call, Answer, file
    <2>6. Dispose => UNCHANGED <<stored, build>>
      BY DEF Dispose, file
    <2> QED
      BY <2>1, <2>2, <2>3, <2>4, <2>5, <2>6 DEF Next, vars, file
  <1> QED
    BY <1>1, <1>2, ConnectionInvariant, PTL DEF Spec, ImplementsUpgrade, Schema!Spec
=============================================================================
