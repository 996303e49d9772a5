------------------------- MODULE CodexDatabaseProofs -------------------------
(***************************************************************************)
(* What holds of the codex database for every number of windows, of ids    *)
(* and of aliases.                                                         *)
(***************************************************************************)
EXTENDS CodexDatabase, TLAPS

----------------------------------------------------------------------------
(* Requests. *)

\* The fields of a request have the type its operation gives them.
LEMMA RequestFields ==
  ASSUME NEW q \in Request
  PROVE  /\ q.op \in {"createPenName", "updatePenName", "deletePenName",
                      "createStory", "updateStory", "deleteStory",
                      "createEntry", "updateEntry", "deleteEntry", "setEntryAliases",
                      "createRelationship", "deleteRelationship"}
         /\ q.op = "createPenName" => q.name \in Text
         /\ q.op = "updatePenName" => q.name \in Text \cup {Absent}
         /\ q.op = "createStory" => q.penName \in PenNameId /\ q.title \in Text
         /\ q.op = "updateStory" => /\ q.penName \in PenNameId \cup {Absent}
                                    /\ q.title \in Text \cup {Absent}
         /\ q.op = "createEntry" => /\ q.story \in StoryId /\ q.title \in Text
                                    /\ q.aliases \in AliasLists
         /\ q.op = "updateEntry" => q.title \in Text \cup {Absent}
         /\ q.op = "setEntryAliases" => q.aliases \in AliasLists
         /\ q.op = "createRelationship" => /\ q.story \in StoryId
                                           /\ q.from \in EntryId /\ q.to \in EntryId
         /\ q.op \in {"updatePenName", "deletePenName"} => q.id \in PenNameId
         /\ q.op \in {"updateStory", "deleteStory"} => q.id \in StoryId
         /\ q.op \in {"updateEntry", "deleteEntry", "setEntryAliases"} => q.id \in EntryId
         /\ q.op = "deleteRelationship" => q.id \in RelationshipId
  BY DEF Request

----------------------------------------------------------------------------
(* Types. *)

\* The ids an operation works on.
KeysOf(op) ==
  IF op \in {"createPenName", "updatePenName", "deletePenName"} THEN PenNameId
  ELSE IF op \in {"createStory", "updateStory", "deleteStory"} THEN StoryId
  ELSE IF op \in {"createRelationship", "deleteRelationship"} THEN RelationshipId
  ELSE EntryId

\* What an operation's locals hold at each of its steps.
LocalsOK ==
  \A c \in Clients :
    /\ pc[c] # "idle" => input[c] \in Request /\ id[c] \in KeysOf(input[c].op)
    /\ At(c, "updatePenName", "write") => existing[c] \in PenName
    /\ At(c, "updateStory", "write") => existing[c] \in Story
    /\ At(c, "updateEntry", "write") => existing[c] \in Entry
    /\ pc[c] \in {"clear", "insert"} => input[c].op \in {"createEntry", "setEntryAliases"}
    /\ pc[c] = "insert" => todo[c] # <<>>

Types == TypeOK /\ LocalsOK

LEMMA TypesInit == Init => Types
  BY FailuresAssumption DEF Init, Types, TypeOK, TablesOK, LocalsOK, NoAliases, Steps, At

\* An operation that ends leaves well-typed locals behind.
LEMMA SettleTypes ==
  ASSUME Types, NEW c \in Clients, Settle(c),
         UNCHANGED <<tables, minted>>,
         unannounced' \subseteq Kinds, failures' \in Nat
  PROVE  Types'
  BY DEF Types, TypeOK, TablesOK, LocalsOK, Settle, Goto, tables, Steps, At

LEMMA AbandonTypes ==
  ASSUME Types, NEW c \in Clients, Abandon(c)
  PROVE  Types'
  BY SettleTypes DEF Abandon, Types, TypeOK

LEMMA ReceiveTypes ==
  ASSUME Types, NEW c \in Clients, NEW request \in Request, Receive(c, request)
  PROVE  Types'
  <1>1. CASE Creates(request.op)
    <2>1. PICK new \in IdsFor[request.op] : /\ minted' = minted \cup {new}
                                            /\ id' = [id EXCEPT ![c] = new]
      BY <1>1 DEF Receive
    <2>2. new \in KeysOf(request.op) /\ new \in Ids
      BY <1>1, <2>1 DEF Creates, IdsFor, KeysOf, Ids
    <2> QED BY <1>1, <2>1, <2>2
            DEF Receive, Types, TypeOK, TablesOK, LocalsOK, Goto, tables, Steps, At, Creates, ReadsFirst
  <1>2. CASE ~Creates(request.op)
    <2>1. request.id \in KeysOf(request.op) /\ request.id \in Ids
      BY <1>2, RequestFields DEF Creates, KeysOf, Ids
    <2> QED BY <1>2, <2>1
            DEF Receive, Types, TypeOK, TablesOK, LocalsOK, Goto, tables, Steps, At, ReadsFirst
  <1> QED BY <1>1, <1>2

LEMMA CheckTypes ==
  ASSUME Types, NEW c \in Clients, Check(c)
  PROVE  Types'
  <1>1. CASE Abandon(c)
    BY <1>1, AbandonTypes
  <1>2. ASSUME ~Abandon(c), CheckExisting(c, "updatePenName", penNames[id[c]], "write")
        PROVE  Types'
    <2>1. penNames[id[c]] \in PenName
      BY <1>2 DEF CheckExisting, Types, TypeOK, TablesOK, LocalsOK, KeysOf, At
    <2>2. At(c, "updatePenName", "check") /\ Read(c, penNames[id[c]], "write")
      BY <1>2 DEF CheckExisting
    <2> QED BY <2>1, <2>2 DEF Read, Types, TypeOK, TablesOK, LocalsOK, Goto, tables, Steps, At, Row
  <1>3. ASSUME ~Abandon(c), CheckExisting(c, "updateStory", stories[id[c]], "write")
        PROVE  Types'
    <2>1. stories[id[c]] \in Story
      BY <1>3 DEF CheckExisting, Types, TypeOK, TablesOK, LocalsOK, KeysOf, At
    <2>2. At(c, "updateStory", "check") /\ Read(c, stories[id[c]], "write")
      BY <1>3 DEF CheckExisting
    <2> QED BY <2>1, <2>2 DEF Read, Types, TypeOK, TablesOK, LocalsOK, Goto, tables, Steps, At, Row
  <1>4. ASSUME ~Abandon(c), CheckExisting(c, "updateEntry", entries[id[c]], "write")
        PROVE  Types'
    <2>1. entries[id[c]] \in Entry
      BY <1>4 DEF CheckExisting, Types, TypeOK, TablesOK, LocalsOK, KeysOf, At
    <2>2. At(c, "updateEntry", "check") /\ Read(c, entries[id[c]], "write")
      BY <1>4 DEF CheckExisting
    <2> QED BY <2>1, <2>2 DEF Read, Types, TypeOK, TablesOK, LocalsOK, Goto, tables, Steps, At, Row
  <1>5. ASSUME ~Abandon(c), CheckExisting(c, "setEntryAliases", entries[id[c]], "clear")
        PROVE  Types'
    BY <1>5 DEF CheckExisting, Read, Types, TypeOK, TablesOK, LocalsOK, KeysOf, Goto, tables, Steps, At, Row
  <1>6. ASSUME CheckFromEntry(c)
        PROVE  Types'
    <2>1. entries[input[c].from] \in Entry \cup {Absent}
      BY <1>6, RequestFields DEF CheckFromEntry, At, Types, TypeOK, TablesOK, LocalsOK
    <2> QED BY <1>6, <2>1
            DEF CheckFromEntry, Read, Types, TypeOK, TablesOK, LocalsOK, Goto, tables, Steps, At, Row
  <1>7. ASSUME ~Abandon(c), CheckToEntry(c)
        PROVE  Types'
    BY <1>7 DEF CheckToEntry, Types, TypeOK, TablesOK, LocalsOK, Goto, tables, locals, Steps, At
  <1> QED BY <1>1, <1>2, <1>3, <1>4, <1>5, <1>6, <1>7 DEF Check

\* A statement that ran leaves its operation at a well-typed next step.
LEMMA WroteTypes ==
  ASSUME Types, NEW c \in Clients, pc[c] # "idle",
         NEW kinds \in SUBSET Kinds, NEW step \in {"reread", "announce"},
         Wrote(c, kinds, step), TablesOK', todo' \in [Clients -> Seq(AliasText)],
         \A d \in Clients \ {c} : todo'[d] = todo[d]
  PROVE  Types'
  BY DEF Types, TypeOK, TablesOK, LocalsOK, Wrote, Changed, Goto, Steps, At

LEMMA ContinuesTypes ==
  ASSUME Types, NEW c \in Clients, pc[c] # "idle",
         input[c].op \in {"createEntry", "setEntryAliases"},
         NEW kinds \in SUBSET Kinds, NEW step \in {"clear", "insert"},
         Wrote(c, kinds, step), TablesOK', todo' \in [Clients -> Seq(AliasText)],
         \A d \in Clients \ {c} : todo'[d] = todo[d],
         step = "insert" => todo'[c] # <<>>
  PROVE  Types'
  BY DEF Types, TypeOK, TablesOK, LocalsOK, Wrote, Changed, Goto, Steps, At

\* What a row-writing statement starts from.
LEMMA AtWrite ==
  ASSUME Types, NEW c \in Clients, Write(c)
  PROVE  pc[c] = "write" /\ input[c] \in Request /\ id[c] \in KeysOf(input[c].op)
  BY DEF Write, CreatePenName, UpdatePenName, DeletePenName, CreateStory, UpdateStory,
         DeleteStory, CreateEntry, UpdateEntry, DeleteEntry, CreateRelationship,
         DeleteRelationship, At, Types, LocalsOK

\* The rows the statements write, which have the type of their table.
PenNameRow(c) == [name |-> Given(input[c].name, existing[c].name)]
StoryRow(c) == [penName |-> Given(input[c].penName, existing[c].penName),
                title |-> Given(input[c].title, existing[c].title)]
EntryRow(c) == [entries[id[c]] EXCEPT !.title = Given(input[c].title, existing[c].title)]
NewPenName(c) == [name |-> input[c].name]
NewStory(c) == [penName |-> input[c].penName, title |-> input[c].title]
NewEntry(c) == [story |-> input[c].story, title |-> input[c].title]
NewRelationship(c) == [story |-> input[c].story, from |-> input[c].from, to |-> input[c].to]

LEMMA NewRows ==
  ASSUME Types, NEW c \in Clients, Write(c)
  PROVE  /\ CreatePenName(c) => NewPenName(c) \in PenName
         /\ CreateStory(c) => NewStory(c) \in Story
         /\ CreateEntry(c) => NewEntry(c) \in Entry
         /\ CreateRelationship(c) => NewRelationship(c) \in Relationship
  <1>1. input[c] \in Request
    BY AtWrite
  <1>2. CreatePenName(c) => NewPenName(c) \in PenName
    BY <1>1, RequestFields DEF CreatePenName, At, NewPenName, PenName
  <1>3. CreateStory(c) => NewStory(c) \in Story
    BY <1>1, RequestFields DEF CreateStory, At, NewStory, Story
  <1>4. CreateEntry(c) => NewEntry(c) \in Entry
    BY <1>1, RequestFields DEF CreateEntry, At, NewEntry, Entry
  <1>5. CreateRelationship(c) => NewRelationship(c) \in Relationship
    BY <1>1, RequestFields DEF CreateRelationship, At, NewRelationship, Relationship
  <1> QED BY <1>2, <1>3, <1>4, <1>5

LEMMA UpdatedRows ==
  ASSUME Types, NEW c \in Clients, Write(c)
  PROVE  /\ UpdatePenName(c) => PenNameRow(c) \in PenName
         /\ UpdateStory(c) => StoryRow(c) \in Story
         /\ UpdateEntry(c) /\ entries[id[c]] # Absent =>
              /\ entries[id[c]] \in Entry /\ EntryRow(c) \in Entry
              /\ EntryRow(c).story = entries[id[c]].story
  <1>1. input[c] \in Request /\ id[c] \in KeysOf(input[c].op)
    BY AtWrite
  <1>2. UpdatePenName(c) => PenNameRow(c) \in PenName
    BY <1>1, RequestFields DEF UpdatePenName, At, PenName, PenNameRow, Given, Types, LocalsOK
  <1>3. UpdateStory(c) => StoryRow(c) \in Story
    BY <1>1, RequestFields DEF UpdateStory, At, Story, StoryRow, Given, Types, LocalsOK
  <1>4. ASSUME UpdateEntry(c), entries[id[c]] # Absent
        PROVE  /\ entries[id[c]] \in Entry /\ EntryRow(c) \in Entry
               /\ EntryRow(c).story = entries[id[c]].story
    <2>1. Given(input[c].title, existing[c].title) \in Text
      BY <1>1, <1>4, RequestFields DEF UpdateEntry, At, Entry, Given, Types, LocalsOK
    <2>2. entries[id[c]] \in Entry
      BY <1>1, <1>4 DEF UpdateEntry, At, KeysOf, Types, TypeOK, TablesOK
    <2> QED BY <2>1, <2>2 DEF EntryRow, Entry
  <1> QED BY <1>2, <1>3, <1>4

LEMMA WriteTables ==
  ASSUME Types, NEW c \in Clients, Write(c)
  PROVE  TablesOK'
  <1>0. CASE UNCHANGED tables
    BY <1>0 DEF tables, Types, TypeOK, TablesOK
  <1> SUFFICES ASSUME ~UNCHANGED tables PROVE TablesOK'
    BY <1>0
  <1> USE DEF Types, TypeOK, TablesOK
  <1>1. CASE CreatePenName(c)
    BY <1>1, NewRows DEF CreatePenName, NewPenName
  <1>2. CASE UpdatePenName(c)
    BY <1>2, UpdatedRows DEF UpdatePenName, UpdateMissing, PenNameRow
  <1>3. CASE DeletePenName(c)
    BY <1>3 DEF DeletePenName, DeleteMissing, Abandon
  <1>4. CASE CreateStory(c)
    BY <1>4, NewRows DEF CreateStory, NewStory, Abandon
  <1>5. CASE UpdateStory(c)
    BY <1>5, UpdatedRows DEF UpdateStory, UpdateMissing, StoryRow, Abandon
  <1>6. CASE DeleteStory(c)
    <2> DEFINE gone == {e \in EntryId : InStory(entries[e], id[c])}
    <2>1. /\ entries' = [e \in EntryId |-> IF e \in gone THEN Absent ELSE entries[e]]
          /\ aliases' = [e \in EntryId |-> IF e \in gone THEN NoAliases ELSE aliases[e]]
          /\ stories' = [stories EXCEPT ![id[c]] = Absent]
          /\ penNames' = penNames
          /\ \A r \in RelationshipId : relationships'[r] \in {Absent, relationships[r]}
          /\ relationships' = [r \in RelationshipId |-> relationships'[r]]
      BY <1>6 DEF DeleteStory, DeleteMissing, WithoutEntries, Abandon
    <2> QED BY <2>1 DEF NoAliases
  <1>7. CASE CreateEntry(c)
    BY <1>7, NewRows DEF CreateEntry, NewEntry, Abandon
  <1>8. CASE UpdateEntry(c)
    <2>1. /\ entries' = [entries EXCEPT ![id[c]] = EntryRow(c)]
          /\ entries[id[c]] # Absent
          /\ UNCHANGED <<penNames, stories, aliases, relationships>>
      BY <1>8 DEF UpdateEntry, UpdateMissing, EntryRow
    <2> QED BY <1>8, <2>1, UpdatedRows
  <1>9. CASE DeleteEntry(c)
    BY <1>9 DEF DeleteEntry, DeleteMissing, WithoutEntries, NoAliases, Abandon
  <1>10. CASE CreateRelationship(c)
    BY <1>10, NewRows DEF CreateRelationship, NewRelationship, Abandon
  <1>11. CASE DeleteRelationship(c)
    BY <1>11 DEF DeleteRelationship, DeleteMissing, Abandon
  <1> QED BY <1>1, <1>2, <1>3, <1>4, <1>5, <1>6, <1>7, <1>8, <1>9, <1>10, <1>11 DEF Write

\* Where a row-writing statement goes next, when it does not reject.
LEMMA WriteNext ==
  ASSUME Types, NEW c \in Clients, Write(c), ~Abandon(c)
  PROVE  /\ UNCHANGED todo
         /\ \E kinds \in SUBSET Kinds :
              \/ \E step \in {"reread", "announce"} : Wrote(c, kinds, step)
              \/ Wrote(c, kinds, "clear") /\ input[c].op = "createEntry"
  <1> USE DEF Kinds
  <1>1. CASE CreatePenName(c) \/ UpdatePenName(c) \/ DeletePenName(c)
    BY <1>1 DEF CreatePenName, UpdatePenName, DeletePenName, UpdateMissing, DeleteMissing
  <1>2. CASE CreateStory(c) \/ UpdateStory(c) \/ DeleteStory(c)
    BY <1>2 DEF CreateStory, UpdateStory, DeleteStory, UpdateMissing, DeleteMissing
  <1>3. CASE CreateEntry(c) \/ UpdateEntry(c) \/ DeleteEntry(c)
    BY <1>3 DEF CreateEntry, UpdateEntry, DeleteEntry, UpdateMissing, DeleteMissing, At
  <1>4. CASE CreateRelationship(c) \/ DeleteRelationship(c)
    BY <1>4 DEF CreateRelationship, DeleteRelationship, DeleteMissing
  <1> QED BY <1>1, <1>2, <1>3, <1>4 DEF Write

LEMMA WriteTypes ==
  ASSUME Types, NEW c \in Clients, Write(c), ~Abandon(c)
  PROVE  Types'
  <1>1. pc[c] # "idle" /\ TablesOK' /\ UNCHANGED todo
    BY AtWrite, WriteTables, WriteNext
  <1>2. todo' \in [Clients -> Seq(AliasText)]
    BY <1>1 DEF Types, TypeOK
  <1>3. ASSUME NEW kinds \in SUBSET Kinds, NEW step \in {"reread", "announce"},
               Wrote(c, kinds, step)
        PROVE  Types'
    BY <1>1, <1>2, <1>3, WroteTypes
  <1>4. ASSUME NEW kinds \in SUBSET Kinds, Wrote(c, kinds, "clear"),
               input[c].op = "createEntry"
        PROVE  Types'
    BY <1>1, <1>2, <1>4, ContinuesTypes
  <1> QED BY <1>3, <1>4, WriteNext

LEMMA AliasTypes ==
  ASSUME Types, NEW c \in Clients, ClearAliases(c) \/ InsertAlias(c), ~Abandon(c)
  PROVE  Types'
  <1>1. /\ pc[c] # "idle" /\ input[c] \in Request
        /\ input[c].op \in {"createEntry", "setEntryAliases"}
    BY DEF ClearAliases, InsertAlias, Types, LocalsOK
  <1>2. PICK rest \in Seq(AliasText) : /\ todo' = [todo EXCEPT ![c] = rest]
                                       /\ \E kinds \in SUBSET Kinds : Wrote(c, kinds, AfterAlias(rest))
    <2>1. CASE ClearAliases(c)
      <3>1. input[c].aliases \in Seq(AliasText)
        BY <1>1, RequestFields, AliasAssumption
      <3> QED BY <2>1, <3>1 DEF ClearAliases, Kinds
    <2>2. CASE InsertAlias(c)
      <3>1. Tail(todo[c]) \in Seq(AliasText)
        BY <2>2 DEF InsertAlias, Types, TypeOK, TablesOK, LocalsOK
      <3> QED BY <2>2, <3>1 DEF InsertAlias, Kinds
    <2> QED BY <2>1, <2>2
  <1>3. TablesOK'
    <2>1. CASE ClearAliases(c)
      BY <2>1 DEF ClearAliases, NoAliases, Types, TypeOK, TablesOK
    <2>2. CASE InsertAlias(c)
      <3>1. CASE UNCHANGED tables
        BY <3>1 DEF tables, Types, TypeOK, TablesOK
      <3>2. CASE ~UNCHANGED tables
        <4>1. /\ aliases' = [aliases EXCEPT ![id[c]][Head(todo[c])] = @ + 1]
              /\ UNCHANGED <<penNames, stories, entries, relationships>>
          BY <2>2, <3>2 DEF InsertAlias
        <4>2. \A e \in EntryId : aliases[e] \in [AliasText -> Nat]
          BY DEF Types, TypeOK, TablesOK
        <4>3. \A f \in [AliasText -> Nat], x \in AliasText :
                [f EXCEPT ![x] = @ + 1] \in [AliasText -> Nat]
          OBVIOUS
        <4>4. Head(todo[c]) \in AliasText
          BY <2>2 DEF InsertAlias, Types, TypeOK, LocalsOK
        <4> QED BY <4>1, <4>2, <4>3, <4>4 DEF Types, TypeOK, TablesOK
      <3> QED BY <3>1, <3>2
    <2> QED BY <2>1, <2>2
  <1>4. /\ todo' \in [Clients -> Seq(AliasText)]
        /\ \A d \in Clients \ {c} : todo'[d] = todo[d]
        /\ todo'[c] = rest
    BY <1>2 DEF Types, TypeOK
  <1>5. CASE rest = <<>>
    BY <1>1, <1>2, <1>3, <1>4, <1>5, WroteTypes DEF AfterAlias
  <1>6. CASE rest # <<>>
    BY <1>1, <1>2, <1>3, <1>4, <1>6, ContinuesTypes DEF AfterAlias
  <1> QED BY <1>5, <1>6

LEMMA TypesStep == Types /\ [Next]_vars => Types'
  <1> SUFFICES ASSUME Types, [Next]_vars PROVE Types'
    OBVIOUS
  <1>1. ASSUME NEW c \in Clients, NEW request \in Request, Receive(c, request)
        PROVE  Types'
    BY <1>1, ReceiveTypes
  <1>2. ASSUME NEW c \in Clients, Abandon(c)
        PROVE  Types'
    BY <1>2, AbandonTypes
  <1>3. ASSUME NEW c \in Clients, Check(c)
        PROVE  Types'
    BY <1>3, CheckTypes
  <1>4. ASSUME NEW c \in Clients, Write(c)
        PROVE  Types'
    BY <1>2, <1>4, WriteTypes
  <1>5. ASSUME NEW c \in Clients, ClearAliases(c) \/ InsertAlias(c)
        PROVE  Types'
    BY <1>2, <1>5, AliasTypes
  <1>6. ASSUME NEW c \in Clients, Reread(c)
        PROVE  Types'
    <2>1. CASE Abandon(c)
      BY <1>2, <2>1
    <2>2. CASE ~Abandon(c)
      BY <1>6, <2>2 DEF Reread, Types, TypeOK, TablesOK, LocalsOK, Goto, tables, locals, Steps, At
    <2> QED BY <2>1, <2>2
  <1>7. ASSUME NEW c \in Clients, Announce(c)
        PROVE  Types'
    BY <1>7, SettleTypes DEF Announce, Types, TypeOK
  <1>8. ASSUME NEW c \in Clients, EngineFailure(c)
        PROVE  Types'
    BY <1>8, SettleTypes, FailuresAssumption DEF EngineFailure, Types, TypeOK
  <1>9. ASSUME Crash
        PROVE  Types'
    BY <1>9 DEF Crash, Types, TypeOK, TablesOK, LocalsOK, tables, Steps, At
  <1>10. CASE UNCHANGED vars
    BY <1>10 DEF vars, tables, locals, Types, TypeOK, TablesOK, LocalsOK, At
  <1> QED BY <1>1, <1>2, <1>3, <1>4, <1>5, <1>6, <1>7, <1>8, <1>9, <1>10 DEF Next, Continue

\* Every variable of the codex database keeps its type, whatever the windows do.
THEOREM CodexTypes == Spec => []TypeOK
  <1>1. Spec => []Types
    BY TypesInit, TypesStep, PTL DEF Spec
  <1>2. Types => TypeOK
    BY DEF Types
  <1> QED BY <1>1, <1>2, PTL

----------------------------------------------------------------------------
(* Foreign keys. *)

LEMMA SameTablesIntegrity ==
  ASSUME ReferentialIntegrity, UNCHANGED tables
  PROVE  ReferentialIntegrity'
  BY DEF ReferentialIntegrity, StoriesFiled, EntriesPlaced, AliasesAttached,
         RelationshipsAnchored, tables

\* Only the writing statements touch the tables.
LEMMA TablesStep ==
  ASSUME [Next]_vars, ~UNCHANGED tables
  PROVE  \E c \in Clients : ~Abandon(c) /\ (Write(c) \/ ClearAliases(c) \/ InsertAlias(c))
  <1>1. ASSUME NEW c \in Clients, NEW request \in Request, Receive(c, request)
        PROVE  FALSE
    BY <1>1 DEF Receive
  <1>2. ASSUME NEW c \in Clients, Check(c)
        PROVE  FALSE
    BY <1>2 DEF Check, CheckExisting, CheckFromEntry, CheckToEntry, Read, Abandon
  <1>3. ASSUME NEW c \in Clients, Reread(c) \/ Announce(c) \/ EngineFailure(c)
        PROVE  FALSE
    BY <1>3 DEF Reread, Announce, EngineFailure, Abandon
  <1>4. ASSUME Crash \/ UNCHANGED vars
        PROVE  FALSE
    BY <1>4 DEF Crash, vars
  <1> QED BY <1>1, <1>2, <1>3, <1>4 DEF Next, Continue, Abandon

\* A row is never the value of a missing one.
LEMMA RowsAreNotAbsent ==
  Absent \notin PenName /\ Absent \notin Story /\ Absent \notin Entry /\ Absent \notin Relationship
  BY AbsentAssumption

\* Each statement keeps every foreign key, by its own check or by its cascade.
LEMMA IntegrityStep ==
  ASSUME Types, ReferentialIntegrity, [Next]_vars
  PROVE  ReferentialIntegrity'
  <1> USE DEF ReferentialIntegrity
  <1>1. CASE UNCHANGED tables
    BY <1>1, SameTablesIntegrity
  <1>2. CASE ~UNCHANGED tables
    <2>1. PICK c \in Clients : ~Abandon(c) /\ (Write(c) \/ ClearAliases(c) \/ InsertAlias(c))
      BY <1>2, TablesStep
    <2> USE DEF Types, TypeOK, TablesOK
    <2>2. ASSUME NEW row \in PenName, Write(c),
                 penNames' = [penNames EXCEPT ![id[c]] = row],
                 UNCHANGED <<stories, entries, aliases, relationships>>
          PROVE  ReferentialIntegrity'
      BY <2>2, RowsAreNotAbsent
      DEF Story, StoriesFiled, EntriesPlaced, AliasesAttached, RelationshipsAnchored
    <2>3. CASE CreatePenName(c) \/ UpdatePenName(c)
      <3>1. CASE CreatePenName(c)
        BY <2>2, <3>1, NewRows DEF CreatePenName, NewPenName, Write
      <3>2. CASE UpdatePenName(c)
        BY <1>2, <2>2, <3>2, UpdatedRows DEF UpdatePenName, UpdateMissing, PenNameRow, Write
      <3> QED BY <2>3, <3>1, <3>2
    <2>4. CASE DeletePenName(c)
      BY <2>1, <2>4 DEF DeletePenName, DeleteMissing, Story,
         StoriesFiled, EntriesPlaced, AliasesAttached, RelationshipsAnchored
    <2>5. ASSUME NEW row \in Story, penNames[row.penName] # Absent,
                 stories' = [stories EXCEPT ![id[c]] = row],
                 UNCHANGED <<penNames, entries, aliases, relationships>>
          PROVE  ReferentialIntegrity'
      BY <2>5, RowsAreNotAbsent
      DEF Entry, Relationship, StoriesFiled, EntriesPlaced, AliasesAttached, RelationshipsAnchored
    <2>6. CASE CreateStory(c) \/ UpdateStory(c)
      <3>1. CASE CreateStory(c)
        <4>1. NewStory(c) \in Story
          BY <3>1, NewRows DEF Write
        <4> QED BY <2>1, <2>5, <3>1, <4>1 DEF CreateStory, NewStory
      <3>2. CASE UpdateStory(c)
        <4>1. StoryRow(c) \in Story
          BY <3>2, UpdatedRows DEF Write
        <4> QED BY <1>2, <2>1, <2>5, <3>2, <4>1 DEF UpdateStory, UpdateMissing, StoryRow
      <3> QED BY <2>6, <3>1, <3>2
    <2>7. CASE DeleteStory(c)
      <3> DEFINE gone == {e \in EntryId : InStory(entries[e], id[c])}
      <3>1. /\ stories' = [stories EXCEPT ![id[c]] = Absent]
            /\ entries' = [e \in EntryId |-> IF e \in gone THEN Absent ELSE entries[e]]
            /\ aliases' = [e \in EntryId |-> IF e \in gone THEN NoAliases ELSE aliases[e]]
            /\ penNames' = penNames
            /\ \A r \in RelationshipId : relationships'[r] # Absent =>
                 /\ relationships'[r] = relationships[r]
                 /\ relationships[r].story # id[c]
                 /\ relationships[r].from \notin gone
                 /\ relationships[r].to \notin gone
        BY <2>1, <2>7 DEF DeleteStory, DeleteMissing, WithoutEntries, InStory
      <3>2. StoriesFiled'
        BY <3>1 DEF StoriesFiled
      <3>3. EntriesPlaced'
        BY <3>1 DEF EntriesPlaced, InStory, Entry
      <3>4. AliasesAttached'
        BY <3>1 DEF AliasesAttached
      <3>5. RelationshipsAnchored'
        BY <3>1 DEF RelationshipsAnchored, Relationship
      <3> QED BY <3>2, <3>3, <3>4, <3>5
    <2>8. ASSUME NEW row \in Entry, stories[row.story] # Absent,
                 entries' = [entries EXCEPT ![id[c]] = row],
                 UNCHANGED <<penNames, stories, aliases, relationships>>
          PROVE  ReferentialIntegrity'
      BY <2>8, RowsAreNotAbsent
      DEF Relationship, StoriesFiled, EntriesPlaced, AliasesAttached, RelationshipsAnchored
    <2>9. CASE CreateEntry(c) \/ UpdateEntry(c)
      <3>1. CASE CreateEntry(c)
        <4>1. NewEntry(c) \in Entry
          BY <3>1, NewRows DEF Write
        <4> QED BY <2>1, <2>8, <3>1, <4>1 DEF CreateEntry, NewEntry
      <3>2. CASE UpdateEntry(c)
        <4>1. /\ entries' = [entries EXCEPT ![id[c]] = EntryRow(c)]
              /\ entries[id[c]] # Absent
              /\ UNCHANGED <<penNames, stories, aliases, relationships>>
          BY <1>2, <3>2 DEF UpdateEntry, UpdateMissing, EntryRow, tables
        <4>2. EntryRow(c) \in Entry /\ EntryRow(c).story = entries[id[c]].story
          BY <3>2, <4>1, UpdatedRows DEF Write
        <4>3. id[c] \in EntryId
          BY <3>2, AtWrite DEF UpdateEntry, At, KeysOf, Write
        <4> QED BY <2>8, <4>1, <4>2, <4>3 DEF EntriesPlaced
      <3> QED BY <2>9, <3>1, <3>2
    <2>10. CASE DeleteEntry(c)
      <3>1. /\ entries' = [e \in EntryId |-> IF e = id[c] THEN Absent ELSE entries[e]]
            /\ aliases' = [e \in EntryId |-> IF e = id[c] THEN NoAliases ELSE aliases[e]]
            /\ UNCHANGED <<penNames, stories>>
            /\ \A r \in RelationshipId : relationships'[r] # Absent =>
                 /\ relationships'[r] = relationships[r]
                 /\ id[c] \notin {relationships[r].from, relationships[r].to}
        BY <2>1, <2>10 DEF DeleteEntry, DeleteMissing, WithoutEntries
      <3> QED BY <3>1 DEF Relationship, StoriesFiled, EntriesPlaced, AliasesAttached,
                          RelationshipsAnchored
    <2>11. CASE CreateRelationship(c)
      <3>1. /\ relationships' = [relationships EXCEPT ![id[c]] = NewRelationship(c)]
            /\ stories[NewRelationship(c).story] # Absent
            /\ entries[NewRelationship(c).from] # Absent
            /\ entries[NewRelationship(c).to] # Absent
            /\ UNCHANGED <<penNames, stories, entries, aliases>>
        BY <2>1, <2>11 DEF CreateRelationship, NewRelationship
      <3> QED BY <3>1 DEF StoriesFiled, EntriesPlaced, AliasesAttached, RelationshipsAnchored
    <2>12. CASE DeleteRelationship(c)
      BY <2>1, <2>12 DEF DeleteRelationship, DeleteMissing, StoriesFiled, EntriesPlaced,
         AliasesAttached, RelationshipsAnchored
    <2>13. CASE ClearAliases(c)
      BY <2>13 DEF ClearAliases, StoriesFiled, EntriesPlaced, AliasesAttached,
         RelationshipsAnchored
    <2>14. CASE InsertAlias(c)
      BY <1>2, <2>1, <2>14 DEF InsertAlias, StoriesFiled, EntriesPlaced, AliasesAttached,
         RelationshipsAnchored
    <2> QED BY <2>1, <2>3, <2>4, <2>6, <2>7, <2>9, <2>10, <2>11, <2>12, <2>13, <2>14 DEF Write
  <1> QED BY <1>1, <1>2

LEMMA IntegrityInit == Init => ReferentialIntegrity
  BY DEF Init, ReferentialIntegrity, StoriesFiled, EntriesPlaced, AliasesAttached,
         RelationshipsAnchored

\* No row of the codex database ever points at a row that is gone.
THEOREM CodexIntegrity == Spec => []ReferentialIntegrity
  <1>1. Init => Types /\ ReferentialIntegrity
    BY TypesInit, IntegrityInit
  <1>2. (Types /\ ReferentialIntegrity) /\ [Next]_vars => (Types /\ ReferentialIntegrity)'
    BY TypesStep, IntegrityStep
  <1> QED BY <1>1, <1>2, PTL DEF Spec

----------------------------------------------------------------------------
(* Relationships. *)

\* c is about to insert the entry it minted.
Inserts(c) == At(c, "createEntry", "write")

\* The ids of entries are minted once: no entry has the id of one that is
\* about to be inserted, and no two inserts have the same.
FreshIds ==
  /\ \A e \in EntryId : entries[e] # Absent => e \in minted
  /\ \A c \in Clients : Inserts(c) => id[c] \in minted /\ entries[id[c]] = Absent
  /\ \A c, d \in Clients : Inserts(c) /\ Inserts(d) /\ c # d => id[c] # id[d]

\* Entry e was once seen in story s, and is in no other as long as it lives.
SeenIn(e, s) == /\ e \in minted
                /\ entries[e] # Absent => entries[e].story = s
                /\ \A c \in Clients : Inserts(c) => id[c] # e

\* What createRelationship read still tells which story its entries are in.
CheckedEntries ==
  \A c \in Clients :
    /\ At(c, "createRelationship", "checkTo") /\ existing[c] # Absent =>
         SeenIn(input[c].from, existing[c].story)
    /\ At(c, "createRelationship", "write") =>
         SeenIn(input[c].from, input[c].story) /\ SeenIn(input[c].to, input[c].story)

\* An entry that exists was there in the same story, or was just inserted.
LEMMA EntriesStep ==
  ASSUME Types, [Next]_vars, NEW e \in EntryId, entries'[e] # Absent
  PROVE  \/ entries[e] # Absent /\ entries'[e].story = entries[e].story
         \/ \E c \in Clients : /\ Inserts(c) /\ id[c] = e /\ pc'[c] # "write"
                               /\ \A d \in Clients \ {c} : pc'[d] = pc[d]
                               /\ UNCHANGED <<minted, input, id, existing>>
  <1>1. CASE UNCHANGED entries
    BY <1>1
  <1>2. CASE ~UNCHANGED entries
    <2>1. PICK c \in Clients : ~Abandon(c) /\ (Write(c) \/ ClearAliases(c) \/ InsertAlias(c))
      BY <1>2, TablesStep DEF tables
    <2> USE DEF Types, TypeOK, TablesOK
    <2>2. CASE DeleteStory(c) \/ DeleteEntry(c)
      BY <2>1, <2>2 DEF DeleteStory, DeleteEntry, DeleteMissing, WithoutEntries
    <2>3. CASE CreateEntry(c)
      <3>1. /\ Inserts(c) /\ entries' = [entries EXCEPT ![id[c]] = NewEntry(c)]
            /\ UNCHANGED <<minted, input, id, existing>>
            /\ pc' = [pc EXCEPT ![c] = IF input[c].aliases = <<>> THEN "reread" ELSE "clear"]
        BY <2>1, <2>3 DEF CreateEntry, NewEntry, Inserts, Wrote, Goto
      <3>2. CASE e = id[c]
        BY <3>1, <3>2
      <3>3. CASE e # id[c]
        BY <3>1, <3>3
      <3> QED BY <3>2, <3>3
    <2>4. CASE UpdateEntry(c)
      <3>1. entries' = [entries EXCEPT ![id[c]] = EntryRow(c)] /\ entries[id[c]] # Absent
        BY <1>2, <2>4 DEF UpdateEntry, UpdateMissing, EntryRow, tables
      <3>2. EntryRow(c).story = entries[id[c]].story
        BY <2>4, <3>1, UpdatedRows DEF Write
      <3> QED BY <3>1, <3>2
    <2> QED BY <1>2, <2>1, <2>2, <2>3, <2>4
            DEF Write, CreatePenName, UpdatePenName, DeletePenName, CreateStory, UpdateStory,
                CreateRelationship, DeleteRelationship, UpdateMissing, DeleteMissing,
                ClearAliases, InsertAlias, tables
  <1> QED BY <1>1, <1>2

\* A client about to insert an entry was about to before the step, or has
\* just minted the id of that entry.
LEMMA InsertsStep ==
  ASSUME Types, [Next]_vars
  PROVE  /\ minted \subseteq minted'
         /\ \/ \A c \in Clients : Inserts(c)' => Inserts(c) /\ id'[c] = id[c]
            \/ /\ UNCHANGED tables
               /\ \E c \in Clients :
                    /\ id'[c] \in minted' \ minted
                    /\ \A d \in Clients \ {c} : Inserts(d)' => Inserts(d) /\ id'[d] = id[d]
  <1> USE DEF Types, TypeOK, Inserts, At
  <1>1. ASSUME NEW c \in Clients, NEW request \in Request, Receive(c, request)
        PROVE  /\ minted \subseteq minted'
               /\ UNCHANGED tables
               /\ \A d \in Clients \ {c} : Inserts(d)' => Inserts(d) /\ id'[d] = id[d]
               /\ Inserts(c)' => id'[c] \in minted' \ minted
    <2>1. CASE Creates(request.op)
      BY <1>1, <2>1 DEF Receive, Goto
    <2>2. CASE ~Creates(request.op)
      BY <1>1, <2>2 DEF Receive, Goto, Creates
    <2> QED BY <2>1, <2>2
  <1>2. ASSUME NEW c \in Clients, Settle(c), UNCHANGED minted
        PROVE  minted \subseteq minted' /\ \A d \in Clients : Inserts(d)' => Inserts(d) /\ id'[d] = id[d]
    BY <1>2 DEF Settle, Goto
  <1>3. ASSUME NEW c \in Clients, NEW step \in Steps, Goto(c, step),
               UNCHANGED <<minted, input, id>>,
               step = "write" => input[c].op # "createEntry"
        PROVE  minted \subseteq minted' /\ \A d \in Clients : Inserts(d)' => Inserts(d) /\ id'[d] = id[d]
    BY <1>3 DEF Goto
  <1>4. ASSUME NEW c \in Clients, Check(c)
        PROVE  minted \subseteq minted' /\ \A d \in Clients : Inserts(d)' => Inserts(d) /\ id'[d] = id[d]
    <2>1. CASE Abandon(c)
      BY <1>2, <2>1 DEF Abandon
    <2>2. CASE ~Abandon(c)
      BY <1>3, <1>4, <2>2
      DEF Check, CheckExisting, CheckFromEntry, CheckToEntry, Read, locals, Steps
    <2> QED BY <2>1, <2>2
  <1>5. ASSUME NEW c \in Clients, Write(c)
        PROVE  minted \subseteq minted' /\ \A d \in Clients : Inserts(d)' => Inserts(d) /\ id'[d] = id[d]
    <2>1. CASE Abandon(c)
      BY <1>2, <2>1 DEF Abandon
    <2>2. CASE ~Abandon(c)
      BY <1>3, <1>5, <2>2, WriteNext DEF Wrote, Steps
    <2> QED BY <2>1, <2>2
  <1>6. ASSUME NEW c \in Clients, ClearAliases(c) \/ InsertAlias(c)
        PROVE  minted \subseteq minted' /\ \A d \in Clients : Inserts(d)' => Inserts(d) /\ id'[d] = id[d]
    <2>1. CASE Abandon(c)
      BY <1>2, <2>1 DEF Abandon
    <2>2. CASE ~Abandon(c)
      BY <1>3, <1>6, <2>2 DEF ClearAliases, InsertAlias, AfterAlias, Wrote, Steps
    <2> QED BY <2>1, <2>2
  <1>7. ASSUME NEW c \in Clients, Reread(c)
        PROVE  minted \subseteq minted' /\ \A d \in Clients : Inserts(d)' => Inserts(d) /\ id'[d] = id[d]
    <2>1. CASE Abandon(c)
      BY <1>2, <2>1 DEF Abandon
    <2>2. CASE ~Abandon(c)
      BY <1>3, <1>7, <2>2 DEF Reread, locals, Steps
    <2> QED BY <2>1, <2>2
  <1>8. ASSUME NEW c \in Clients, Announce(c) \/ EngineFailure(c)
        PROVE  minted \subseteq minted' /\ \A d \in Clients : Inserts(d)' => Inserts(d) /\ id'[d] = id[d]
    BY <1>2, <1>8 DEF Announce, EngineFailure
  <1>9. ASSUME Crash \/ UNCHANGED vars
        PROVE  minted \subseteq minted' /\ \A d \in Clients : Inserts(d)' => Inserts(d) /\ id'[d] = id[d]
    BY <1>9 DEF Crash, vars, locals
  <1>10. CASE \E c \in Clients, request \in Request : Receive(c, request)
    BY <1>1, <1>10
  <1>11. CASE ~ \E c \in Clients, request \in Request : Receive(c, request)
    BY <1>4, <1>5, <1>6, <1>7, <1>8, <1>9, <1>11 DEF Next, Continue
  <1> QED BY <1>10, <1>11

LEMMA FreshIdsStep ==
  ASSUME Types, FreshIds, [Next]_vars
  PROVE  FreshIds'
  <1>0. Types'
    BY TypesStep
  <1>1. ASSUME NEW e \in EntryId, entries'[e] # Absent
        PROVE  e \in minted'
    BY <1>1, EntriesStep, InsertsStep DEF FreshIds
  <1>2. ASSUME NEW c \in Clients, Inserts(c)', Inserts(c), id'[c] = id[c]
        PROVE  id'[c] \in minted' /\ entries'[id'[c]] = Absent
    <2>1. id[c] \in minted /\ id[c] \in EntryId /\ entries[id[c]] = Absent
      BY <1>2 DEF FreshIds, Inserts, At, Types, LocalsOK, KeysOf
    <2>2. SUFFICES ASSUME entries'[id[c]] # Absent PROVE FALSE
      BY <1>2, <2>1, InsertsStep
    <2>3. PICK d \in Clients : /\ Inserts(d) /\ id[d] = id[c] /\ pc'[d] # "write"
      BY <2>1, <2>2, EntriesStep
    <2>4. d = c
      BY <1>2, <2>3 DEF FreshIds
    <2> QED BY <1>2, <2>3, <2>4 DEF Inserts, At
  <1>3. CASE \A c \in Clients : Inserts(c)' => Inserts(c) /\ id'[c] = id[c]
    BY <1>1, <1>2, <1>3 DEF FreshIds
  <1>4. ASSUME UNCHANGED tables, NEW c \in Clients, id'[c] \in minted' \ minted,
               \A d \in Clients \ {c} : Inserts(d)' => Inserts(d) /\ id'[d] = id[d]
        PROVE  FreshIds'
    <2>1. UNCHANGED entries
      BY <1>4 DEF tables
    <2>2. Inserts(c)' => id'[c] \in EntryId
      BY <1>0 DEF Inserts, At, Types, LocalsOK, KeysOf
    <2>3. Inserts(c)' => entries'[id'[c]] = Absent
      BY <1>4, <2>1, <2>2 DEF FreshIds
    <2>4. \A d \in Clients \ {c} : Inserts(d)' => id'[d] \in minted /\ id'[d] # id'[c]
      BY <1>4 DEF FreshIds
    <2> QED BY <1>1, <1>2, <1>4, <2>3, <2>4 DEF FreshIds
  <1> QED BY <1>3, <1>4, InsertsStep

\* An entry that is there is seen in its own story.
LEMMA SeenNow ==
  ASSUME Types, FreshIds, NEW e \in EntryId, entries[e] # Absent
  PROVE  SeenIn(e, entries[e].story)
  BY DEF FreshIds, SeenIn

\* A client between the checks and the insert of createRelationship was there
\* before the step, or has just read an entry.
LEMMA RelatesStep ==
  ASSUME Types, [Next]_vars, NEW c \in Clients, input'[c].op = "createRelationship"
  PROVE  /\ pc'[c] = "checkTo" =>
              \/ pc[c] = "checkTo" /\ input'[c] = input[c] /\ existing'[c] = existing[c]
              \/ /\ At(c, "createRelationship", "check") /\ input'[c] = input[c]
                 /\ existing'[c] = entries[input[c].from]
         /\ pc'[c] = "write" =>
              \/ pc[c] = "write" /\ input'[c] = input[c]
              \/ /\ At(c, "createRelationship", "checkTo") /\ input'[c] = input[c]
                 /\ InStory(existing[c], input[c].story)
                 /\ InStory(entries[input[c].to], input[c].story)
  <1> DEFINE Goal ==
        /\ pc'[c] = "checkTo" =>
             \/ pc[c] = "checkTo" /\ input'[c] = input[c] /\ existing'[c] = existing[c]
             \/ /\ At(c, "createRelationship", "check") /\ input'[c] = input[c]
                /\ existing'[c] = entries[input[c].from]
        /\ pc'[c] = "write" =>
             \/ pc[c] = "write" /\ input'[c] = input[c]
             \/ /\ At(c, "createRelationship", "checkTo") /\ input'[c] = input[c]
                /\ InStory(existing[c], input[c].story)
                /\ InStory(entries[input[c].to], input[c].story)
  <1> SUFFICES Goal
    OBVIOUS
  <1> USE DEF Types, TypeOK
  <1>1. ASSUME NEW d \in Clients, NEW request \in Request, Receive(d, request)
        PROVE  Goal
    BY <1>1 DEF Receive, Goto, ReadsFirst
  <1>2. ASSUME NEW d \in Clients, Settle(d)
        PROVE  Goal
    BY <1>2 DEF Settle, Goto
  <1>3. ASSUME NEW d \in Clients, NEW step \in {"reread", "announce", "clear", "insert"},
               Goto(d, step), UNCHANGED <<input, existing>>
        PROVE  Goal
    BY <1>3 DEF Goto
  <1>4. ASSUME NEW d \in Clients, Check(d), ~Abandon(d)
        PROVE  Goal
    <2>1. CASE CheckFromEntry(d)
      BY <2>1 DEF CheckFromEntry, Read, Goto
    <2>2. CASE CheckToEntry(d)
      BY <1>4, <2>2 DEF CheckToEntry, Goto, locals, At
    <2>3. CASE ~CheckFromEntry(d) /\ ~CheckToEntry(d)
      BY <1>4, <2>3 DEF Check, CheckExisting, Read, Goto, At
    <2> QED BY <2>1, <2>2, <2>3
  <1>5. ASSUME NEW d \in Clients, Write(d), ~Abandon(d)
        PROVE  Goal
    BY <1>3, <1>5, WriteNext DEF Wrote
  <1>6. ASSUME NEW d \in Clients, ClearAliases(d) \/ InsertAlias(d), ~Abandon(d)
        PROVE  Goal
    BY <1>3, <1>6 DEF ClearAliases, InsertAlias, AfterAlias, Wrote
  <1>7. ASSUME NEW d \in Clients, Reread(d), ~Abandon(d)
        PROVE  Goal
    BY <1>3, <1>7 DEF Reread, locals
  <1>8. ASSUME NEW d \in Clients, Announce(d) \/ EngineFailure(d) \/ Abandon(d)
        PROVE  Goal
    BY <1>2, <1>8 DEF Announce, EngineFailure, Abandon
  <1>9. ASSUME Crash \/ UNCHANGED vars
        PROVE  Goal
    BY <1>9 DEF Crash, vars, locals
  <1> QED BY <1>1, <1>4, <1>5, <1>6, <1>7, <1>8, <1>9 DEF Next, Continue

LEMMA CheckedEntriesStep ==
  ASSUME Types, FreshIds, CheckedEntries, [Next]_vars
  PROVE  CheckedEntries'
  <1> SUFFICES ASSUME NEW c \in Clients, input'[c].op = "createRelationship",
                      pc'[c] \in {"checkTo", "write"}
               PROVE  /\ pc'[c] = "checkTo" /\ existing'[c] # Absent =>
                           SeenIn(input[c].from, existing[c].story)'
                      /\ pc'[c] = "write" => /\ SeenIn(input[c].from, input[c].story)'
                                             /\ SeenIn(input[c].to, input[c].story)'
    BY DEF CheckedEntries, At
  <1>1. /\ input'[c] = input[c] /\ input[c] \in Request /\ input[c].op = "createRelationship"
        /\ input[c].from \in EntryId /\ input[c].to \in EntryId /\ input[c].story \in StoryId
    <2>1. input'[c] = input[c] /\ pc[c] # "idle"
      BY RelatesStep DEF At
    <2>2. input[c] \in Request
      BY <2>1 DEF Types, LocalsOK
    <2> QED BY <2>1, <2>2, RequestFields
  <1>2. ASSUME pc'[c] = "checkTo", existing'[c] # Absent
        PROVE  SeenIn(input[c].from, existing[c].story)'
    <2>1. CASE pc[c] = "checkTo" /\ existing'[c] = existing[c]
      <3>1. SeenIn(input[c].from, existing[c].story)
        BY <1>1, <1>2, <2>1 DEF CheckedEntries, At
      <3>2. SeenIn(input[c].from, existing[c].story) => SeenIn(input[c].from, existing[c].story)'
        BY <1>1, <2>1, EntriesStep, InsertsStep DEF SeenIn
      <3> QED BY <3>1, <3>2
    <2>2. CASE existing'[c] = entries[input[c].from]
      <3> DEFINE e == input[c].from
      <3>1. entries[e] \in Entry
        BY <1>1, <1>2, <2>2 DEF Types, TypeOK, TablesOK
      <3>2. SeenIn(e, entries[e].story) /\ entries[e].story \in StoryId
        BY <1>1, <1>2, <2>2, <3>1, SeenNow DEF Entry
      <3>3. \A s \in StoryId : SeenIn(e, s) => /\ e \in minted' 
                                               /\ entries'[e] # Absent => entries'[e].story = s
                                               /\ \A d \in Clients : Inserts(d)' => id'[d] # e
        BY <1>1, EntriesStep, InsertsStep DEF SeenIn
      <3> QED BY <1>1, <2>2, <3>2, <3>3 DEF SeenIn
    <2> QED BY <1>2, <2>1, <2>2, RelatesStep
  <1>3. ASSUME pc'[c] = "write"
        PROVE  SeenIn(input[c].from, input[c].story)' /\ SeenIn(input[c].to, input[c].story)'
    <2>1. SeenIn(input[c].from, input[c].story) /\ SeenIn(input[c].to, input[c].story)
      <3>1. CASE pc[c] = "write"
        BY <1>1, <3>1 DEF CheckedEntries, At
      <3>2. CASE /\ At(c, "createRelationship", "checkTo")
                 /\ InStory(existing[c], input[c].story)
                 /\ InStory(entries[input[c].to], input[c].story)
        BY <1>1, <3>2, SeenNow DEF CheckedEntries, InStory
      <3> QED BY <1>3, <3>1, <3>2, RelatesStep
    <2>2. \A e \in EntryId, s \in StoryId :
            SeenIn(e, s) => /\ e \in minted' 
                            /\ entries'[e] # Absent => entries'[e].story = s
                            /\ \A d \in Clients : Inserts(d)' => id'[d] # e
      BY EntriesStep, InsertsStep DEF SeenIn
    <2> QED BY <1>1, <2>1, <2>2 DEF SeenIn
  <1> QED BY <1>2, <1>3

\* A relationship that exists was there before, or has just been inserted.
LEMMA RelationshipsStep ==
  ASSUME Types, [Next]_vars, NEW r \in RelationshipId, relationships'[r] # Absent,
         relationships'[r] # relationships[r]
  PROVE  \E c \in Clients : /\ CreateRelationship(c) /\ ~Abandon(c)
                            /\ relationships'[r] = NewRelationship(c)
  <1>1. PICK c \in Clients : ~Abandon(c) /\ (Write(c) \/ ClearAliases(c) \/ InsertAlias(c))
    BY TablesStep DEF tables
  <1> USE DEF Types, TypeOK, TablesOK
  <1>2. CASE DeleteStory(c) \/ DeleteEntry(c) \/ DeleteRelationship(c)
    BY <1>1, <1>2 DEF DeleteStory, DeleteEntry, DeleteRelationship, DeleteMissing
  <1>3. CASE CreateRelationship(c)
    BY <1>1, <1>3 DEF CreateRelationship, NewRelationship
  <1> QED BY <1>1, <1>2, <1>3
          DEF Write, CreatePenName, UpdatePenName, DeletePenName, CreateStory, UpdateStory,
              CreateEntry, UpdateEntry, UpdateMissing, DeleteMissing, ClearAliases,
              InsertAlias, tables

\* Everything the last two theorems rest on.
CodexInv == /\ Types
            /\ ReferentialIntegrity
            /\ FreshIds
            /\ CheckedEntries
            /\ RelationshipWithinStory

LEMMA WithinStoryStep ==
  ASSUME CodexInv, [Next]_vars
  PROVE  RelationshipWithinStory'
  <1> USE DEF CodexInv
  <1> SUFFICES ASSUME NEW r \in RelationshipId, relationships'[r] # Absent
               PROVE  /\ InStory(entries'[relationships'[r].from], relationships'[r].story)
                      /\ InStory(entries'[relationships'[r].to], relationships'[r].story)
    BY DEF RelationshipWithinStory, InStory
  <1>1. CASE relationships'[r] = relationships[r]
    <2>1. relationships[r].from \in EntryId /\ relationships[r].to \in EntryId
      BY <1>1 DEF Types, TypeOK, TablesOK, Relationship
    <2>2. /\ InStory(entries[relationships[r].from], relationships[r].story)
          /\ InStory(entries[relationships[r].to], relationships[r].story)
      BY <1>1 DEF RelationshipWithinStory
    <2>3. /\ entries'[relationships[r].from] # Absent
          /\ entries'[relationships[r].to] # Absent
      BY <1>1, IntegrityStep DEF ReferentialIntegrity, RelationshipsAnchored
    <2>4. \A e \in {relationships[r].from, relationships[r].to} :
            \A c \in Clients : ~ (Inserts(c) /\ id[c] = e)
      BY <2>2 DEF FreshIds, InStory
    <2> QED BY <1>1, <2>1, <2>2, <2>3, <2>4, EntriesStep DEF InStory
  <1>2. CASE relationships'[r] # relationships[r]
    <2>1. PICK c \in Clients : /\ CreateRelationship(c) /\ ~Abandon(c)
                               /\ relationships'[r] = NewRelationship(c)
      BY <1>2, RelationshipsStep
    <2>2. /\ UNCHANGED entries /\ At(c, "createRelationship", "write")
          /\ entries[input[c].from] # Absent /\ entries[input[c].to] # Absent
      BY <2>1 DEF CreateRelationship
    <2>3. /\ SeenIn(input[c].from, input[c].story)
          /\ SeenIn(input[c].to, input[c].story)
      BY <2>2 DEF CheckedEntries
    <2> QED BY <2>1, <2>2, <2>3 DEF SeenIn, InStory, NewRelationship
  <1> QED BY <1>1, <1>2

LEMMA CodexInvInit == Init => CodexInv
  <1> SUFFICES ASSUME Init PROVE CodexInv
    OBVIOUS
  <1>1. Types /\ ReferentialIntegrity
    BY TypesInit, IntegrityInit
  <1>2. FreshIds /\ CheckedEntries /\ RelationshipWithinStory
    BY DEF Init, FreshIds, CheckedEntries, RelationshipWithinStory, Inserts, At
  <1> QED BY <1>1, <1>2 DEF CodexInv

LEMMA CodexInvStep == CodexInv /\ [Next]_vars => CodexInv'
  BY TypesStep, IntegrityStep, FreshIdsStep, CheckedEntriesStep, WithinStoryStep DEF CodexInv

LEMMA CodexInvariant == Spec => []CodexInv
  BY CodexInvInit, CodexInvStep, PTL DEF Spec

\* A relationship always links two entries of its own story, although
\* createRelationship tests that on rows it read two statements earlier.
THEOREM CodexRelationships == Spec => []RelationshipWithinStory
  <1>1. CodexInv => RelationshipWithinStory
    BY DEF CodexInv
  <1> QED BY <1>1, CodexInvariant, PTL

\* A story vanishes only by the deletion some window asked for.
THEOREM CodexStoriesVanishOnlyOnRequest == Spec => StoriesVanishOnlyOnRequest
  <1> DEFINE A == \A s \in StoryId : stories[s] # Absent /\ stories'[s] = Absent =>
                    \E c \in Clients : At(c, "deleteStory", "write") /\ id[c] = s
  <1>1. ASSUME Types, [Next]_vars
        PROVE  [A]_vars
    <2> SUFFICES ASSUME NEW s \in StoryId, stories[s] # Absent, stories'[s] = Absent
                 PROVE  \E c \in Clients : At(c, "deleteStory", "write") /\ id[c] = s
      OBVIOUS
    <2>1. PICK c \in Clients : ~Abandon(c) /\ (Write(c) \/ ClearAliases(c) \/ InsertAlias(c))
      BY <1>1, TablesStep DEF tables
    <2> USE <1>1 DEF Types, TypeOK, TablesOK
    <2>2. CASE DeleteStory(c)
      BY <2>1, <2>2 DEF DeleteStory, DeleteMissing
    <2>3. CASE CreateStory(c)
      BY <2>1, <2>3, NewRows, RowsAreNotAbsent DEF CreateStory, NewStory, Write
    <2>4. CASE UpdateStory(c)
      <3>1. StoryRow(c) \in Story
        BY <1>1, <2>4, UpdatedRows DEF Write
      <3>2. \/ UNCHANGED stories
            \/ stories' = [stories EXCEPT ![id[c]] = StoryRow(c)]
        BY <2>1, <2>4 DEF UpdateStory, UpdateMissing, StoryRow, tables
      <3> HIDE DEF Types, TypeOK, TablesOK
      <3>3. stories'[s] # Absent
        <4>1. stories \in [StoryId -> Story \cup {Absent}]
          BY <1>1 DEF Types, TypeOK, TablesOK
        <4> QED BY <3>1, <3>2, <4>1, RowsAreNotAbsent
      <3> QED BY <3>3
    <2> QED BY <2>1, <2>2, <2>3, <2>4
            DEF Write, CreatePenName, UpdatePenName, DeletePenName, CreateEntry, UpdateEntry,
                DeleteEntry, CreateRelationship, DeleteRelationship, UpdateMissing,
                DeleteMissing, ClearAliases, InsertAlias, tables
  <1>2. Spec => []Types
    BY TypesInit, TypesStep, PTL DEF Spec
  <1> QED BY <1>1, <1>2, PTL DEF Spec, StoriesVanishOnlyOnRequest

\* The step that makes a row appear is the INSERT of the create call that
\* minted its id: no update and no alias insert brings a deleted row back.
LEMMA RowsAppear ==
  ASSUME Types, [Next]_vars, NEW key
  PROVE  /\ key \in PenNameId /\ penNames[key] = Absent /\ penNames'[key] # Absent =>
              \E c \in Clients : At(c, "createPenName", "write") /\ id[c] = key
         /\ key \in StoryId /\ stories[key] = Absent /\ stories'[key] # Absent =>
              \E c \in Clients : At(c, "createStory", "write") /\ id[c] = key
         /\ key \in EntryId /\ entries[key] = Absent /\ entries'[key] # Absent =>
              \E c \in Clients : At(c, "createEntry", "write") /\ id[c] = key
         /\ key \in RelationshipId /\ relationships[key] = Absent /\ relationships'[key] # Absent =>
              \E c \in Clients : At(c, "createRelationship", "write") /\ id[c] = key
  <1>1. CASE UNCHANGED tables
    BY <1>1 DEF tables
  <1>2. CASE ~UNCHANGED tables
    <2>1. PICK c \in Clients : ~Abandon(c) /\ (Write(c) \/ ClearAliases(c) \/ InsertAlias(c))
      BY <1>2, TablesStep
    <2>2. /\ penNames \in [PenNameId -> PenName \cup {Absent}]
          /\ stories \in [StoryId -> Story \cup {Absent}]
          /\ relationships \in [RelationshipId -> Relationship \cup {Absent}]
      BY DEF Types, TypeOK, TablesOK
    <2> USE DEF Write, CreatePenName, UpdatePenName, DeletePenName, CreateStory,
        UpdateStory, DeleteStory, CreateEntry, UpdateEntry, DeleteEntry, CreateRelationship,
        DeleteRelationship, UpdateMissing, DeleteMissing, ClearAliases, InsertAlias, tables
    <2>3. ASSUME NEW p \in PenNameId, penNames[p] = Absent, penNames'[p] # Absent
          PROVE  At(c, "createPenName", "write") /\ id[c] = p
      BY <2>1, <2>2, <2>3
    <2>4. ASSUME NEW s \in StoryId, stories[s] = Absent, stories'[s] # Absent
          PROVE  At(c, "createStory", "write") /\ id[c] = s
      BY <2>1, <2>2, <2>4
    <2>5. ASSUME NEW r \in RelationshipId, relationships[r] = Absent, relationships'[r] # Absent
          PROVE  At(c, "createRelationship", "write") /\ id[c] = r
      BY <2>1, <2>2, <2>5
    <2>6. ASSUME NEW e \in EntryId, entries[e] = Absent, entries'[e] # Absent
          PROVE  \E d \in Clients : At(d, "createEntry", "write") /\ id[d] = e
      BY <2>6, EntriesStep DEF Inserts
    <2> QED BY <2>3, <2>4, <2>5, <2>6
  <1> QED BY <1>1, <1>2

\* No row that was deleted comes back, in any table.
THEOREM CodexRowsAppearOnlyByCreate == Spec => RowsAppearOnlyByCreate
  <1> DEFINE Appears(key, ids, table) ==
               key \in ids /\ table[key] = Absent /\ table'[key] # Absent
             CreatedBy(key, op) == \E c \in Clients : At(c, op, "write") /\ id[c] = key
             A == \A key \in Ids :
               /\ Appears(key, PenNameId, penNames) => CreatedBy(key, "createPenName")
               /\ Appears(key, StoryId, stories) => CreatedBy(key, "createStory")
               /\ Appears(key, EntryId, entries) => CreatedBy(key, "createEntry")
               /\ Appears(key, RelationshipId, relationships) => CreatedBy(key, "createRelationship")
  <1>1. ASSUME Types, [Next]_vars
        PROVE  [A]_vars
    BY <1>1, RowsAppear
  <1>2. Spec => []Types
    BY TypesInit, TypesStep, PTL DEF Spec
  <1> QED BY <1>1, <1>2, PTL DEF Spec, RowsAppearOnlyByCreate

----------------------------------------------------------------------------
(* Ids of relationships. *)

\* c has minted the id of the relationship it may insert.
Claims(c) == input[c].op = "createRelationship" /\ pc[c] \in {"check", "checkTo", "write"}

FreshLinks ==
  /\ \A r \in RelationshipId : relationships[r] # Absent => r \in minted
  /\ \A c \in Clients : Claims(c) => id[c] \in minted /\ relationships[id[c]] = Absent
  /\ \A c, d \in Clients : Claims(c) /\ Claims(d) /\ c # d => id[c] # id[d]

\* A client that claims an id did so before the step, or has just minted it.
LEMMA ClaimsStep ==
  ASSUME Types, [Next]_vars
  PROVE  \/ \A c \in Clients : Claims(c)' => Claims(c) /\ id'[c] = id[c]
         \/ /\ UNCHANGED tables
            /\ \E c \in Clients :
                 /\ id'[c] \in minted' \ minted
                 /\ \A d \in Clients \ {c} : Claims(d)' => Claims(d) /\ id'[d] = id[d]
  <1> USE DEF Types, TypeOK, Claims, At
  <1> DEFINE Kept == \A d \in Clients : Claims(d)' => Claims(d) /\ id'[d] = id[d]
  <1>1. ASSUME NEW c \in Clients, NEW request \in Request, Receive(c, request)
        PROVE  /\ UNCHANGED tables
               /\ \A d \in Clients \ {c} : Claims(d)' => Claims(d) /\ id'[d] = id[d]
               /\ Claims(c)' => id'[c] \in minted' \ minted
    <2>1. CASE Creates(request.op)
      BY <1>1, <2>1 DEF Receive, Goto
    <2>2. CASE ~Creates(request.op)
      BY <1>1, <2>2 DEF Receive, Goto, Creates
    <2> QED BY <2>1, <2>2
  <1>2. ASSUME NEW c \in Clients, Settle(c)
        PROVE  Kept
    BY <1>2 DEF Settle, Goto
  <1>3. ASSUME NEW c \in Clients, NEW step, Goto(c, step), UNCHANGED <<input, id>>,
               Claims(c)' => Claims(c)
        PROVE  Kept
    BY <1>3 DEF Goto
  <1>4. ASSUME NEW c \in Clients, Check(c), ~Abandon(c)
        PROVE  Kept
    BY <1>3, <1>4 DEF Check, CheckExisting, CheckFromEntry, CheckToEntry, Read, locals
  <1>5. ASSUME NEW c \in Clients, Write(c), ~Abandon(c)
        PROVE  Kept
    <2>1. PICK step \in {"reread", "announce", "clear"} :
            Goto(c, step) /\ UNCHANGED <<input, id>>
      BY <1>5, WriteNext DEF Wrote
    <2> QED BY <2>1 DEF Goto
  <1>6. ASSUME NEW c \in Clients, ClearAliases(c) \/ InsertAlias(c), ~Abandon(c)
        PROVE  Kept
    <2>1. PICK step \in {"reread", "insert"} : Goto(c, step) /\ UNCHANGED <<input, id>>
      BY <1>6 DEF ClearAliases, InsertAlias, AfterAlias, Wrote
    <2> QED BY <2>1 DEF Goto
  <1>7. ASSUME NEW c \in Clients, Reread(c), ~Abandon(c)
        PROVE  Kept
    BY <1>7 DEF Reread, locals, Goto
  <1>8. ASSUME NEW c \in Clients, Announce(c) \/ EngineFailure(c) \/ Abandon(c)
        PROVE  Kept
    BY <1>2, <1>8 DEF Announce, EngineFailure, Abandon
  <1>9. ASSUME Crash \/ UNCHANGED vars
        PROVE  Kept
    BY <1>9 DEF Crash, vars, locals
  <1>10. CASE \E c \in Clients, request \in Request : Receive(c, request)
    BY <1>1, <1>10
  <1>11. CASE ~ \E c \in Clients, request \in Request : Receive(c, request)
    BY <1>4, <1>5, <1>6, <1>7, <1>8, <1>9, <1>11 DEF Next, Continue
  <1> QED BY <1>10, <1>11

LEMMA FreshLinksStep ==
  ASSUME Types, FreshLinks, [Next]_vars
  PROVE  FreshLinks'
  <1>0. Types' /\ minted \subseteq minted'
    BY TypesStep, InsertsStep
  <1>1. ASSUME NEW r \in RelationshipId, relationships'[r] # Absent,
               relationships'[r] # relationships[r]
        PROVE  \E c \in Clients : At(c, "createRelationship", "write") /\ id[c] = r
                                  /\ pc'[c] = "reread"
    <2>1. PICK c \in Clients : /\ CreateRelationship(c) /\ ~Abandon(c)
                               /\ relationships'[r] = NewRelationship(c)
      BY <1>1, RelationshipsStep
    <2>2. relationships' = [relationships EXCEPT ![id[c]] = NewRelationship(c)]
      BY <2>1 DEF CreateRelationship, NewRelationship
    <2>3. id[c] = r
      BY <1>1, <2>2 DEF Types, TypeOK, TablesOK
    <2> QED BY <2>1, <2>3 DEF CreateRelationship, Wrote, Goto, Types, TypeOK
  <1>2. ASSUME NEW r \in RelationshipId, relationships'[r] # Absent
        PROVE  r \in minted'
    BY <1>0, <1>1, <1>2 DEF FreshLinks, Claims, At
  <1>3. ASSUME NEW c \in Clients, Claims(c)', Claims(c), id'[c] = id[c]
        PROVE  id'[c] \in minted' /\ relationships'[id'[c]] = Absent
    <2>1. id[c] \in minted /\ id[c] \in RelationshipId /\ relationships[id[c]] = Absent
      BY <1>3 DEF FreshLinks, Claims, Types, LocalsOK, KeysOf
    <2>2. SUFFICES ASSUME relationships'[id[c]] # Absent PROVE FALSE
      BY <1>0, <1>3, <2>1
    <2>3. PICK d \in Clients : /\ At(d, "createRelationship", "write") /\ id[d] = id[c]
                               /\ pc'[d] = "reread"
      BY <1>1, <2>1, <2>2
    <2>4. d = c
      BY <1>3, <2>3 DEF FreshLinks, Claims, At
    <2> QED BY <1>3, <2>3, <2>4 DEF Claims
  <1>4. CASE \A c \in Clients : Claims(c)' => Claims(c) /\ id'[c] = id[c]
    BY <1>2, <1>3, <1>4 DEF FreshLinks
  <1>5. ASSUME UNCHANGED tables, NEW c \in Clients, id'[c] \in minted' \ minted,
               \A d \in Clients \ {c} : Claims(d)' => Claims(d) /\ id'[d] = id[d]
        PROVE  FreshLinks'
    <2>1. UNCHANGED relationships
      BY <1>5 DEF tables
    <2>2. Claims(c)' => id'[c] \in RelationshipId
      BY <1>0 DEF Claims, Types, LocalsOK, KeysOf
    <2>3. Claims(c)' => relationships'[id'[c]] = Absent
      BY <1>5, <2>1, <2>2 DEF FreshLinks
    <2>4. \A d \in Clients \ {c} : Claims(d)' => id'[d] \in minted /\ id'[d] # id'[c]
      BY <1>5 DEF FreshLinks
    <2> QED BY <1>2, <1>3, <1>5, <2>3, <2>4 DEF FreshLinks
  <1> QED BY <1>4, <1>5, ClaimsStep

----------------------------------------------------------------------------
(* The interleaved statements implement the indivisible operations. *)

LEMMA StoreInit == Init => Store!Init
  BY DEF Init, Store!Init

LEMMA StoreOperations ==
  /\ \A p \in PenNameId : Store!AddPenName(p) \/ Store!RemovePenName(p) => Store!Next
  /\ \A s \in StoryId, p \in PenNameId :
       Store!AddStory(s, p) \/ Store!MoveStory(s, p) => Store!Next
  /\ \A s \in StoryId : Store!RemoveStory(s) => Store!Next
  /\ \A e \in EntryId, s \in StoryId : Store!AddEntry(e, s) => Store!Next
  /\ \A e \in EntryId : Store!RemoveEntry(e) => Store!Next
  /\ \A r \in RelationshipId, l \in Store!Link : Store!Relate(r, l) => Store!Next
  /\ \A r \in RelationshipId : Store!Unrelate(r) => Store!Next
  BY DEF Store!Next

\* Statements on the tables of CodexStore, one operation of it each; the
\* others leave pen names, owners, homes and links as they are.
LEMMA StoreWrite ==
  ASSUME CodexInv, FreshLinks, CodexInv', NEW c \in Clients, Write(c), ~Abandon(c)
  PROVE  Store!Next \/ UNCHANGED Store!storeVars
  <1> USE DEF CodexInv, Types, TypeOK, TablesOK
  <1>0. id[c] \in KeysOf(input[c].op) /\ input[c] \in Request
    BY AtWrite
  <1>1. CASE CreatePenName(c) \/ UpdatePenName(c)
    <2>1. /\ UNCHANGED <<stories, entries, relationships>> /\ id[c] \in PenNameId
          /\ \/ UNCHANGED penNames
             \/ \E row \in PenName : penNames' = [penNames EXCEPT ![id[c]] = row]
      BY <1>0, <1>1, NewRows, UpdatedRows
      DEF CreatePenName, UpdatePenName, UpdateMissing, NewPenName, PenNameRow, tables, KeysOf, At
    <2>2. CASE penNames[id[c]] # Absent \/ UNCHANGED penNames
      BY <2>1, <2>2, RowsAreNotAbsent DEF Store!storeVars
    <2>3. CASE penNames[id[c]] = Absent /\ ~UNCHANGED penNames
      <3>1. PICK p \in PenNameId : p = id[c]
        BY <2>1
      <3>2. Store!AddPenName(p)
        BY <2>1, <2>3, <3>1, RowsAreNotAbsent DEF Store!AddPenName
      <3> QED BY <3>2, StoreOperations
    <2> QED BY <2>2, <2>3
  <1>2. CASE DeletePenName(c)
    <2>1. /\ id[c] \in PenNameId
          /\ penNames' = [penNames EXCEPT ![id[c]] = Absent] /\ penNames[id[c]] # Absent
          /\ UNCHANGED <<stories, entries, relationships>>
          /\ \A s \in StoryId : stories[s] # Absent => stories[s].penName # id[c]
      BY <1>0, <1>2 DEF DeletePenName, DeleteMissing, KeysOf, At
    <2>2. PICK p \in PenNameId : p = id[c]
      BY <2>1
    <2>3. Store!RemovePenName(p)
      BY <2>2, <2>1, AbsentAssumption DEF Store!RemovePenName
    <2> QED BY <2>3, StoreOperations
  <1>3. CASE CreateStory(c) \/ UpdateStory(c)
    <2>1. /\ id[c] \in StoryId /\ UNCHANGED <<penNames, entries, relationships>>
          /\ \/ UNCHANGED stories
             \/ \E row \in Story : /\ penNames[row.penName] # Absent
                                   /\ stories' = [stories EXCEPT ![id[c]] = row]
      <3>1. CASE CreateStory(c)
        BY <1>0, <3>1, NewRows DEF CreateStory, NewStory, KeysOf, At
      <3>2. CASE UpdateStory(c)
        BY <1>0, <3>2, UpdatedRows DEF UpdateStory, UpdateMissing, StoryRow, KeysOf, At, tables
      <3> QED BY <1>3, <3>1, <3>2
    <2>2. CASE UNCHANGED stories
      BY <2>1, <2>2 DEF Store!storeVars
    <2>3. ASSUME NEW row \in Story, penNames[row.penName] # Absent,
                 stories' = [stories EXCEPT ![id[c]] = row]
          PROVE  Store!Next
      <3>1. row.penName \in PenNameId /\ row # Absent
        BY RowsAreNotAbsent DEF Story
      <3>2. CASE stories[id[c]] = Absent
        <4>1. Store!AddStory(id[c], row.penName)
          BY <2>1, <2>3, <3>1, <3>2 DEF Store!AddStory
        <4> QED BY <2>1, <3>1, <4>1, StoreOperations
      <3>3. CASE stories[id[c]] # Absent
        <4>1. Store!MoveStory(id[c], row.penName)
          <5>1. stories[id[c]].penName # Absent /\ row.penName # Absent
            BY <2>1, <3>1, <3>3, AbsentAssumption DEF Story
          <5>2. [s \in StoryId |-> IF stories'[s] = Absent THEN Absent ELSE stories'[s].penName]
                  = [[s \in StoryId |-> IF stories[s] = Absent THEN Absent ELSE stories[s].penName]
                       EXCEPT ![id[c]] = row.penName]
            BY <2>1, <2>3, <3>1
          <5> QED BY <2>1, <2>3, <3>1, <3>3, <5>1, <5>2 DEF Store!MoveStory
        <4> QED BY <2>1, <3>1, <4>1, StoreOperations
      <3> QED BY <3>2, <3>3
    <2> QED BY <2>1, <2>2, <2>3
  <1>4. CASE DeleteStory(c)
    <2> DEFINE gone == {e \in EntryId : InStory(entries[e], id[c])}
    <2>1. /\ id[c] \in StoryId /\ stories[id[c]] # Absent
          /\ stories' = [stories EXCEPT ![id[c]] = Absent]
          /\ entries' = [e \in EntryId |-> IF InStory(entries[e], id[c]) THEN Absent ELSE entries[e]]
          /\ penNames' = penNames
          /\ relationships' = [r \in RelationshipId |->
               IF \/ InStory(relationships[r], id[c])
                  \/ relationships[r] # Absent /\ relationships[r].from \in gone
                  \/ relationships[r] # Absent /\ relationships[r].to \in gone
               THEN Absent ELSE relationships[r]]
      BY <1>0, <1>4 DEF DeleteStory, DeleteMissing, WithoutEntries, KeysOf, At
    <2>2. \A r \in RelationshipId :
            relationships[r] # Absent /\ (relationships[r].from \in gone \/ relationships[r].to \in gone)
              => relationships[r].story = id[c]
      BY DEF RelationshipWithinStory, InStory
    <2>3. relationships' = [r \in RelationshipId |->
            IF relationships[r] # Absent /\ relationships[r].story = id[c]
            THEN Absent ELSE relationships[r]]
      BY <2>1, <2>2 DEF InStory
    <2>4. PICK s \in StoryId : s = id[c]
      BY <2>1
    <2>5. Store!RemoveStory(s)
      <3>1. stories[id[c]].penName # Absent
        BY <2>1, AbsentAssumption DEF Story
      <3>2. [k \in StoryId |-> IF stories'[k] = Absent THEN Absent ELSE stories'[k].penName]
              = [[k \in StoryId |-> IF stories[k] = Absent THEN Absent ELSE stories[k].penName]
                   EXCEPT ![id[c]] = Absent]
        BY <2>1
      <3>3. \A e \in EntryId :
              (IF entries'[e] = Absent THEN Absent ELSE entries'[e].story)
                = (IF (IF entries[e] = Absent THEN Absent ELSE entries[e].story) = id[c]
                   THEN Absent ELSE (IF entries[e] = Absent THEN Absent ELSE entries[e].story))
        BY <2>1, AbsentAssumption DEF InStory
      <3> QED BY <2>4, <2>1, <2>3, <3>1, <3>2, <3>3 DEF Store!RemoveStory
    <2> QED BY <2>5, StoreOperations
  <1>5. CASE CreateEntry(c)
    <2>1. /\ id[c] \in EntryId /\ Inserts(c) /\ input[c].story \in StoryId
          /\ stories[input[c].story] # Absent
          /\ entries' = [entries EXCEPT ![id[c]] = NewEntry(c)]
          /\ UNCHANGED <<penNames, stories, relationships>>
      BY <1>0, <1>5, RequestFields DEF CreateEntry, NewEntry, Inserts, KeysOf, At
    <2>2. entries[id[c]] = Absent /\ NewEntry(c) # Absent
      BY <1>5, <2>1, NewRows, RowsAreNotAbsent DEF FreshIds, Write
    <2>3. PICK e \in EntryId, s \in StoryId : e = id[c] /\ s = input[c].story
      BY <2>1
    <2>4. Store!AddEntry(e, s)
      BY <2>1, <2>2, <2>3, AbsentAssumption DEF Store!AddEntry, NewEntry, Story
    <2> QED BY <2>4, StoreOperations
  <1>6. CASE UpdateEntry(c)
    <2>1. UNCHANGED <<penNames, stories, relationships>>
      BY <1>6 DEF UpdateEntry, UpdateMissing, tables
    <2>2. \A e \in EntryId : /\ entries'[e] = Absent <=> entries[e] = Absent
                             /\ entries[e] # Absent => entries'[e].story = entries[e].story
      <3>1. CASE UNCHANGED entries
        BY <3>1
      <3>2. CASE ~UNCHANGED entries
        <4>1. entries' = [entries EXCEPT ![id[c]] = EntryRow(c)] /\ entries[id[c]] # Absent
          BY <1>6, <3>2 DEF UpdateEntry, UpdateMissing, EntryRow, tables
        <4> QED BY <1>6, <4>1, UpdatedRows, RowsAreNotAbsent
      <3> QED BY <3>1, <3>2
    <2> QED BY <2>1, <2>2 DEF Store!storeVars
  <1>7. CASE DeleteEntry(c)
    <2>1. /\ id[c] \in EntryId /\ entries[id[c]] # Absent
          /\ entries' = [e \in EntryId |-> IF e = id[c] THEN Absent ELSE entries[e]]
          /\ UNCHANGED <<penNames, stories>>
          /\ relationships' = [r \in RelationshipId |->
               IF relationships[r] # Absent /\ id[c] \in {relationships[r].from, relationships[r].to}
               THEN Absent ELSE relationships[r]]
      BY <1>0, <1>7 DEF DeleteEntry, DeleteMissing, WithoutEntries, KeysOf, At
    <2>2. PICK e \in EntryId : e = id[c]
      BY <2>1
    <2>3. Store!RemoveEntry(e)
      <3>1. entries[id[c]].story # Absent
        BY <2>1, AbsentAssumption DEF Entry
      <3>2. [k \in EntryId |-> IF entries'[k] = Absent THEN Absent ELSE entries'[k].story]
              = [[k \in EntryId |-> IF entries[k] = Absent THEN Absent ELSE entries[k].story]
                   EXCEPT ![id[c]] = Absent]
        BY <2>1
      <3> QED BY <2>2, <2>1, <3>1, <3>2 DEF Store!RemoveEntry
    <2> QED BY <2>3, StoreOperations
  <1>8. CASE CreateRelationship(c)
    <2> DEFINE l == NewRelationship(c)
    <2>1. /\ id[c] \in RelationshipId /\ Claims(c) /\ At(c, "createRelationship", "write")
          /\ input[c].from \in EntryId /\ input[c].to \in EntryId /\ input[c].story \in StoryId
          /\ entries[input[c].from] # Absent /\ entries[input[c].to] # Absent
          /\ relationships' = [relationships EXCEPT ![id[c]] = l]
          /\ UNCHANGED <<penNames, stories, entries>>
      BY <1>0, <1>8, RequestFields DEF CreateRelationship, NewRelationship, Claims, KeysOf, At
    <2>2. relationships[id[c]] = Absent
      BY <2>1 DEF FreshLinks
    <2>3. entries[l.from].story = l.story /\ entries[l.to].story = l.story
      BY <2>1 DEF CheckedEntries, SeenIn, NewRelationship
    <2>4. l \in Store!Link
      BY <2>1 DEF Store!Link, NewRelationship
    <2>5. /\ l.from = input[c].from /\ l.to = input[c].to
          /\ l.from \in EntryId /\ l.to \in EntryId
      BY <2>1 DEF NewRelationship
    <2> HIDE DEF l
    <2>6. Store!Relate(id[c], l)
      BY <2>1, <2>2, <2>3, <2>5 DEF Store!Relate
    <2> QED BY <2>1, <2>4, <2>6, StoreOperations
  <1>9. CASE DeleteRelationship(c)
    <2>1. /\ id[c] \in RelationshipId /\ relationships[id[c]] # Absent
          /\ relationships' = [relationships EXCEPT ![id[c]] = Absent]
          /\ UNCHANGED <<penNames, stories, entries>>
      BY <1>0, <1>9 DEF DeleteRelationship, DeleteMissing, KeysOf, At
    <2>2. PICK r \in RelationshipId : r = id[c]
      BY <2>1
    <2>3. Store!Unrelate(r)
      BY <2>2, <2>1 DEF Store!Unrelate
    <2> QED BY <2>3, StoreOperations
  <1> QED BY <1>1, <1>2, <1>3, <1>4, <1>5, <1>6, <1>7, <1>8, <1>9 DEF Write

LEMMA StoreStep ==
  ASSUME CodexInv, FreshLinks, CodexInv', [Next]_vars
  PROVE  [Store!Next]_(Store!storeVars)
  <1>1. CASE UNCHANGED tables
    BY <1>1 DEF tables, Store!storeVars
  <1>2. CASE ~UNCHANGED tables
    <2>1. PICK c \in Clients : ~Abandon(c) /\ (Write(c) \/ ClearAliases(c) \/ InsertAlias(c))
      BY <1>2, TablesStep
    <2>2. CASE Write(c)
      BY <2>1, <2>2, StoreWrite
    <2>3. CASE ClearAliases(c) \/ InsertAlias(c)
      BY <1>2, <2>1, <2>3 DEF ClearAliases, InsertAlias, tables, Store!storeVars
    <2> QED BY <2>1, <2>2, <2>3
  <1> QED BY <1>1, <1>2

\* The chains of awaited statements implement the codex store: every one of
\* them is a single operation of it, taken when its guard holds.
THEOREM CodexImplementsStore == Spec => ImplementsStore
  <1>1. Init => FreshLinks
    BY DEF Init, FreshLinks, Claims
  <1>2. CodexInv /\ FreshLinks /\ [Next]_vars => FreshLinks'
    BY FreshLinksStep DEF CodexInv
  <1>3. Spec => []FreshLinks
    BY <1>1, <1>2, CodexInvariant, PTL DEF Spec
  <1> QED BY <1>3, CodexInvariant, StoreInit, StoreStep, PTL DEF Spec, ImplementsStore, Store!Spec

==============================================================================
