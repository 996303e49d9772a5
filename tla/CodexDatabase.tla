---------------------------- MODULE CodexDatabase ----------------------------
(***************************************************************************)
(* The codex database as every window sees it: CodexDatabaseMainService in *)
(* the main process, called over IPC, and the CodexDatabase it drives.     *)
(*                                                                         *)
(* An operation is an async function that awaits one SQL statement after   *)
(* another on a shared connection.  A statement commits by itself, and     *)
(* between two statements of one operation any statement of another may    *)
(* run.  So a statement is one action here, with its foreign keys, and     *)
(* pc[c] names the statement client c awaits next.  Crash is the end of    *)
(* the process: rows committed so far stay, operations in flight do not.   *)
(*                                                                         *)
(* Bounds: each id set is what randomUUID may return in one run, so it     *)
(* bounds the creations; MaxFailures bounds the statements that fail with  *)
(* an error of the engine (disk full, busy timeout).                       *)
(***************************************************************************)
EXTENDS Naturals, Sequences

CONSTANTS
  Clients,      \* concurrent calls the windows may have in flight
  PenNameId, StoryId, EntryId, RelationshipId,
  Text,         \* names and titles
  AliasText,    \* aliases, Blank among them
  Blank,        \* an alias that is empty once trimmed
  AliasLists,   \* the alias lists callers pass
  Absent,       \* no row; also an optional input left undefined
  Operations,   \* the operations this instance's clients call
  MaxFailures

PenName == [name : Text]
Story == [penName : PenNameId, title : Text]
Entry == [story : StoryId, title : Text]
Relationship == [story : StoryId, from : EntryId, to : EntryId]

ASSUME AbsentAssumption ==
  Absent \notin PenName \cup Story \cup Entry \cup Relationship \cup PenNameId
                \cup StoryId \cup EntryId \cup RelationshipId \cup Text
ASSUME AliasAssumption == \A l \in AliasLists : l \in Seq(AliasText)
ASSUME FailuresAssumption == MaxFailures \in Nat

\* The input a window sends; Absent is an optional field left out.
Request ==
       [op : {"createPenName"}, name : Text]
  \cup [op : {"updatePenName"}, id : PenNameId, name : Text \cup {Absent}]
  \cup [op : {"deletePenName"}, id : PenNameId]
  \cup [op : {"createStory"}, penName : PenNameId, title : Text]
  \cup [op : {"updateStory"}, id : StoryId, penName : PenNameId \cup {Absent},
        title : Text \cup {Absent}]
  \cup [op : {"deleteStory"}, id : StoryId]
  \cup [op : {"createEntry"}, story : StoryId, title : Text, aliases : AliasLists]
  \cup [op : {"updateEntry"}, id : EntryId, title : Text \cup {Absent}]
  \cup [op : {"deleteEntry"}, id : EntryId]
  \cup [op : {"setEntryAliases"}, id : EntryId, aliases : AliasLists]
  \cup [op : {"createRelationship"}, story : StoryId, from : EntryId, to : EntryId]
  \cup [op : {"deleteRelationship"}, id : RelationshipId]

VARIABLES
  penNames, stories, entries,   \* the tables: id -> row or Absent
  aliases,        \* entry -> alias -> how many rows hold it
  relationships,
  minted,         \* every id randomUUID has returned
  pc,             \* client -> the statement its operation awaits
  input,          \* client -> its request, Absent when idle
  id,             \* client -> the id its operation works on
  existing,       \* client -> the row it read before writing
  todo,           \* client -> the aliases it has still to insert
  unannounced,    \* kinds with a committed change no event has followed
  failures        \* statements that failed with an engine error so far

tables == <<penNames, stories, entries, aliases, relationships>>
locals == <<input, id, existing, todo>>
vars == <<tables, minted, pc, locals, unannounced, failures>>

Steps == {"idle", "check", "checkTo", "write", "clear", "insert", "reread", "announce"}
Kinds == {"pen_names", "stories", "entries", "relationships"}
Ids == PenNameId \cup StoryId \cup EntryId \cup RelationshipId
Row == PenName \cup Story \cup Entry \cup Relationship
NoAliases == [a \in AliasText |-> 0]

Init == /\ penNames = [p \in PenNameId |-> Absent]
        /\ stories = [s \in StoryId |-> Absent]
        /\ entries = [e \in EntryId |-> Absent]
        /\ aliases = [e \in EntryId |-> NoAliases]
        /\ relationships = [r \in RelationshipId |-> Absent]
        /\ minted = {}
        /\ pc = [c \in Clients |-> "idle"]
        /\ input = [c \in Clients |-> Absent]
        /\ id = [c \in Clients |-> Absent]
        /\ existing = [c \in Clients |-> Absent]
        /\ todo = [c \in Clients |-> <<>>]
        /\ unannounced = {}
        /\ failures = 0

----------------------------------------------------------------------------
(* Where an operation stands. *)

At(c, op, step) == pc[c] = step /\ input[c].op = op
Goto(c, step) == pc' = [pc EXCEPT ![c] = step]

\* The promise settles: the operation's locals are gone.
Settle(c) == /\ Goto(c, "idle")
             /\ input' = [input EXCEPT ![c] = Absent]
             /\ id' = [id EXCEPT ![c] = Absent]
             /\ existing' = [existing EXCEPT ![c] = Absent]
             /\ todo' = [todo EXCEPT ![c] = <<>>]

\* An operation throws, or returns undefined or false before it fires.
Abandon(c) == Settle(c) /\ UNCHANGED <<tables, minted, unannounced, failures>>

Changed(kinds) == unannounced' = unannounced \cup kinds

\* Mutant: a column the caller left out is written as undefined.
GivenOrUndefined(value, stored) == value

Given(value, stored) == IF value = Absent THEN stored ELSE value   \* value ?? stored

----------------------------------------------------------------------------
(* A call arrives; _getDatabase and _ensureDb are already resolved. *)

Creates(op) == op \in {"createPenName", "createStory", "createEntry", "createRelationship"}
ReadsFirst(op) == op \in {"updatePenName", "updateStory", "updateEntry",
                          "setEntryAliases", "createRelationship"}

IdsFor == [createPenName |-> PenNameId, createStory |-> StoryId,
           createEntry |-> EntryId, createRelationship |-> RelationshipId]

Receive(c, request) ==
  /\ pc[c] = "idle"
  /\ request.op \in Operations
  /\ input' = [input EXCEPT ![c] = request]
  /\ Goto(c, IF ReadsFirst(request.op) THEN "check" ELSE "write")
  /\ IF Creates(request.op)
     THEN \E new \in IdsFor[request.op] \ minted :
            /\ minted' = minted \cup {new}
            /\ id' = [id EXCEPT ![c] = new]
     ELSE id' = [id EXCEPT ![c] = request.id] /\ UNCHANGED minted
  /\ UNCHANGED <<tables, existing, todo, unannounced, failures>>

----------------------------------------------------------------------------
(* The read an operation makes before it writes. *)

Read(c, row, step) ==
  /\ existing' = [existing EXCEPT ![c] = row]
  /\ Goto(c, step)
  /\ UNCHANGED <<tables, minted, input, id, todo, unannounced, failures>>

\* "if (!existing) return undefined" of the update operations.
CheckExisting(c, op, row, step) ==
  /\ At(c, op, "check")
  /\ IF row = Absent THEN Abandon(c) ELSE Read(c, row, step)

CheckFromEntry(c) == /\ At(c, "createRelationship", "check")
                     /\ Read(c, entries[input[c].from], "checkTo")

\* The second read, and the test of both rows that follows it at once.
InStory(row, s) == row # Absent /\ row.story = s

\* Mutant: both entries are looked up, their stories are not compared.
CheckToEntryExists(c) ==
  /\ At(c, "createRelationship", "checkTo")
  /\ IF existing[c] # Absent /\ entries[input[c].to] # Absent
     THEN /\ Goto(c, "write")
          /\ UNCHANGED <<tables, minted, locals, unannounced, failures>>
     ELSE Abandon(c)

CheckToEntry(c) ==
  /\ At(c, "createRelationship", "checkTo")
  /\ IF InStory(existing[c], input[c].story) /\ InStory(entries[input[c].to], input[c].story)
     THEN /\ Goto(c, "write")
          /\ UNCHANGED <<tables, minted, locals, unannounced, failures>>
     ELSE Abandon(c)

Check(c) == \/ CheckExisting(c, "updatePenName", penNames[id[c]], "write")
            \/ CheckExisting(c, "updateStory", stories[id[c]], "write")
            \/ CheckExisting(c, "updateEntry", entries[id[c]], "write")
            \/ CheckExisting(c, "setEntryAliases", entries[id[c]], "clear")
            \/ CheckFromEntry(c)
            \/ CheckToEntry(c)

----------------------------------------------------------------------------
(* The writing statements.  A statement whose foreign key fails rejects     *)
(* the operation and changes nothing.                                       *)

Wrote(c, kinds, step) == /\ Changed(kinds)
                         /\ Goto(c, step)
                         /\ UNCHANGED <<minted, input, id, existing, failures>>

CreatePenName(c) ==
  /\ At(c, "createPenName", "write")
  /\ penNames' = [penNames EXCEPT ![id[c]] = [name |-> input[c].name]]
  /\ Wrote(c, {"pen_names"}, "reread")
  /\ UNCHANGED <<stories, entries, aliases, relationships, todo>>

\* The UPDATE of a row that is gone matches nothing, and succeeds.
UpdateMissing(c, row) == /\ row = Absent
                         /\ Wrote(c, {}, "reread")
                         /\ UNCHANGED <<tables, todo>>

\* Mutant: INSERT OR REPLACE in the place of UPDATE.
UpsertPenName(c) ==
  /\ At(c, "updatePenName", "write")
  /\ penNames' = [penNames EXCEPT
                    ![id[c]] = [name |-> Given(input[c].name, existing[c].name)]]
  /\ Wrote(c, {"pen_names"}, "reread")
  /\ UNCHANGED <<stories, entries, aliases, relationships, todo>>

UpdatePenName(c) ==
  /\ At(c, "updatePenName", "write")
  /\ \/ UpdateMissing(c, penNames[id[c]])
     \/ /\ penNames[id[c]] # Absent
        /\ penNames' = [penNames EXCEPT
                          ![id[c]] = [name |-> Given(input[c].name, existing[c].name)]]
        /\ Wrote(c, {"pen_names"}, "reread")
        /\ UNCHANGED <<stories, entries, aliases, relationships, todo>>

\* "return result.changes > 0": nothing deleted, nothing to announce.
DeleteMissing(c, row) == row = Absent /\ Abandon(c)

\* Mutant: no foreign key on pen_name_id.
DeletePenNameUnchecked(c) ==
  /\ At(c, "deletePenName", "write")
  /\ \/ DeleteMissing(c, penNames[id[c]])
     \/ /\ penNames[id[c]] # Absent
        /\ penNames' = [penNames EXCEPT ![id[c]] = Absent]
        /\ Wrote(c, {"pen_names"}, "announce")
        /\ UNCHANGED <<stories, entries, aliases, relationships, todo>>

\* Mutant: ON DELETE CASCADE in the place of RESTRICT.
DeletePenNameCascades(c) ==
  /\ At(c, "deletePenName", "write")
  /\ \/ DeleteMissing(c, penNames[id[c]])
     \/ /\ penNames[id[c]] # Absent
        /\ penNames' = [penNames EXCEPT ![id[c]] = Absent]
        /\ stories' = [s \in StoryId |->
             IF stories[s] # Absent /\ stories[s].penName = id[c] THEN Absent ELSE stories[s]]
        /\ Wrote(c, {"pen_names"}, "announce")
        /\ UNCHANGED <<entries, aliases, relationships, todo>>

\* ON DELETE RESTRICT
DeletePenName(c) ==
  /\ At(c, "deletePenName", "write")
  /\ \/ DeleteMissing(c, penNames[id[c]])
     \/ /\ \E s \in StoryId : stories[s] # Absent /\ stories[s].penName = id[c]
        /\ Abandon(c)
     \/ /\ penNames[id[c]] # Absent
        /\ \A s \in StoryId : stories[s] # Absent => stories[s].penName # id[c]
        /\ penNames' = [penNames EXCEPT ![id[c]] = Absent]
        /\ Wrote(c, {"pen_names"}, "announce")
        /\ UNCHANGED <<stories, entries, aliases, relationships, todo>>

CreateStory(c) ==
  /\ At(c, "createStory", "write")
  /\ IF penNames[input[c].penName] = Absent
     THEN Abandon(c)
     ELSE /\ stories' = [stories EXCEPT
                           ![id[c]] = [penName |-> input[c].penName, title |-> input[c].title]]
          /\ Wrote(c, {"stories"}, "reread")
          /\ UNCHANGED <<penNames, entries, aliases, relationships, todo>>

\* Columns the caller left out are written back from the row read earlier.
UpdateStory(c) ==
  LET penName == Given(input[c].penName, existing[c].penName)
      title == Given(input[c].title, existing[c].title)
  IN /\ At(c, "updateStory", "write")
     /\ \/ UpdateMissing(c, stories[id[c]])
        \/ stories[id[c]] # Absent /\ penNames[penName] = Absent /\ Abandon(c)
        \/ /\ stories[id[c]] # Absent
           /\ penNames[penName] # Absent
           /\ stories' = [stories EXCEPT
                            ![id[c]] = [penName |-> penName, title |-> title]]
           /\ Wrote(c, {"stories"}, "reread")
           /\ UNCHANGED <<penNames, entries, aliases, relationships, todo>>

\* ON DELETE CASCADE of the schema: what goes with a set of entries.
WithoutEntries(gone) ==
  /\ entries' = [e \in EntryId |-> IF e \in gone THEN Absent ELSE entries[e]]
  /\ aliases' = [e \in EntryId |-> IF e \in gone THEN NoAliases ELSE aliases[e]]

DeleteStory(c) ==
  LET gone == {e \in EntryId : InStory(entries[e], id[c])}
  IN /\ At(c, "deleteStory", "write")
     /\ \/ DeleteMissing(c, stories[id[c]])
        \/ /\ stories[id[c]] # Absent
           /\ stories' = [stories EXCEPT ![id[c]] = Absent]
           /\ WithoutEntries(gone)
           /\ relationships' = [r \in RelationshipId |->
                IF \/ InStory(relationships[r], id[c])
                   \/ relationships[r] # Absent /\ relationships[r].from \in gone
                   \/ relationships[r] # Absent /\ relationships[r].to \in gone
                THEN Absent ELSE relationships[r]]
           /\ Wrote(c, {"stories", "entries", "relationships"}, "announce")
           /\ UNCHANGED <<penNames, todo>>

CreateEntry(c) ==
  /\ At(c, "createEntry", "write")
  /\ IF stories[input[c].story] = Absent
     THEN Abandon(c)
     ELSE /\ entries' = [entries EXCEPT
                           ![id[c]] = [story |-> input[c].story, title |-> input[c].title]]
          /\ Wrote(c, {"entries"}, IF input[c].aliases = <<>> THEN "reread" ELSE "clear")
          /\ UNCHANGED <<penNames, stories, aliases, relationships, todo>>

\* The UPDATE does not name story_id: an entry never moves to another story.
UpdateEntry(c) ==
  /\ At(c, "updateEntry", "write")
  /\ \/ UpdateMissing(c, entries[id[c]])
     \/ /\ entries[id[c]] # Absent
        /\ entries' = [entries EXCEPT
                         ![id[c]].title = Given(input[c].title, existing[c].title)]
        /\ Wrote(c, {"entries"}, "reread")
        /\ UNCHANGED <<penNames, stories, aliases, relationships, todo>>

DeleteEntry(c) ==
  /\ At(c, "deleteEntry", "write")
  /\ \/ DeleteMissing(c, entries[id[c]])
     \/ /\ entries[id[c]] # Absent
        /\ WithoutEntries({id[c]})
        /\ relationships' = [r \in RelationshipId |->
             IF relationships[r] # Absent /\ id[c] \in {relationships[r].from, relationships[r].to}
             THEN Absent ELSE relationships[r]]
        /\ Wrote(c, {"entries", "relationships"}, "announce")
        /\ UNCHANGED <<penNames, stories, todo>>

\* Mutant: no foreign keys on codex_relationships.
CreateRelationshipUnchecked(c) ==
  /\ At(c, "createRelationship", "write")
  /\ relationships' = [relationships EXCEPT
       ![id[c]] = [story |-> input[c].story, from |-> input[c].from, to |-> input[c].to]]
  /\ Wrote(c, {"relationships"}, "reread")
  /\ UNCHANGED <<penNames, stories, entries, aliases, todo>>

CreateRelationship(c) ==
  /\ At(c, "createRelationship", "write")
  /\ IF \/ stories[input[c].story] = Absent
        \/ entries[input[c].from] = Absent
        \/ entries[input[c].to] = Absent
     THEN Abandon(c)
     ELSE /\ relationships' = [relationships EXCEPT
               ![id[c]] = [story |-> input[c].story, from |-> input[c].from,
                           to |-> input[c].to]]
          /\ Wrote(c, {"relationships"}, "reread")
          /\ UNCHANGED <<penNames, stories, entries, aliases, todo>>

DeleteRelationship(c) ==
  /\ At(c, "deleteRelationship", "write")
  /\ \/ DeleteMissing(c, relationships[id[c]])
     \/ /\ relationships[id[c]] # Absent
        /\ relationships' = [relationships EXCEPT ![id[c]] = Absent]
        /\ Wrote(c, {"relationships"}, "announce")
        /\ UNCHANGED <<penNames, stories, entries, aliases, todo>>

Write(c) == \/ CreatePenName(c) \/ UpdatePenName(c) \/ DeletePenName(c)
            \/ CreateStory(c) \/ UpdateStory(c) \/ DeleteStory(c)
            \/ CreateEntry(c) \/ UpdateEntry(c) \/ DeleteEntry(c)
            \/ CreateRelationship(c) \/ DeleteRelationship(c)

----------------------------------------------------------------------------
(* _replaceAliases: one DELETE, then one INSERT for each alias. *)

AfterAlias(rest) == IF rest = <<>> THEN "reread" ELSE "insert"

ClearAliases(c) ==
  /\ pc[c] = "clear"
  /\ aliases' = [aliases EXCEPT ![id[c]] = NoAliases]
  /\ todo' = [todo EXCEPT ![c] = input[c].aliases]
  /\ Wrote(c, IF aliases[id[c]] = NoAliases THEN {} ELSE {"entries"},
           AfterAlias(input[c].aliases))
  /\ UNCHANGED <<penNames, stories, entries, relationships>>

\* Mutant: the loop does not step over a blank alias.
InsertAliasStuckOnBlank(c) ==
  LET alias == Head(todo[c])
      rest == Tail(todo[c])
  IN /\ pc[c] = "insert"
     /\ alias # Blank
     /\ \/ entries[id[c]] = Absent /\ Abandon(c)
        \/ /\ entries[id[c]] # Absent
           /\ aliases' = [aliases EXCEPT ![id[c]][alias] = @ + 1]
           /\ todo' = [todo EXCEPT ![c] = rest]
           /\ Wrote(c, {"entries"}, AfterAlias(rest))
           /\ UNCHANGED <<penNames, stories, entries, relationships>>

\* A blank alias is skipped; a missing entry fails the foreign key.
InsertAlias(c) ==
  LET alias == Head(todo[c])
      rest == Tail(todo[c])
  IN /\ pc[c] = "insert"
     /\ \/ /\ alias = Blank
           /\ todo' = [todo EXCEPT ![c] = rest]
           /\ Wrote(c, {}, AfterAlias(rest))
           /\ UNCHANGED tables
        \/ alias # Blank /\ entries[id[c]] = Absent /\ Abandon(c)
        \/ /\ alias # Blank
           /\ entries[id[c]] # Absent
           /\ aliases' = [aliases EXCEPT ![id[c]][alias] = @ + 1]
           /\ todo' = [todo EXCEPT ![c] = rest]
           /\ Wrote(c, {"entries"}, AfterAlias(rest))
           /\ UNCHANGED <<penNames, stories, entries, relationships>>

----------------------------------------------------------------------------
(* The row is read back, and the service fires what changed. *)

RowOf(c) == CASE input[c].op = "updatePenName" -> penNames[id[c]]
              [] input[c].op = "updateStory" -> stories[id[c]]
              [] OTHER -> entries[id[c]]     \* updateEntry, setEntryAliases

\* An update returns undefined for a row that is gone, and the service fires
\* only "if (result)"; a create asserts the row with "!" and always fires.
Reread(c) ==
  /\ pc[c] = "reread"
  /\ IF Creates(input[c].op) \/ RowOf(c) # Absent
     THEN /\ Goto(c, "announce")
          /\ UNCHANGED <<tables, minted, locals, unannounced, failures>>
     ELSE Abandon(c)

Fires(op) ==
  CASE op \in {"createPenName", "updatePenName", "deletePenName"} -> {"pen_names"}
    [] op \in {"createStory", "updateStory"} -> {"stories"}
    [] op = "deleteStory" -> {"stories", "entries", "relationships"}
    [] op = "deleteEntry" -> {"entries", "relationships"}
    [] op \in {"createRelationship", "deleteRelationship"} -> {"relationships"}
    [] OTHER -> {"entries"}     \* createEntry, updateEntry, setEntryAliases

\* Mutant: setEntryAliases fires nothing.
AnnounceNoAliases(c) ==
  /\ pc[c] = "announce"
  /\ unannounced' = unannounced \ (IF input[c].op = "setEntryAliases" THEN {}
                                   ELSE Fires(input[c].op))
  /\ Settle(c)
  /\ UNCHANGED <<tables, minted, failures>>

Announce(c) == /\ pc[c] = "announce"
               /\ unannounced' = unannounced \ Fires(input[c].op)
               /\ Settle(c)
               /\ UNCHANGED <<tables, minted, failures>>

----------------------------------------------------------------------------

\* A statement the engine could not run: "if (err) return reject(err)".
EngineFailure(c) == /\ pc[c] \notin {"idle", "announce"}
                    /\ failures < MaxFailures
                    /\ failures' = failures + 1
                    /\ Settle(c)
                    /\ UNCHANGED <<tables, minted, unannounced>>

\* The process ends between two statements.  The windows read everything
\* anew when it runs again.
Crash == /\ \E c \in Clients : pc[c] # "idle"
         /\ pc' = [c \in Clients |-> "idle"]
         /\ input' = [c \in Clients |-> Absent]
         /\ id' = [c \in Clients |-> Absent]
         /\ existing' = [c \in Clients |-> Absent]
         /\ todo' = [c \in Clients |-> <<>>]
         /\ unannounced' = {}
         /\ UNCHANGED <<tables, minted, failures>>

\* What operation c does next once it is under way.
Continue(c) == \/ Check(c) \/ Write(c) \/ ClearAliases(c) \/ InsertAlias(c)
               \/ Reread(c) \/ Announce(c)

Next == \/ \E c \in Clients : \/ \E request \in Request : Receive(c, request)
                              \/ Continue(c)
                              \/ EngineFailure(c)
        \/ Crash

Spec == Init /\ [][Next]_vars

\* The engine answers every statement it is given.
Fairness == \A c \in Clients : WF_vars(Continue(c))

FairSpec == Spec /\ Fairness

----------------------------------------------------------------------------

TablesOK ==
  /\ penNames \in [PenNameId -> PenName \cup {Absent}]
  /\ stories \in [StoryId -> Story \cup {Absent}]
  /\ entries \in [EntryId -> Entry \cup {Absent}]
  /\ aliases \in [EntryId -> [AliasText -> Nat]]
  /\ relationships \in [RelationshipId -> Relationship \cup {Absent}]

\* Every variable holds what the code can put in it: a row that is written
\* has all its NOT NULL columns, whatever its caller left out.
TypeOK ==
  /\ TablesOK
  /\ minted \subseteq Ids
  /\ pc \in [Clients -> Steps]
  /\ input \in [Clients -> Request \cup {Absent}]
  /\ id \in [Clients -> Ids \cup {Absent}]
  /\ existing \in [Clients -> Row \cup {Absent}]
  /\ todo \in [Clients -> Seq(AliasText)]
  /\ unannounced \subseteq Kinds
  /\ failures \in Nat

StoriesFiled == \A s \in StoryId :
  stories[s] # Absent => penNames[stories[s].penName] # Absent
EntriesPlaced == \A e \in EntryId :
  entries[e] # Absent => stories[entries[e].story] # Absent
AliasesAttached == \A e \in EntryId : aliases[e] # NoAliases => entries[e] # Absent
RelationshipsAnchored == \A r \in RelationshipId : relationships[r] # Absent =>
  /\ stories[relationships[r].story] # Absent
  /\ entries[relationships[r].from] # Absent
  /\ entries[relationships[r].to] # Absent

\* No row points at a row that is gone, whatever the calls of the windows do
\* to each other between their statements: a story has its pen name, an entry
\* its story, an alias its entry, and a relationship its story and both ends.
ReferentialIntegrity ==
  StoriesFiled /\ EntriesPlaced /\ AliasesAttached /\ RelationshipsAnchored

\* A relationship links two entries of its own story.  createRelationship
\* tests this on rows read two statements before it inserts, and no foreign
\* key repeats the test.
RelationshipWithinStory ==
  \A r \in RelationshipId : relationships[r] # Absent =>
    /\ InStory(entries[relationships[r].from], relationships[r].story)
    /\ InStory(entries[relationships[r].to], relationships[r].story)

\* Once no call is in flight, an event has followed every change that was
\* committed, so a window that re-reads on events shows the database; a
\* statement the engine fails half-way through an operation is the exception.
EveryChangeAnnounced ==
  (failures = 0 /\ \A c \in Clients : pc[c] = "idle") => unannounced = {}

\* A row once deleted never comes back: a row appears only by the INSERT of
\* the create call that minted its id, never by an update or an alias insert
\* that was under way when the row was deleted.
RowsAppearOnlyByCreate ==
  [][ \A key \in Ids :
        LET Appears(ids, table) == key \in ids /\ table[key] = Absent /\ table'[key] # Absent
            CreatedBy(op) == \E c \in Clients : At(c, op, "write") /\ id[c] = key
        IN /\ Appears(PenNameId, penNames) => CreatedBy("createPenName")
           /\ Appears(StoryId, stories) => CreatedBy("createStory")
           /\ Appears(EntryId, entries) => CreatedBy("createEntry")
           /\ Appears(RelationshipId, relationships) => CreatedBy("createRelationship") ]_vars

\* A story, with all the writing about it, vanishes only when a window asked
\* for that very story to be deleted: no other delete reaches it.
StoriesVanishOnlyOnRequest ==
  [][ \A s \in StoryId : stories[s] # Absent /\ stories'[s] = Absent =>
        \E c \in Clients : At(c, "deleteStory", "write") /\ id[c] = s ]_vars

\* Once no call is in flight, the aliases of an entry are what one call set
\* them to (or none: a call that failed after its DELETE).  The test of
\* setEntryAliases expects the list it passed, exactly.
AliasesOf(list) == [a \in AliasText |->
  IF a = Blank THEN 0 ELSE Len(SelectSeq(list, LAMBDA b : b = a))]
AliasListsNotMixed ==
  (failures = 0 /\ \A c \in Clients : pc[c] = "idle") =>
    \A e \in EntryId : aliases[e] \in {NoAliases} \cup {AliasesOf(l) : l \in AliasLists}

\* Every call a window makes is answered.
CallsSettle == \A c \in Clients : pc[c] # "idle" ~> pc[c] = "idle"

\* The interleaved statements implement the indivisible operations of the
\* codex store.
Store == INSTANCE CodexStore WITH
  known <- {p \in PenNameId : penNames[p] # Absent},
  owner <- [s \in StoryId |-> IF stories[s] = Absent THEN Absent ELSE stories[s].penName],
  home <- [e \in EntryId |-> IF entries[e] = Absent THEN Absent ELSE entries[e].story],
  link <- relationships

ImplementsStore == Store!Spec
=============================================================================
