-------------------------- MODULE CodexEventsProofs --------------------------
(***************************************************************************)
(* What the events of the codex database promise, for every number of      *)
(* windows and of ids: once no call is in flight, an event has followed    *)
(* every committed change.                                                 *)
(*                                                                         *)
(* EveryChangeAnnounced is silent while a call runs, so it is not          *)
(* inductive.  Owed says whose event each change waits for.  A call that   *)
(* finds its row gone returns without an event; then the call that deleted *)
(* the row owes an event of the same kind, or has fired it already.        *)
(***************************************************************************)
EXTENDS CodexDatabaseProofs

Updates(op) == op \in {"updatePenName", "updateStory", "updateEntry", "setEntryAliases"}

\* Call c has still to fire an event of this kind, and will unless the row it
\* works on goes away first.
Owes(c, kind) ==
  /\ kind \in Fires(input[c].op)
  /\ \/ pc[c] = "announce"
     \/ pc[c] = "reread" /\ Creates(input[c].op)
     \/ pc[c] = "reread" /\ Updates(input[c].op) /\ RowOf(c) # Absent
     \/ pc[c] \in {"clear", "insert"} /\ entries[id[c]] # Absent

\* Every change no event has followed is one that some call still announces.
Owed == failures = 0 => \A kind \in unannounced : \E c \in Clients : Owes(c, kind)

\* Rows go away only from the tables a statement names as changed.
Survive(kinds) ==
  /\ "pen_names" \in kinds \/ \A p \in PenNameId : penNames[p] # Absent => penNames'[p] # Absent
  /\ "stories" \in kinds \/ \A s \in StoryId : stories[s] # Absent => stories'[s] # Absent
  /\ "entries" \in kinds \/ \A e \in EntryId : entries[e] # Absent => entries'[e] # Absent

----------------------------------------------------------------------------
(* The two tables of the service, case by case. *)

LEMMA FiresOf ==
  /\ \A op \in {"createPenName", "updatePenName", "deletePenName"} : Fires(op) = {"pen_names"}
  /\ \A op \in {"createStory", "updateStory"} : Fires(op) = {"stories"}
  /\ Fires("deleteStory") = {"stories", "entries", "relationships"}
  /\ Fires("deleteEntry") = {"entries", "relationships"}
  /\ \A op \in {"createRelationship", "deleteRelationship"} : Fires(op) = {"relationships"}
  /\ \A op \in {"createEntry", "updateEntry", "setEntryAliases"} : Fires(op) = {"entries"}
<1>1. \A op \in {"createPenName", "updatePenName", "deletePenName"} : Fires(op) = {"pen_names"}
  BY ZenonT(30) DEF Fires
<1>2. \A op \in {"createStory", "updateStory"} : Fires(op) = {"stories"}
  BY ZenonT(30) DEF Fires
<1>3. Fires("deleteStory") = {"stories", "entries", "relationships"}
  BY ZenonT(30) DEF Fires
<1>4. Fires("deleteEntry") = {"entries", "relationships"}
  BY ZenonT(30) DEF Fires
<1>5. \A op \in {"createRelationship", "deleteRelationship"} : Fires(op) = {"relationships"}
  BY ZenonT(30) DEF Fires
<1>6. \A op \in {"createEntry", "updateEntry", "setEntryAliases"} : Fires(op) = {"entries"}
  BY ZenonT(30) DEF Fires
<1> QED BY <1>1, <1>2, <1>3, <1>4, <1>5, <1>6

LEMMA RowUpdated ==
  ASSUME NEW c \in Clients
  PROVE  /\ input[c].op = "updatePenName" => RowOf(c) = penNames[id[c]]
         /\ input[c].op = "updateStory" => RowOf(c) = stories[id[c]]
         /\ input[c].op \in {"updateEntry", "setEntryAliases"} => RowOf(c) = entries[id[c]]
         /\ input'[c].op = "updatePenName" => RowOf(c)' = penNames'[id'[c]]
         /\ input'[c].op = "updateStory" => RowOf(c)' = stories'[id'[c]]
         /\ input'[c].op \in {"updateEntry", "setEntryAliases"} => RowOf(c)' = entries'[id'[c]]
<1>1. input[c].op = "updatePenName" => RowOf(c) = penNames[id[c]]
  BY ZenonT(30) DEF RowOf
<1>2. input[c].op = "updateStory" => RowOf(c) = stories[id[c]]
  BY ZenonT(30) DEF RowOf
<1>3. input[c].op \in {"updateEntry", "setEntryAliases"} => RowOf(c) = entries[id[c]]
  BY ZenonT(30) DEF RowOf
<1>4. input'[c].op = "updatePenName" => RowOf(c)' = penNames'[id'[c]]
  BY ZenonT(30) DEF RowOf
<1>5. input'[c].op = "updateStory" => RowOf(c)' = stories'[id'[c]]
  BY ZenonT(30) DEF RowOf
<1>6. input'[c].op \in {"updateEntry", "setEntryAliases"} => RowOf(c)' = entries'[id'[c]]
  BY ZenonT(30) DEF RowOf
<1> QED BY <1>1, <1>2, <1>3, <1>4, <1>5, <1>6

\* A call that is not served keeps what it owes, unless the step changes the
\* table its row is in.
LEMMA OthersOwe ==
  ASSUME Types, NEW d \in Clients, NEW kind, Owes(d, kind),
         pc'[d] = pc[d], input'[d] = input[d], id'[d] = id[d],
         NEW kinds, kind \notin kinds, Survive(kinds)
  PROVE  Owes(d, kind)'
  <1>1. pc[d] # "idle" /\ id[d] \in KeysOf(input[d].op)
    BY DEF Owes, Types, LocalsOK
  <1>2. CASE pc[d] = "announce" \/ (pc[d] = "reread" /\ Creates(input[d].op))
    BY <1>2 DEF Owes
  <1>3. ASSUME pc[d] = "reread", Updates(input[d].op), RowOf(d) # Absent
        PROVE  Owes(d, kind)'
    <2>1. CASE input[d].op = "updatePenName"
      BY <1>1, <1>3, <2>1, FiresOf, RowUpdated DEF Owes, Updates, Survive, KeysOf
    <2>2. CASE input[d].op = "updateStory"
      BY <1>1, <1>3, <2>2, FiresOf, RowUpdated DEF Owes, Updates, Survive, KeysOf
    <2>3. CASE input[d].op \in {"updateEntry", "setEntryAliases"}
      BY <1>1, <1>3, <2>3, FiresOf, RowUpdated DEF Owes, Updates, Survive, KeysOf
    <2> QED BY <1>3, <2>1, <2>2, <2>3 DEF Updates
  <1>4. CASE pc[d] \in {"clear", "insert"} /\ entries[id[d]] # Absent
    <2>1. input[d].op \in {"createEntry", "setEntryAliases"}
      BY <1>4 DEF Types, LocalsOK
    <2> QED BY <1>1, <1>4, <2>1, FiresOf DEF Owes, Survive, KeysOf
  <1> QED BY <1>2, <1>3, <1>4 DEF Owes

\* A statement keeps Owed if its call owes what the statement changed, and
\* keeps what it owed before.
LEMMA WroteOwed ==
  ASSUME Types, Owed, NEW c \in Clients, NEW kinds, NEW step, Wrote(c, kinds, step),
         Survive(kinds),
         \A kind : kind \in kinds \/ Owes(c, kind) => Owes(c, kind)'
  PROVE  Owed'
  <1> SUFFICES ASSUME failures = 0, NEW kind \in unannounced'
               PROVE  \E d \in Clients : Owes(d, kind)'
    BY DEF Owed, Wrote
  <1>1. CASE kind \in kinds
    BY <1>1
  <1>2. ASSUME kind \notin kinds
        PROVE  \E d \in Clients : Owes(d, kind)'
    <2>1. PICK d \in Clients : Owes(d, kind)
      BY <1>2 DEF Owed, Wrote, Changed
    <2>2. CASE d = c
      BY <2>1, <2>2
    <2>3. ASSUME d # c
          PROVE  Owes(d, kind)'
      <3>1. pc'[d] = pc[d] /\ input'[d] = input[d] /\ id'[d] = id[d]
        BY <2>3 DEF Wrote, Goto, Types, TypeOK
      <3> QED BY <1>2, <2>1, <3>1, OthersOwe
    <2> QED BY <2>2, <2>3
  <1> QED BY <1>1, <1>2

\* A call that owes nothing may end, or go on without writing.
LEMMA QuietOwed ==
  ASSUME Types, Owed, NEW c \in Clients, UNCHANGED tables,
         failures' = 0 => failures = 0,
         \A d \in Clients \ {c} : pc'[d] = pc[d] /\ input'[d] = input[d] /\ id'[d] = id[d],
         \A kind \in unannounced' : kind \in unannounced /\ (Owes(c, kind) => Owes(c, kind)')
  PROVE  Owed'
  <1> SUFFICES ASSUME failures = 0, NEW kind \in unannounced'
               PROVE  \E d \in Clients : Owes(d, kind)'
    BY DEF Owed
  <1>1. PICK d \in Clients : Owes(d, kind)
    BY DEF Owed
  <1>2. Survive({})
    BY DEF Survive, tables
  <1>3. CASE d = c
    BY <1>1, <1>3
  <1>4. CASE d # c
    BY <1>1, <1>2, <1>4, OthersOwe
  <1> QED BY <1>3, <1>4

LEMMA AbandonOwed ==
  ASSUME Types, Owed, NEW c \in Clients, Abandon(c), \A kind : ~Owes(c, kind)
  PROVE  Owed'
  BY QuietOwed DEF Abandon, Settle, Goto, Types, TypeOK

----------------------------------------------------------------------------

LEMMA WriteOwed ==
  ASSUME Types, Owed, NEW c \in Clients, Write(c)
  PROVE  Owed'
  <1>1. /\ pc[c] = "write" /\ input[c] \in Request /\ id[c] \in KeysOf(input[c].op)
        /\ \A kind : ~Owes(c, kind)
    BY AtWrite DEF Owes
  <1>2. CASE Abandon(c)
    BY <1>1, <1>2, AbandonOwed
  <1> SUFFICES ASSUME ~Abandon(c) PROVE Owed'
    BY <1>2
  <1>3. UNCHANGED <<input, id>>
    BY WriteNext DEF Wrote
  <1>4. ASSUME NEW row, UpdateMissing(c, row)
        PROVE  Owed'
    BY <1>1, <1>4, WroteOwed DEF UpdateMissing, Survive, tables
  <1>5. ASSUME NEW kinds, Wrote(c, kinds, "announce"), kinds \subseteq Fires(input[c].op),
               Survive(kinds)
        PROVE  Owed'
    <2>1. pc'[c] = "announce"
      BY <1>5 DEF Wrote, Goto, Types, TypeOK
    <2>2. \A kind : kind \in kinds => Owes(c, kind)'
      BY <1>3, <1>5, <2>1 DEF Owes
    <2> QED BY <1>1, <1>5, <2>2, WroteOwed
  <1>6. ASSUME NEW kinds, Wrote(c, kinds, "reread"), kinds \subseteq Fires(input[c].op),
               Survive(kinds),
               Creates(input[c].op) \/ (Updates(input[c].op) /\ RowOf(c)' # Absent)
        PROVE  Owed'
    <2>1. pc'[c] = "reread"
      BY <1>6 DEF Wrote, Goto, Types, TypeOK
    <2>2. \A kind : kind \in kinds => Owes(c, kind)'
      BY <1>3, <1>6, <2>1 DEF Owes
    <2> QED BY <1>1, <1>6, <2>2, WroteOwed
  <1>7. CASE CreatePenName(c)
    BY <1>6, <1>7, FiresOf DEF CreatePenName, At, Creates, Survive
  <1>8. CASE UpdatePenName(c)
    <2>1. ASSUME ~UpdateMissing(c, penNames[id[c]])
          PROVE  Owed'
      <3>1. /\ penNames' = [penNames EXCEPT ![id[c]] = PenNameRow(c)]
            /\ Wrote(c, {"pen_names"}, "reread") /\ input[c].op = "updatePenName"
            /\ UNCHANGED <<stories, entries>>
        BY <1>8, <2>1 DEF UpdatePenName, PenNameRow, At
      <3>2. penNames'[id[c]] # Absent
        BY <1>1, <1>8, <3>1, UpdatedRows, RowsAreNotAbsent DEF KeysOf, Types, TypeOK, TablesOK
      <3> QED BY <1>3, <1>6, <3>1, <3>2, FiresOf, RowUpdated DEF Updates, Survive
    <2> QED BY <1>4, <2>1
  <1>9. CASE DeletePenName(c)
    BY <1>5, <1>9, FiresOf DEF DeletePenName, DeleteMissing, At, Survive
  <1>10. CASE CreateStory(c)
    BY <1>6, <1>10, FiresOf DEF CreateStory, At, Creates, Survive
  <1>11. CASE UpdateStory(c)
    <2>1. ASSUME ~UpdateMissing(c, stories[id[c]])
          PROVE  Owed'
      <3>1. /\ stories' = [stories EXCEPT ![id[c]] = StoryRow(c)]
            /\ Wrote(c, {"stories"}, "reread") /\ input[c].op = "updateStory"
            /\ UNCHANGED <<penNames, entries>>
        BY <1>11, <2>1 DEF UpdateStory, StoryRow, At
      <3>2. stories'[id[c]] # Absent
        BY <1>1, <1>11, <3>1, UpdatedRows, RowsAreNotAbsent DEF KeysOf, Types, TypeOK, TablesOK
      <3> QED BY <1>3, <1>6, <3>1, <3>2, FiresOf, RowUpdated DEF Updates, Survive
    <2> QED BY <1>4, <2>1
  <1>12. CASE DeleteStory(c)
    <2>1. /\ Wrote(c, {"stories", "entries", "relationships"}, "announce")
          /\ input[c].op = "deleteStory" /\ UNCHANGED penNames
      BY <1>12 DEF DeleteStory, DeleteMissing, At
    <2> QED BY <1>5, <2>1, FiresOf DEF Survive
  <1>13. CASE CreateEntry(c)
    <2>1. /\ Wrote(c, {"entries"}, IF input[c].aliases = <<>> THEN "reread" ELSE "clear")
          /\ entries' = [entries EXCEPT ![id[c]] = NewEntry(c)]
          /\ input[c].op = "createEntry" /\ UNCHANGED <<penNames, stories>>
      BY <1>13 DEF CreateEntry, NewEntry, At
    <2>2. CASE input[c].aliases = <<>>
      BY <1>6, <2>1, <2>2, FiresOf DEF Creates, Survive
    <2>3. CASE input[c].aliases # <<>>
      <3>1. entries'[id[c]] # Absent
        BY <1>1, <1>13, <2>1, NewRows, RowsAreNotAbsent DEF KeysOf, Types, TypeOK, TablesOK
      <3>2. pc'[c] = "clear" /\ Wrote(c, {"entries"}, "clear")
        BY <2>1, <2>3 DEF Wrote, Goto, Types, TypeOK
      <3>3. Owes(c, "entries")'
        BY <1>3, <2>1, <3>1, <3>2, FiresOf DEF Owes
      <3> QED BY <1>1, <2>1, <3>2, <3>3, WroteOwed DEF Survive
    <2> QED BY <2>2, <2>3
  <1>14. CASE UpdateEntry(c)
    <2>1. ASSUME ~UpdateMissing(c, entries[id[c]])
          PROVE  Owed'
      <3>1. /\ entries' = [entries EXCEPT ![id[c]] = EntryRow(c)] /\ entries[id[c]] # Absent
            /\ Wrote(c, {"entries"}, "reread") /\ input[c].op = "updateEntry"
            /\ UNCHANGED <<penNames, stories>>
        BY <1>14, <2>1 DEF UpdateEntry, EntryRow, At
      <3>2. entries'[id[c]] # Absent
        BY <1>1, <1>14, <3>1, UpdatedRows, RowsAreNotAbsent DEF KeysOf, Types, TypeOK, TablesOK
      <3> QED BY <1>3, <1>6, <3>1, <3>2, FiresOf, RowUpdated DEF Updates, Survive
    <2> QED BY <1>4, <2>1
  <1>15. CASE DeleteEntry(c)
    <2>1. /\ Wrote(c, {"entries", "relationships"}, "announce")
          /\ input[c].op = "deleteEntry" /\ UNCHANGED <<penNames, stories>>
      BY <1>15 DEF DeleteEntry, DeleteMissing, At
    <2> QED BY <1>5, <2>1, FiresOf DEF Survive
  <1>16. CASE CreateRelationship(c)
    BY <1>6, <1>16, FiresOf DEF CreateRelationship, At, Creates, Survive
  <1>17. CASE DeleteRelationship(c)
    BY <1>5, <1>17, FiresOf DEF DeleteRelationship, DeleteMissing, At, Survive
  <1> QED BY <1>7, <1>8, <1>9, <1>10, <1>11, <1>12, <1>13, <1>14, <1>15, <1>16, <1>17 DEF Write

\* Clearing aliases is a change only if there were some, and then the entry
\* is there; an insert that finds no entry ends a call that owes nothing.
LEMMA AliasOwed ==
  ASSUME Types, AliasesAttached, Owed, NEW c \in Clients, ClearAliases(c) \/ InsertAlias(c)
  PROVE  Owed'
  <1>1. /\ pc[c] \in {"clear", "insert"} /\ input[c].op \in {"createEntry", "setEntryAliases"}
        /\ id[c] \in EntryId /\ Fires(input[c].op) = {"entries"}
    BY FiresOf DEF ClearAliases, InsertAlias, Types, LocalsOK, KeysOf
  <1>2. ASSUME NEW kinds \in SUBSET {"entries"}, NEW rest, Wrote(c, kinds, AfterAlias(rest)),
               UNCHANGED <<penNames, stories, entries>>,
               kinds # {} => entries[id[c]] # Absent
        PROVE  Owed'
    <2>1. pc'[c] \in {"insert", "reread"} /\ UNCHANGED <<input, id>>
      BY <1>2 DEF Wrote, Goto, AfterAlias, Types, TypeOK
    <2>2. entries[id[c]] # Absent => Owes(c, "entries")'
      BY <1>1, <1>2, <2>1, FiresOf, RowUpdated DEF Owes, Updates, Creates
    <2>3. ASSUME NEW kind, kind \in kinds \/ Owes(c, kind)
          PROVE  Owes(c, kind)'
      <3>1. kind = "entries" /\ entries[id[c]] # Absent
        BY <1>1, <1>2, <2>3 DEF Owes
      <3> QED BY <2>2, <3>1
    <2>4. Survive(kinds)
      BY <1>2 DEF Survive
    <2> QED BY <1>2, <2>3, <2>4, WroteOwed
  <1>3. CASE ClearAliases(c)
    <2> DEFINE kinds == IF aliases[id[c]] = NoAliases THEN {} ELSE {"entries"}
    <2>1. /\ Wrote(c, kinds, AfterAlias(input[c].aliases))
          /\ UNCHANGED <<penNames, stories, entries>>
      BY <1>3 DEF ClearAliases
    <2>2. kinds # {} => entries[id[c]] # Absent
      BY <1>1 DEF AliasesAttached
    <2>3. kinds \in SUBSET {"entries"}
      OBVIOUS
    <2> HIDE DEF kinds
    <2> QED BY <1>2, <2>1, <2>2, <2>3
  <1>4. CASE InsertAlias(c)
    <2>1. CASE Abandon(c) /\ entries[id[c]] = Absent
      <3>1. \A kind : ~Owes(c, kind)
        BY <1>4, <2>1 DEF InsertAlias, Owes
      <3> QED BY <2>1, <3>1, AbandonOwed
    <2>2. CASE Wrote(c, {}, AfterAlias(Tail(todo[c]))) /\ UNCHANGED tables
      BY <1>2, <2>2 DEF tables
    <2>3. CASE /\ Wrote(c, {"entries"}, AfterAlias(Tail(todo[c]))) /\ entries[id[c]] # Absent
               /\ UNCHANGED <<penNames, stories, entries>>
      BY <1>2, <2>3
    <2> QED BY <1>4, <2>1, <2>2, <2>3 DEF InsertAlias
  <1> QED BY <1>3, <1>4

LEMMA OwedStep ==
  ASSUME Types, AliasesAttached, Owed, [Next]_vars
  PROVE  Owed'
  <1>1. ASSUME NEW c \in Clients, NEW request \in Request, Receive(c, request)
        PROVE  Owed'
    <2>1. /\ \A d \in Clients \ {c} : pc'[d] = pc[d] /\ input'[d] = input[d] /\ id'[d] = id[d]
          /\ UNCHANGED <<tables, unannounced, failures>>
      BY <1>1 DEF Receive, Goto, Types, TypeOK
    <2>2. \A kind : ~Owes(c, kind)
      BY <1>1 DEF Receive, Owes
    <2> QED BY <2>1, <2>2, QuietOwed
  <1>2. ASSUME NEW c \in Clients, Check(c)
        PROVE  Owed'
    <2>1. \A kind : ~Owes(c, kind)
      BY <1>2 DEF Check, CheckExisting, CheckFromEntry, CheckToEntry, At, Owes
    <2>2. CASE Abandon(c)
      BY <2>1, <2>2, AbandonOwed
    <2>3. CASE ~Abandon(c)
      <3>1. /\ UNCHANGED <<tables, input, id, unannounced, failures>>
            /\ \E step \in Steps : Goto(c, step)
        BY <1>2, <2>3
        DEF Check, CheckExisting, CheckFromEntry, CheckToEntry, Read, locals, Steps
      <3>2. \A d \in Clients \ {c} : pc'[d] = pc[d]
        BY <3>1 DEF Goto, Types, TypeOK
      <3> QED BY <2>1, <3>1, <3>2, QuietOwed
    <2> QED BY <2>2, <2>3
  <1>3. ASSUME NEW c \in Clients, Write(c) \/ ClearAliases(c) \/ InsertAlias(c)
        PROVE  Owed'
    BY <1>3, WriteOwed, AliasOwed
  <1>4. ASSUME NEW c \in Clients, Reread(c)
        PROVE  Owed'
    <2>1. CASE Creates(input[c].op) \/ RowOf(c) # Absent
      <3>1. /\ pc' = [pc EXCEPT ![c] = "announce"]
            /\ UNCHANGED <<tables, input, id, unannounced, failures>>
        BY <1>4, <2>1 DEF Reread, Goto, locals
      <3>2. pc'[c] = "announce" /\ \A d \in Clients \ {c} : pc'[d] = pc[d]
        BY <3>1 DEF Types, TypeOK
      <3>3. \A kind : Owes(c, kind) => Owes(c, kind)'
        BY <3>1, <3>2 DEF Owes
      <3> QED BY <3>1, <3>2, <3>3, QuietOwed
    <2>2. CASE ~(Creates(input[c].op) \/ RowOf(c) # Absent)
      <3>1. Abandon(c)
        BY <1>4, <2>2 DEF Reread
      <3>2. \A kind : ~Owes(c, kind)
        BY <1>4, <2>2 DEF Reread, Owes
      <3> QED BY <3>1, <3>2, AbandonOwed
    <2> QED BY <2>1, <2>2
  <1>5. ASSUME NEW c \in Clients, Announce(c)
        PROVE  Owed'
    <2>1. /\ unannounced' = unannounced \ Fires(input[c].op)
          /\ UNCHANGED <<tables, failures>>
          /\ \A d \in Clients \ {c} : pc'[d] = pc[d] /\ input'[d] = input[d] /\ id'[d] = id[d]
      BY <1>5 DEF Announce, Settle, Goto, Types, TypeOK
    <2>2. \A kind \in unannounced' : kind \in unannounced /\ ~Owes(c, kind)
      BY <2>1 DEF Owes
    <2> QED BY <2>1, <2>2, QuietOwed
  <1>6. ASSUME NEW c \in Clients, EngineFailure(c)
        PROVE  Owed'
    BY <1>6 DEF EngineFailure, Owed, Types, TypeOK
  <1>7. CASE Crash
    BY <1>7 DEF Crash, Owed
  <1>8. CASE UNCHANGED vars
    <2>1. UNCHANGED <<tables, pc, input, id, unannounced, failures>>
      BY <1>8 DEF vars, locals
    <2>2. UNCHANGED <<penNames, stories, entries>>
      BY <2>1 DEF tables
    <2>3. \A c \in Clients : RowOf(c)' = RowOf(c)
      BY <2>1, <2>2, ZenonT(30) DEF RowOf
    <2>4. \A c \in Clients : \A kind : Owes(c, kind) => Owes(c, kind)'
      BY <2>1, <2>2, <2>3 DEF Owes
    <2> QED BY <2>1, <2>4 DEF Owed
  <1> QED BY <1>1, <1>2, <1>3, <1>4, <1>5, <1>6, <1>7, <1>8 DEF Next, Continue

\* Once no call is in flight, an event has followed every committed change
\* (as long as the engine failed no statement), however the calls of any
\* number of windows deleted each other's rows on the way.
THEOREM CodexChangesAnnounced == Spec => []EveryChangeAnnounced
  <1>1. Init => CodexInv /\ Owed
    BY CodexInvInit DEF Init, Owed
  <1>2. (CodexInv /\ Owed) /\ [Next]_vars => (CodexInv /\ Owed)'
    BY CodexInvStep, OwedStep DEF CodexInv, ReferentialIntegrity
  <1>3. Owed => EveryChangeAnnounced
    BY DEF Owed, Owes, EveryChangeAnnounced
  <1> QED BY <1>1, <1>2, <1>3, PTL DEF Spec
==============================================================================
