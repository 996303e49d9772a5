----------------------------- MODULE CodexStore -----------------------------
(***************************************************************************)
(* What the codex database promises its callers, with none of its timing:  *)
(* a pen name owns stories, a story holds codex entries, and a             *)
(* relationship links two entries of one story.  Every operation here is   *)
(* one indivisible step whose guard is evaluated on the state it changes.  *)
(* CodexDatabase, where an operation is a chain of awaited SQL statements  *)
(* interleaved with those of other windows, is shown to implement this.    *)
(***************************************************************************)
CONSTANTS PenNameId, StoryId, EntryId, RelationshipId,
          Absent    \* the value of a row that is not in its table

VARIABLES known,    \* the pen names in the database
          owner,    \* story -> its pen name, or Absent
          home,     \* entry -> its story, or Absent
          link      \* relationship -> its story and its two entries, or Absent

storeVars == <<known, owner, home, link>>

Link == [story : StoryId, from : EntryId, to : EntryId]

Init == /\ known = {}
        /\ owner = [s \in StoryId |-> Absent]
        /\ home = [e \in EntryId |-> Absent]
        /\ link = [r \in RelationshipId |-> Absent]

AddPenName(p) == /\ p \notin known
                 /\ known' = known \cup {p}
                 /\ UNCHANGED <<owner, home, link>>

\* A pen name leaves only when no story is filed under it.
RemovePenName(p) == /\ p \in known
                    /\ \A s \in StoryId : owner[s] # p
                    /\ known' = known \ {p}
                    /\ UNCHANGED <<owner, home, link>>

AddStory(s, p) == /\ owner[s] = Absent
                  /\ p \in known
                  /\ owner' = [owner EXCEPT ![s] = p]
                  /\ UNCHANGED <<known, home, link>>

MoveStory(s, p) == /\ owner[s] # Absent
                   /\ p \in known
                   /\ owner' = [owner EXCEPT ![s] = p]
                   /\ UNCHANGED <<known, home, link>>

\* A story takes its entries and its relationships with it.
RemoveStory(s) ==
  /\ owner[s] # Absent
  /\ owner' = [owner EXCEPT ![s] = Absent]
  /\ home' = [e \in EntryId |-> IF home[e] = s THEN Absent ELSE home[e]]
  /\ link' = [r \in RelationshipId |->
                IF link[r] # Absent /\ link[r].story = s THEN Absent ELSE link[r]]
  /\ UNCHANGED known

AddEntry(e, s) == /\ home[e] = Absent
                  /\ owner[s] # Absent
                  /\ home' = [home EXCEPT ![e] = s]
                  /\ UNCHANGED <<known, owner, link>>

\* An entry takes the relationships that touch it with it.
RemoveEntry(e) ==
  /\ home[e] # Absent
  /\ home' = [home EXCEPT ![e] = Absent]
  /\ link' = [r \in RelationshipId |->
                IF link[r] # Absent /\ e \in {link[r].from, link[r].to}
                THEN Absent ELSE link[r]]
  /\ UNCHANGED <<known, owner>>

\* Both ends belong to the story at the moment the relationship appears.
Relate(r, l) == /\ link[r] = Absent
                /\ home[l.from] = l.story
                /\ home[l.to] = l.story
                /\ link' = [link EXCEPT ![r] = l]
                /\ UNCHANGED <<known, owner, home>>

Unrelate(r) == /\ link[r] # Absent
               /\ link' = [link EXCEPT ![r] = Absent]
               /\ UNCHANGED <<known, owner, home>>

Next == \/ \E p \in PenNameId : AddPenName(p) \/ RemovePenName(p)
        \/ \E s \in StoryId, p \in PenNameId : AddStory(s, p) \/ MoveStory(s, p)
        \/ \E s \in StoryId : RemoveStory(s)
        \/ \E e \in EntryId, s \in StoryId : AddEntry(e, s)
        \/ \E e \in EntryId : RemoveEntry(e)
        \/ \E r \in RelationshipId, l \in Link : Relate(r, l)
        \/ \E r \in RelationshipId : Unrelate(r)

Spec == Init /\ [][Next]_storeVars
=============================================================================
