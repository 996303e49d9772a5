-------------------------- MODULE MC_CodexDatabase --------------------------
(***************************************************************************)
(* Instances of CodexDatabase for TLC.                                     *)
(***************************************************************************)
EXTENDS CodexDatabase, TLC

CONSTANTS p1, p2, s1, s2, e1, e2, a, b, blank

\* Calls that build, refile and tear down the tree of rows.
TreeOperations == {"createPenName", "deletePenName", "createStory", "updateStory",
                   "deleteStory", "createEntry", "deleteEntry",
                   "createRelationship", "deleteRelationship"}
\* Calls that write the rows under them.
RowOperations == {"createPenName", "updatePenName", "createStory", "deleteStory",
                  "createEntry", "updateEntry", "deleteEntry", "setEntryAliases"}
AllOperations == TreeOperations \cup RowOperations

NoLists == {<<>>}
OneOfEach == {<<>>, <<a>>, <<b, blank>>}
TwoLists == {<<>>, <<a, blank>>}

\* Windows that only set alias lists, on a database that holds one entry, in a
\* process that does not end: every call that stops has returned.
OnlyAliases == {"setEntryAliases"}
OneEntry ==
  /\ penNames = [p \in PenNameId |-> [name |-> CHOOSE t \in Text : TRUE]]
  /\ stories = [s \in StoryId |-> [penName |-> CHOOSE p \in PenNameId : TRUE,
                                   title |-> CHOOSE t \in Text : TRUE]]
  /\ entries = [e \in EntryId |-> [story |-> CHOOSE s \in StoryId : TRUE,
                                   title |-> CHOOSE t \in Text : TRUE]]
  /\ aliases = [e \in EntryId |-> NoAliases]
  /\ relationships = [r \in RelationshipId |-> Absent]
  /\ minted = PenNameId \cup StoryId \cup EntryId
  /\ pc = [c \in Clients |-> "idle"]
  /\ input = [c \in Clients |-> Absent]
  /\ id = [c \in Clients |-> Absent]
  /\ existing = [c \in Clients |-> Absent]
  /\ todo = [c \in Clients |-> <<>>]
  /\ unannounced = {}
  /\ failures = 0
Uninterrupted ==
  OneEntry /\ [][\E c \in Clients : \/ \E request \in Request : Receive(c, request)
                                  \/ Continue(c)]_vars

Symmetry == Permutations(Clients) \cup Permutations(PenNameId)
            \cup Permutations(StoryId) \cup Permutations(EntryId)
==============================================================================
