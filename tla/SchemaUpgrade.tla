---------------------------- MODULE SchemaUpgrade ----------------------------
(***************************************************************************)
(* What runMigrations promises of a database file: whatever is launched,   *)
(* and whatever fails, a build finds the schema as some earlier build left *)
(* it, and moves it to its own newest version in one indivisible step.     *)
(***************************************************************************)
EXTENDS Naturals

CONSTANT Newest    \* the newest migration of a build, for each build there is

VARIABLES schema,  \* the migrations whose tables are in the file
          build    \* the newest migration of the build that is running

upgradeVars == <<schema, build>>

Init == schema = {} /\ build \in Newest

Upgrade == /\ ~(1..build \subseteq schema)
           /\ schema' = 1..build
           /\ UNCHANGED build

\* Another build is launched, newer or older.
Launch == build' \in Newest /\ UNCHANGED schema

Next == Upgrade \/ Launch

Spec == Init /\ [][Next]_upgradeVars
=============================================================================
