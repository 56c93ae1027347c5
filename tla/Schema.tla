------------------------------- MODULE Schema -------------------------------
(***************************************************************************)
(* What the starts of the backend promise of the database: one migration   *)
(* after the other is applied, each once, and who serves requests finds    *)
(* them all.                                                               *)
(*                                                                         *)
(* This is the abstract specification.  Startup takes a start apart into   *)
(* its queries and transactions, with processes that start at once, fail   *)
(* and start again, and implements SchemaSpec.                             *)
(***************************************************************************)
EXTENDS Naturals

CONSTANTS
    Migrations,   \* the number of files, in the order of their names
    Processes

VARIABLES
    schema,       \* how often each file has been applied
    serving       \* the processes that listen

Files == 1..Migrations
Complete == [f \in Files |-> 1]

SchemaInit ==
    /\ \E known \in 0..Migrations : schema = [f \in Files |-> IF f <= known THEN 1 ELSE 0]
    /\ serving = {}

\* The next one, whole.
Apply(f) ==
    /\ schema = [g \in Files |-> IF g < f THEN 1 ELSE 0]
    /\ schema' = [g \in Files |-> IF g <= f THEN 1 ELSE 0]
    /\ UNCHANGED serving

Listen(p) ==
    /\ schema = Complete
    /\ serving' = serving \cup {p} /\ UNCHANGED schema

Stop(p) == serving' = serving \ {p} /\ UNCHANGED schema

SchemaNext ==
    \/ \E f \in Files : Apply(f)
    \/ \E p \in Processes : Listen(p) \/ Stop(p)

SchemaSpec == SchemaInit /\ [][SchemaNext]_<<schema, serving>>
=============================================================================
