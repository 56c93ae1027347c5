------------------------------- MODULE Catalog -------------------------------
(***************************************************************************)
(* The lists a company picks from: its resources, the units they are       *)
(* measured in, and the types of chantiers, which all companies share.  A  *)
(* request looks first and writes after, without a transaction; the        *)
(* database has the last word: an active code, a unit's label and a type's *)
(* label are unique, a chantier's type exists.                             *)
(***************************************************************************)
EXTENDS Naturals, FiniteSets

CONSTANTS
    Requests,    \* as many as run at the same time
    Resources,
    Codes,
    Labels,      \* of units
    Lower(_),    \* ... as LOWER has them
    Types,       \* types of chantiers, each its label
    Projects,
    None

VARIABLES
    resources,   \* the code of each and whether it is active, or None
    units,       \* the row of each label: "none", "active" or "archived"
    types,       \* project_types
    typeOf,      \* projects.project_type_id
    jobs,        \* what each request has found and has yet to write
    outcome,     \* how each request last ended
    crossed      \* for the properties: tables two requests worked on at once

vars == <<resources, units, types, typeOf, jobs, outcome, crossed>>

Rows == [code : Codes, active : BOOLEAN]
Writes == [on : {"resources"}, id : Resources, row : Rows, keeps : {"none", "code", "active"}]
     \cup [on : {"units"}, label : Labels, found : Labels \cup {None}, active : BOOLEAN]
     \cup [on : {"types"}, type : Types, do : {"insert", "clear", "delete"}]
Tables == {"resources", "units", "types"}

TypeOK ==
    /\ resources \in [Resources -> Rows \cup {None}]
    /\ units \in [Labels -> {"none", "active", "archived"}]
    /\ types \subseteq Types /\ typeOf \in [Projects -> types \cup {None}]
    /\ jobs \in [Requests -> Writes \cup {None}]
    /\ outcome \in [Requests -> {"none", "done", "conflict", "error"}]
    /\ crossed \subseteq Tables

Init ==
    /\ resources = [r \in Resources |-> None]
    /\ units = [l \in Labels |-> "none"]
    /\ types = {} /\ typeOf = [p \in Projects |-> None]
    /\ jobs = [q \in Requests |-> None] /\ outcome = [q \in Requests |-> "none"]
    /\ crossed = {}

On(table) == {q \in Requests : jobs[q] # None /\ jobs[q].on = table}

\* A request has looked and goes on to write, or is refused.
Finds(q, job) ==
    /\ jobs[q] = None
    /\ jobs' = [jobs EXCEPT ![q] = job]
    /\ outcome' = [outcome EXCEPT ![q] = "none"]
    /\ crossed' = IF On(job.on) = {} THEN crossed ELSE crossed \cup {job.on}
    /\ UNCHANGED <<resources, units, types, typeOf>>

Conflict(q) ==
    /\ jobs[q] = None
    /\ outcome' = [outcome EXCEPT ![q] = "conflict"]
    /\ UNCHANGED <<resources, units, types, typeOf, jobs, crossed>>

Ends(q, how) ==
    /\ jobs' = [jobs EXCEPT ![q] = None]
    /\ outcome' = [outcome EXCEPT ![q] = how]
    /\ UNCHANGED crossed

-----------------------------------------------------------------------------
(* resource.service: add, update, archive, unarchive. *)

\* getResourceByCodeFromDB: active ones only.
Occupied(code) == \E r \in Resources : resources[r] = [code |-> code, active |-> TRUE]

Row(q, r, row, keeps) == Finds(q, [on |-> "resources", id |-> r, row |-> row, keeps |-> keeps])

\* A parent is looked for first: resources have none here, and none is ever deleted.
AddResource(q, r, code) ==
    /\ resources[r] = None /\ \A other \in On("resources") : jobs[other].id # r
    /\ IF Occupied(code) THEN Conflict(q) ELSE Row(q, r, [code |-> code, active |-> TRUE], "none")

RenameResource(q, r, code) ==
    /\ resources[r] # None
    /\ IF code # resources[r].code /\ Occupied(code)
         THEN Conflict(q)
         ELSE Row(q, r, [resources[r] EXCEPT !.code = code], "active")

ArchiveResource(q, r) ==
    /\ resources[r] # None /\ Row(q, r, [resources[r] EXCEPT !.active = FALSE], "code")

\* A slip: an archived code is taken to be free still.
RestoreResource(q, r) ==
    /\ resources[r] # None /\ Row(q, r, [resources[r] EXCEPT !.active = TRUE], "code")

UnarchiveResource(q, r) ==
    /\ resources[r] # None
    /\ IF Occupied(resources[r].code)
         THEN Conflict(q)
         ELSE Row(q, r, [resources[r] EXCEPT !.active = TRUE], "code")

\* An update writes its own columns and leaves the row's others as they are.
Merged(job) ==
    LET now == resources[job.id]
    IN CASE job.keeps = "code"   -> [job.row EXCEPT !.code = now.code]
         [] job.keeps = "active" -> [job.row EXCEPT !.active = now.active]
         [] job.keeps = "none"   -> job.row

\* resources_company_id_code_active_key refuses a second one.
WriteResource(q) ==
    /\ q \in On("resources")
    /\ LET id == jobs[q].id
           row == Merged(jobs[q])
       IN IF row.active /\ \E r \in Resources \ {id} : resources[r] = row
            THEN Ends(q, "error") /\ UNCHANGED resources
            ELSE Ends(q, "done") /\ resources' = [resources EXCEPT ![id] = row]
    /\ UNCHANGED <<units, types, typeOf>>

-----------------------------------------------------------------------------
(* resource_unit.service: get or create, archive. *)

Matches(label) == {l \in Labels : units[l] # "none" /\ Lower(l) = Lower(label)}

Unit(q, label, found) ==
    Finds(q, [on |-> "units", label |-> label, found |-> found,
              active |-> found # None /\ units[found] = "active"])

\* Of several rows that match, any.
AddUnit(q, label) ==
    \/ Matches(label) = {} /\ Unit(q, label, None)
    \/ \E found \in Matches(label) : Unit(q, label, found)

WriteUnit(q) ==
    /\ q \in On("units")
    /\ LET job == jobs[q]
       IN CASE job.found = None /\ units[job.label] # "none" -> Ends(q, "error") /\ UNCHANGED units
            [] job.found = None /\ units[job.label] = "none" ->
                  Ends(q, "done") /\ units' = [units EXCEPT ![job.label] = "active"]
            [] job.found # None /\ job.active -> Ends(q, "done") /\ UNCHANGED units
            [] OTHER -> Ends(q, "done") /\ units' = [units EXCEPT ![job.found] = "active"]
    /\ UNCHANGED <<resources, types, typeOf>>

\* One statement.
ArchiveUnit(label) ==
    /\ units[label] # "none" /\ units' = [units EXCEPT ![label] = "archived"]
    /\ crossed' = IF On("units") = {} THEN crossed ELSE crossed \cup {"units"}
    /\ UNCHANGED <<resources, types, typeOf, jobs, outcome>>

-----------------------------------------------------------------------------
(* project_type.service: add, delete; a chantier is given a type. *)

AddType(q, t) ==
    IF t \in types THEN Conflict(q) ELSE Finds(q, [on |-> "types", type |-> t, do |-> "insert"])

\* deleteProjectTypeServ: the type is there; first the chantiers lose it.
DeleteType(q, t) == t \in types /\ Finds(q, [on |-> "types", type |-> t, do |-> "clear"])

ClearType(q) ==
    /\ q \in On("types") /\ jobs[q].do = "clear"
    /\ typeOf' = [p \in Projects |-> IF typeOf[p] = jobs[q].type THEN None ELSE typeOf[p]]
    /\ jobs' = [jobs EXCEPT ![q].do = "delete"]
    /\ UNCHANGED <<resources, units, types, outcome, crossed>>

\* The label is a key, and what projects refer to stays.
WriteType(q) ==
    /\ q \in On("types") /\ jobs[q].do # "clear"
    /\ LET t == jobs[q].type
           refused == IF jobs[q].do = "insert" THEN t \in types ELSE \E p \in Projects : typeOf[p] = t
       IN IF refused
            THEN Ends(q, "error") /\ UNCHANGED types
            ELSE Ends(q, "done") /\ types' = IF jobs[q].do = "insert" THEN types \cup {t} ELSE types \ {t}
    /\ UNCHANGED <<resources, units, typeOf>>

GiveType(p, t) ==
    /\ t \in types /\ typeOf' = [typeOf EXCEPT ![p] = t]
    /\ crossed' = IF On("types") = {} THEN crossed ELSE crossed \cup {"types"}
    /\ UNCHANGED <<resources, units, types, jobs, outcome>>

\* The database cannot be reached: what was written stays.
Breaks(q) ==
    /\ jobs[q] # None
    /\ Ends(q, "none") /\ UNCHANGED <<resources, units, types, typeOf>>

-----------------------------------------------------------------------------
OnResource(q) ==
    \/ \E r \in Resources, c \in Codes : AddResource(q, r, c) \/ RenameResource(q, r, c)
    \/ \E r \in Resources : ArchiveResource(q, r) \/ UnarchiveResource(q, r)
    \/ WriteResource(q)
OnUnit(q) == (\E l \in Labels : AddUnit(q, l)) \/ WriteUnit(q)
OnType(q) == (\E t \in Types : AddType(q, t) \/ DeleteType(q, t)) \/ ClearType(q) \/ WriteType(q)

Next ==
    \/ \E q \in Requests : OnResource(q) \/ OnUnit(q) \/ OnType(q) \/ Breaks(q)
    \/ \E l \in Labels : ArchiveUnit(l)
    \/ \E p \in Projects, t \in Types : GiveType(p, t)

Spec == Init /\ [][Next]_vars
-----------------------------------------------------------------------------
(* What the catalog guarantees. *)

\* The database refuses what a request has found to be free, or safe to delete,
\* only if another worked on the table meanwhile: a request that no other crosses is
\* answered with a conflict, never with an error of the server.  Two at once, one of
\* them may be answered with an error.
ErrorsAreRaces ==
    [][\A q \in Requests : outcome'[q] = "error" /\ outcome[q] # "error" => jobs[q].on \in crossed]_vars

\* The list of units has a label once, however it is written, unless two were added
\* at once.
NoNearDuplicates ==
    \A l, m \in Labels :
        units[l] # "none" /\ units[m] # "none" /\ Lower(l) = Lower(m) => l = m \/ "units" \in crossed

\* A unit that was added can be picked: one that had been removed is back, unless it
\* is removed meanwhile.
AddedUnitIsListed ==
    [][\A q \in On("units") :
         outcome'[q] = "done" /\ outcome[q] # "done" /\ "units" \notin crossed
            => \E l \in Labels : units'[l] = "active" /\ Lower(l) = Lower(jobs[q].label)]_vars
=============================================================================
