--------------------------- MODULE ClientDirectory ---------------------------
(***************************************************************************)
(* A company's clients and their addresses.  As in the catalog, a request  *)
(* looks first and writes after; marking an address as the primary one     *)
(* takes the mark off the others in a statement of its own.  The database  *)
(* refuses a second client of a number and a second primary address of a   *)
(* client; it has no rule for emails.  The placeholder client has a row    *)
(* that no request may change.                                             *)
(***************************************************************************)
EXTENDS Naturals, FiniteSets

CONSTANTS
    Requests,
    Clients,       \* each its number too
    Placeholder,   \* "Non défini"
    Emails,
    Addresses,
    None

VARIABLES
    clients,       \* [email, active] of each client there is, or None
    addresses,     \* [client, primary] of each address there is, or None
    used,          \* addresses some document is sent to
    jobs,          \* what each request has yet to write
    outcome,       \* how each request last ended
    crossed,       \* for the properties: clients two requests worked on at once
    bare           \* ... clients whose primary address went, or whose mark moved
                   \* off one address and on to none

vars == <<clients, addresses, used, jobs, outcome, crossed, bare>>

Row == [email : Emails \cup {None}, active : BOOLEAN]
Address == [client : Clients, primary : BOOLEAN]
Job == [do : {"add", "update"}, client : Clients, email : Emails \cup {None}, address : Addresses \cup {None}]
  \cup [do : {"unset", "create"}, client : Clients, address : Addresses, primary : BOOLEAN]

TypeOK ==
    /\ clients \in [Clients -> Row \cup {None}]
    /\ addresses \in [Addresses -> Address \cup {None}]
    /\ used \subseteq Addresses
    /\ jobs \in [Requests -> Job \cup {None}]
    /\ outcome \in [Requests -> {"none", "done", "conflict", "error"}]
    /\ crossed \subseteq Clients /\ bare \subseteq Clients

\* createPlaceholderClientInDB, together with the company.
Init ==
    /\ clients = [c \in Clients |-> IF c = Placeholder THEN [email |-> None, active |-> TRUE] ELSE None]
    /\ addresses = [a \in Addresses |-> None] /\ used = {}
    /\ jobs = [q \in Requests |-> None] /\ outcome = [q \in Requests |-> "none"]
    /\ crossed = {} /\ bare = {}

Of(c) == {a \in Addresses : addresses[a] # None /\ addresses[a].client = c}
Primaries(c) == {a \in Of(c) : addresses[a].primary}
Running == {q \in Requests : jobs[q] # None}
New(a) == addresses[a] = None /\ \A q \in Running : jobs[q].address # a

\* Two requests cross on the client, or on the email, they are about.
Finds(q, job) ==
    LET others == {o \in Running : \/ jobs[o].client = job.client
                                   \/ /\ {job.do, jobs[o].do} \subseteq {"add", "update"}
                                      /\ jobs[o].email = job.email}
    IN /\ jobs[q] = None
       /\ jobs' = [jobs EXCEPT ![q] = job]
       /\ outcome' = [outcome EXCEPT ![q] = "none"]
       /\ crossed' = IF others = {} THEN crossed
                     ELSE crossed \cup {job.client} \cup {jobs[o].client : o \in others}
       /\ UNCHANGED <<clients, addresses, used, bare>>

Answers(q, how) ==
    /\ jobs[q] = None
    /\ outcome' = [outcome EXCEPT ![q] = how]
    /\ UNCHANGED <<clients, addresses, used, jobs, crossed, bare>>

Ends(q, how) ==
    /\ jobs' = [jobs EXCEPT ![q] = None]
    /\ outcome' = [outcome EXCEPT ![q] = how]
    /\ UNCHANGED crossed

-----------------------------------------------------------------------------
(* client.service *)

\* getClientByEmail: an archived client keeps its email; none is no email.
Taken(email) == email # None /\ \E c \in Clients : clients[c] # None /\ clients[c].email = email

\* addClientServ, the address of a new client checked with it.
AddClient(q, c, email, a) ==
    /\ a # None => New(a)
    /\ IF clients[c] # None \/ Taken(email)
         THEN Answers(q, "conflict")
         ELSE Finds(q, [do |-> "add", client |-> c, email |-> email, address |-> a])

\* The client and its address in one transaction.
InsertClient(q) ==
    /\ q \in Running /\ jobs[q].do = "add"
    /\ LET c == jobs[q].client
       IN IF clients[c] # None
            THEN Ends(q, "error") /\ UNCHANGED <<clients, addresses>>
            ELSE /\ Ends(q, "done")
                 /\ clients' = [clients EXCEPT ![c] = [email |-> jobs[q].email, active |-> TRUE]]
                 /\ addresses' = [a \in Addresses |-> IF a = jobs[q].address
                                    THEN [client |-> c, primary |-> TRUE] ELSE addresses[a]]
    /\ UNCHANGED <<used, bare>>

EmailTaken(c, email) == email # clients[c].email /\ Taken(email)

UpdateClient(q, c, email) ==
    /\ clients[c] # None
    /\ IF c = Placeholder \/ EmailTaken(c, email)
         THEN Answers(q, "conflict")
         ELSE Finds(q, [do |-> "update", client |-> c, email |-> email, address |-> None])

WriteClient(q) ==
    /\ q \in Running /\ jobs[q].do = "update"
    /\ clients' = [clients EXCEPT ![jobs[q].client].email = jobs[q].email]
    /\ Ends(q, "done")
    /\ UNCHANGED <<addresses, used, bare>>

\* archiveClientServ, unarchiveClientServ
SetActive(c, active) ==
    /\ c # Placeholder /\ clients[c] # None
    /\ clients' = [clients EXCEPT ![c].active = active]
    /\ UNCHANGED <<addresses, used, jobs, outcome, crossed, bare>>

-----------------------------------------------------------------------------
(* address.service *)

BePrimary(c, primary) == primary \/ Of(c) = {}

\* A slip: the mark is not taken off the others.
CreatesAtOnce(c, primary) == "create"
FirstStep(c, primary) == IF primary /\ Of(c) # {} THEN "unset" ELSE "create"

AddAddress(q, c, a, primary) ==
    /\ New(a) /\ clients[c] # None
    /\ IF c = Placeholder
         THEN Answers(q, "conflict")
         ELSE Finds(q, [do |-> FirstStep(c, primary),
                        client |-> c, address |-> a, primary |-> BePrimary(c, primary)])

UnsetPrimary(q) ==
    /\ q \in Running /\ jobs[q].do = "unset"
    /\ addresses' = [a \in Addresses |-> IF a \in Of(jobs[q].client) THEN [addresses[a] EXCEPT !.primary = FALSE]
                                         ELSE addresses[a]]
    /\ jobs' = [jobs EXCEPT ![q].do = "create"]
    /\ UNCHANGED <<clients, used, outcome, crossed, bare>>

\* addresses_one_primary_per_client refuses a second.
CreateAddress(q) ==
    /\ q \in Running /\ jobs[q].do = "create"
    /\ LET c == jobs[q].client
       IN IF jobs[q].primary /\ Primaries(c) # {}
            THEN Ends(q, "error") /\ UNCHANGED addresses
            ELSE /\ Ends(q, "done")
                 /\ addresses' = [addresses EXCEPT ![jobs[q].address] = [client |-> c, primary |-> jobs[q].primary]]
    /\ UNCHANGED <<clients, used, bare>>

\* None is promoted in its place; one that a document is sent to stays.
DeleteAddress(q, a) ==
    /\ addresses[a] # None /\ jobs[q] = None
    /\ IF a \in used
         THEN Answers(q, "error")
         ELSE /\ addresses' = [addresses EXCEPT ![a] = None]
              /\ outcome' = [outcome EXCEPT ![q] = "done"]
              /\ bare' = IF addresses[a].primary THEN bare \cup {addresses[a].client} ELSE bare
              /\ crossed' = crossed \cup ({addresses[a].client} \cap {jobs[o].client : o \in Running})
              /\ UNCHANGED <<clients, used, jobs>>

SendTo(a) ==
    /\ addresses[a] # None /\ used' = used \cup {a}
    /\ UNCHANGED <<clients, addresses, jobs, outcome, crossed, bare>>

\* The database cannot be reached: what was written stays.
Breaks(q) ==
    /\ q \in Running
    /\ bare' = IF jobs[q].do = "create" THEN bare \cup {jobs[q].client} ELSE bare
    /\ Ends(q, "none") /\ UNCHANGED <<clients, addresses, used>>

-----------------------------------------------------------------------------
OnClient(q) ==
    \/ \E c \in Clients, e \in Emails \cup {None}, a \in Addresses \cup {None} : AddClient(q, c, e, a)
    \/ \E c \in Clients, e \in Emails \cup {None} : UpdateClient(q, c, e)
    \/ InsertClient(q) \/ WriteClient(q)
OnAddress(q) ==
    \/ \E c \in Clients, a \in Addresses, primary \in BOOLEAN : AddAddress(q, c, a, primary)
    \/ \E a \in Addresses : DeleteAddress(q, a)
    \/ UnsetPrimary(q) \/ CreateAddress(q)

Next ==
    \/ \E q \in Requests : OnClient(q) \/ OnAddress(q) \/ Breaks(q)
    \/ \E c \in Clients, active \in BOOLEAN : SetActive(c, active)
    \/ \E a \in Addresses : SendTo(a)

Spec == Init /\ [][Next]_vars
-----------------------------------------------------------------------------
(* What the directory guarantees. *)

\* A client with an address has one that is primary, and only one, unless that one
\* was deleted, the mark was on its way to another when the request broke, or two
\* requests worked on the client at once.
OnePrimaryAddress ==
    \A c \in Clients \ (bare \cup crossed) :
        (\A q \in Running : jobs[q].client # c) /\ Of(c) # {} => Cardinality(Primaries(c)) = 1

\* Two clients have the same email only if both were given it at once.
EmailsDiffer ==
    \A c, d \in Clients \ crossed :
        c # d /\ clients[c] # None /\ clients[d] # None /\ clients[c].email = clients[d].email
            => clients[c].email = None

\* An address marked as primary is refused by the database only if another request
\* worked on the client meanwhile.
MarkingSucceeds ==
    [][\A q \in Running : outcome'[q] = "error" /\ outcome[q] # "error" => jobs[q].client \in crossed]_vars
=============================================================================
