---------------------------- MODULE ReloadedList ----------------------------
(***************************************************************************)
(* A list read again as its filter is chosen and after each change made to *)
(* a row from it: the sign-ins, the errors, the users, the files of a      *)
(* chantier.  The answers to two reads may come in either order; the list  *)
(* of the sign-ins drops the read it no longer waits for.                  *)
(***************************************************************************)
EXTENDS Naturals, FiniteSets

CONSTANTS
    Rows,
    Kinds,      \* what the filters tell apart: resolved or not, archived or not
    Filters,    \* each the kinds it shows
    Changes,    \* the kinds a row can be given from the list, None for deleting it
    None,
    MaxMoves    \* bound: what the user does

VARIABLES
    drops,     \* whether this is the list of the sign-ins, where no row is changed
    server,    \* the rows there are
    filter,    \* status, showArchived, selectedUserId
    shown,     \* the rows in the list
    reads,     \* those on their way, numbered, and what each has found
    asked,     \* the number of the last one
    answered,  \* the number of the one shown
    changes,   \* the writes under way
    failed,    \* for the properties: a read, or the answer to a write, was lost
    moves

vars == <<drops, server, filter, shown, reads, asked, answered, changes, failed, moves>>

Lists == [Rows -> Kinds \cup {None}]

TypeOK ==
    /\ drops \in BOOLEAN
    /\ server \in Lists /\ shown \in Lists /\ filter \in Filters
    /\ reads \subseteq [n : 1..asked, filter : Filters, found : Lists \cup {None}]
    /\ asked \in Nat /\ answered \in 0..asked
    /\ changes \subseteq Rows \X (Kinds \cup {None})
    /\ failed \in BOOLEAN /\ moves \in 0..MaxMoves

Listed(f) == [r \in Rows |-> IF server[r] \in f THEN server[r] ELSE None]

Read(n, f) == [n |-> n, filter |-> f, found |-> None]

Init ==
    /\ drops \in BOOLEAN
    /\ server \in Lists /\ filter \in Filters /\ shown = [r \in Rows |-> None]
    /\ reads = {Read(1, filter)} /\ asked = 1 /\ answered = 0
    /\ changes = {} /\ failed = FALSE /\ moves = 0

Move == moves < MaxMoves /\ moves' = moves + 1

\* A slip: the read before is still waited for.
LoadsAgain(f) ==
    /\ asked' = asked + 1 /\ reads' = reads \cup {Read(asked + 1, f)}

Loads(f) ==
    /\ asked' = asked + 1
    /\ reads' = (IF drops THEN {} ELSE reads) \cup {Read(asked + 1, f)}

Choose(f) ==
    /\ Move /\ f # filter /\ filter' = f /\ Loads(f)
    /\ UNCHANGED <<drops, server, shown, answered, changes, failed>>

\* The database is read, then the answer comes.
Finds(n) == \E r \in reads :
    /\ r.n = n /\ r.found = None
    /\ reads' = (reads \ {r}) \cup {[r EXCEPT !.found = Listed(r.filter)]}
    /\ UNCHANGED <<drops, server, filter, shown, asked, answered, changes, failed, moves>>

Answers(n) == \E r \in reads :
    /\ r.n = n /\ r.found # None /\ reads' = reads \ {r}
    /\ shown' = r.found /\ answered' = r.n
    /\ UNCHANGED <<drops, server, filter, asked, changes, failed, moves>>

ReadFails(n) == \E r \in reads :
    /\ r.n = n /\ reads' = reads \ {r} /\ failed' = TRUE
    /\ UNCHANGED <<drops, server, filter, shown, asked, answered, changes, moves>>

-----------------------------------------------------------------------------
(* Changes: resolve or reopen, archive or bring back, delete once confirmed, add a file. *)

Change(r, k) ==
    /\ ~drops /\ Move /\ server[r] # k /\ (shown[r] # None \/ server[r] = None)
    /\ changes' = changes \cup {<<r, k>>}
    /\ UNCHANGED <<drops, server, filter, shown, reads, asked, answered, failed>>

Changed(r, k) ==
    /\ <<r, k>> \in changes /\ changes' = changes \ {<<r, k>>}
    /\ server' = [server EXCEPT ![r] = k]
    /\ Loads(filter)
    /\ UNCHANGED <<drops, filter, shown, answered, failed, moves>>

\* Refused; or done, and nobody told.
ChangeFails(r, k) ==
    /\ <<r, k>> \in changes /\ changes' = changes \ {<<r, k>>}
    /\ \/ UNCHANGED <<server, failed>>
       \/ server' = [server EXCEPT ![r] = k] /\ failed' = TRUE
    /\ UNCHANGED <<drops, filter, shown, reads, asked, answered, moves>>

Numbers == 1..(2 * MaxMoves + 1)
Next ==
    \/ \E f \in Filters : Choose(f)
    \/ \E n \in Numbers : Finds(n) \/ Answers(n) \/ ReadFails(n)
    \/ \E r \in Rows, k \in Changes : Change(r, k) \/ Changed(r, k) \/ ChangeFails(r, k)

Spec == Init /\ [][Next]_vars
-----------------------------------------------------------------------------
(* What the list guarantees. *)

\* The list shows what its filter asks for, as it is after the changes made from
\* it; where reads are not dropped, unless an older answer came after a newer one.
ShowsWhatIsAsked ==
    reads = {} /\ changes = {} /\ ~failed /\ (drops \/ answered = asked)
        => shown = Listed(filter)
=============================================================================
