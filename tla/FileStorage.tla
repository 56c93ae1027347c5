----------------------------- MODULE FileStorage -----------------------------
(***************************************************************************)
(* The files of one company: the attachments of its chantiers and its      *)
(* logo.  A database row and the object it speaks of are written by        *)
(* separate steps, the storage quota is read before the row it is about,   *)
(* and the weekly reset of the demo company empties first the tables and   *)
(* then the bucket, a page of keys at a time.                              *)
(*                                                                         *)
(* A request is an upload of one attachment, which has the request's name, *)
(* or of a logo of some extension.  A logo's key is its extension.  The    *)
(* header image goes through the same steps as the logo.                   *)
(***************************************************************************)
EXTENDS Naturals, FiniteSets, FiniteSetsExt

CONSTANTS
    Files,        \* attachments, by number
    SizeOf(_),    \* their sizes
    Quota,        \* STORAGE_QUOTA_BYTES
    Extensions,   \* the extensions a logo may have, by number
    None

VARIABLES
    rows,      \* project_attachments: the ids that have a row
    archived,  \* ... whose is_active is false
    logo,      \* companies.logo
    objects,   \* the keys in the bucket
    stage,     \* how far each upload has come
    reset,     \* the weekly reset: where it is, the last key it has listed
    beside,    \* for the properties: uploads that ran beside another, ...
    orphaned   \* ... and those that stopped half-way or met the reset

vars == <<rows, archived, logo, objects, stage, reset, beside, orphaned>>

Uploads == Files \cup Extensions
Stages == {"new", "checked", "stored", "cleanup", "cleared", "written", "answered"}

TypeOK ==
    /\ rows \subseteq Files /\ archived \subseteq rows
    /\ logo \in Extensions \cup {None}
    /\ objects \subseteq Uploads
    /\ stage \in [Uploads -> Stages]
    /\ reset \in [at : {"idle", "purge", "done"}, last : Uploads \cup {0}]
    /\ beside \subseteq Uploads /\ orphaned \subseteq Uploads

Size(set) == MapThenSumSet(SizeOf, set)
InFlight(u) == stage[u] \notin {"new", "answered"}
Running == {u \in Uploads : InFlight(u)}

\* getStorageUsedByCompanyFromDB: archived ones included.
StorageUsed == Size(rows)

Init ==
    /\ rows = {} /\ archived = {} /\ logo = None /\ objects = {}
    /\ stage = [u \in Uploads |-> "new"]
    /\ reset = [at |-> "idle", last |-> 0]
    /\ beside = {} /\ orphaned = {}

Goes(u, to) == stage' = [stage EXCEPT ![u] = to]

\* Its kind that runs already, and what the start does to the ghosts.
Starts(u, kind) ==
    LET others == Running \cap kind
    IN /\ beside' = IF others = {} THEN beside ELSE beside \cup others \cup {u}
       /\ orphaned' = IF reset.at = "purge" THEN orphaned \cup {u} ELSE orphaned

-----------------------------------------------------------------------------
(* uploadProjectAttachment *)

\* addAttachmentServ, up to the quota.
Check(f) ==
    /\ stage[f] = "new"
    /\ Goes(f, IF StorageUsed + SizeOf(f) > Quota THEN "answered" ELSE "checked")
    /\ Starts(f, Files)
    /\ UNCHANGED <<rows, archived, logo, objects, reset>>

\* The row is there before the file: the key is built from its id.
InsertRow(f) ==
    /\ stage[f] = "checked"
    /\ rows' = rows \cup {f}
    /\ Goes(f, "stored")
    /\ UNCHANGED <<archived, logo, objects, reset, beside, orphaned>>

Put(f) ==
    /\ stage[f] = "stored"
    /\ \/ objects' = objects \cup {f} /\ Goes(f, "answered")
       \/ UNCHANGED objects /\ Goes(f, "cleanup")
    /\ UNCHANGED <<rows, archived, logo, reset, beside, orphaned>>

\* removeFailedAttachmentServ
RemoveFailed(f) ==
    /\ stage[f] = "cleanup"
    /\ rows' = rows \ {f} /\ archived' = archived \ {f}
    /\ Goes(f, "answered")
    /\ UNCHANGED <<logo, objects, reset, beside, orphaned>>

Archive(f) ==
    /\ f \in rows /\ archived' = archived \cup {f}
    /\ UNCHANGED <<rows, logo, objects, stage, reset, beside, orphaned>>

Unarchive(f) ==
    /\ f \in rows /\ archived' = archived \ {f}
    /\ UNCHANGED <<rows, logo, objects, stage, reset, beside, orphaned>>

-----------------------------------------------------------------------------
(* uploadCompanyLogo: away with the others, the file, then the column. *)

ClearOthers(e) ==
    /\ stage[e] = "new"
    /\ objects' = objects \ (Extensions \ {e})
    /\ Goes(e, "cleared")
    /\ Starts(e, Extensions)
    /\ UNCHANGED <<rows, archived, logo, reset>>

PutLogo(e) ==
    /\ stage[e] = "cleared"
    /\ objects' = objects \cup {e}
    /\ Goes(e, "written")
    /\ UNCHANGED <<rows, archived, logo, reset, beside, orphaned>>

SetLogo(e) ==
    /\ stage[e] = "written"
    /\ logo' = e
    /\ Goes(e, "answered")
    /\ UNCHANGED <<rows, archived, objects, reset, beside, orphaned>>

\* The same image type again: another request of the extension.
Again(e) ==
    /\ stage[e] = "answered"
    /\ Goes(e, "new")
    /\ UNCHANGED <<rows, archived, logo, objects, reset, beside, orphaned>>

\* The database or the bucket does not answer, or the process stops: what the
\* request has done stays.
Breaks(u) ==
    /\ InFlight(u)
    /\ Goes(u, "answered")
    /\ orphaned' = orphaned \cup {u}
    /\ UNCHANGED <<rows, archived, logo, objects, reset, beside>>

-----------------------------------------------------------------------------
(* reset-demo-cron.sh, and deleteFilesWithPrefixServ a key a page. *)

EmptyTables ==
    /\ reset.at = "idle"
    /\ rows' = {} /\ archived' = {} /\ logo' = None
    /\ reset' = [at |-> "purge", last |-> 0]
    /\ orphaned' = orphaned \cup Running
    /\ UNCHANGED <<objects, stage, beside>>

\* The keys the listing has still to give.
Listed == {u \in objects : u > reset.last}
DeletesPage ==
    /\ reset.at = "purge" /\ Listed # {}
    /\ objects' = objects \ {Min(Listed)}
    /\ UNCHANGED <<rows, archived, logo, stage, beside, orphaned>>

\* A slip: the first page is taken for all of them.
PurgeOnce ==
    /\ DeletesPage
    /\ reset' = [at |-> "done", last |-> 0]

\* The listing goes on after the last key it gave.
PurgePage ==
    /\ DeletesPage
    /\ reset' = [reset EXCEPT !.last = Min(Listed)]

PurgeEnds ==
    /\ reset.at = "purge" /\ Listed = {}
    /\ reset' = [at |-> "done", last |-> 0]
    /\ UNCHANGED <<rows, archived, logo, objects, stage, beside, orphaned>>

-----------------------------------------------------------------------------
Attachment(f) ==
    Check(f) \/ InsertRow(f) \/ Put(f) \/ RemoveFailed(f) \/ Archive(f) \/ Unarchive(f)
Logo(e) == ClearOthers(e) \/ PutLogo(e) \/ SetLogo(e) \/ Again(e)
Reset == EmptyTables \/ PurgePage \/ PurgeEnds

Next ==
    \/ \E f \in Files : Attachment(f)
    \/ \E e \in Extensions : Logo(e)
    \/ \E u \in Uploads : Breaks(u)
    \/ Reset

Spec == Init /\ [][Next]_vars
-----------------------------------------------------------------------------
(* What the storage guarantees. *)

\* A company stays within its quota but for uploads that ran beside each other:
\* each read the storage used before the others' rows were in.
WithinQuota == Size(rows \ beside) <= Quota

\* A row speaks of a file that is there, once its upload has ended, unless the
\* upload broke or met the reset.
RowHasItsFile ==
    \A f \in rows : f \in objects \/ InFlight(f) \/ f \in orphaned

\* The logo the company's row names is in the bucket, unless one upload of a
\* logo broke, met the reset or ran beside another.
LogoIsStored ==
    logo # None => \/ logo \in objects
                   \/ (beside \cup orphaned) \cap Extensions # {}
                   \/ \E e \in Extensions : InFlight(e)

\* What the reset leaves in the bucket was uploaded while it ran.
ResetLeavesNothing ==
    [][reset.at = "purge" /\ reset'.at = "done" => objects' \subseteq orphaned]_vars
=============================================================================
