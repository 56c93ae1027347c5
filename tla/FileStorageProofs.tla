------------------------- MODULE FileStorageProofs -------------------------
(* Proofs about FileStorage, for any attachments, extensions and sizes.     *)
EXTENDS FileStorage, WellFoundedInduction, TLAPS

Bounds ==
    /\ Files \subseteq Nat \ {0} /\ Extensions \subseteq Nat \ {0}
    /\ Files \cap Extensions = {} /\ None \notin Extensions

(***************************************************************************)
(* The inductive invariant.  A row without its file is only ever that of a *)
(* running or a broken upload: the logos' clean-up takes no attachment,    *)
(* and while the reset deletes files, the rows are those of uploads that   *)
(* met it.  The row of a company names a logo that is there because an     *)
(* upload that met no other still has its file when it sets the column.    *)
(***************************************************************************)
RowsAreOfUploads == \A f \in rows : stage[f] \notin {"new", "checked"}

Alone == (beside \cup orphaned) \cap Extensions = {}
LogosFit ==
    Alone =>
        /\ \A e, g \in Extensions : InFlight(e) /\ InFlight(g) => e = g
        /\ \A e \in Extensions : stage[e] = "written" => e \in objects

\* While the reset empties the bucket, all there is comes from uploads that met it.
PurgeFits ==
    reset.at = "purge" =>
        /\ Running \cup rows \subseteq orphaned
        /\ logo # None => logo \in orphaned
        /\ \A u \in objects : u <= reset.last => u \in orphaned

StorageInv ==
    /\ TypeOK /\ RowsAreOfUploads /\ LogosFit /\ PurgeFits
    /\ RowHasItsFile /\ LogoIsStored

-----------------------------------------------------------------------------
LEMMA InitInv ==
  ASSUME Bounds, Init
  PROVE  StorageInv
<1>1. TypeOK
  BY DEF Bounds, Init, TypeOK, Stages, Uploads
<1>2. \A u \in Uploads : stage[u] = "new"
  BY DEF Init
<1>3. RowsAreOfUploads /\ LogosFit /\ PurgeFits /\ RowHasItsFile /\ LogoIsStored
  BY <1>2 DEF Init, RowsAreOfUploads, LogosFit, InFlight, PurgeFits, RowHasItsFile,
              LogoIsStored, Uploads
<1> QED BY <1>1, <1>3 DEF StorageInv

\* What a step of one upload does to the others' stages.
LEMMA OneGoes ==
  ASSUME Bounds, TypeOK, NEW u \in Uploads, NEW to \in Stages, Goes(u, to)
  PROVE  /\ stage' \in [Uploads -> Stages] /\ stage'[u] = to
         /\ \A v \in Uploads \ {u} : stage'[v] = stage[v]
BY DEF TypeOK, Goes

-----------------------------------------------------------------------------
(* The attachments. *)

LEMMA CheckKeeps ==
  ASSUME Bounds, StorageInv, NEW f \in Files, Check(f)
  PROVE  StorageInv'
<1>1. PICK to \in {"answered", "checked"} :
        stage[f] = "new" /\ Goes(f, to) /\ UNCHANGED <<rows, archived, logo, objects, reset>>
  BY DEF Check
<1>2. f \in Uploads /\ f \notin Extensions /\ TypeOK /\ to \in Stages
  BY DEF Bounds, StorageInv, Uploads, Stages
<1>3. /\ stage' \in [Uploads -> Stages] /\ stage'[f] = to
      /\ \A v \in Uploads \ {f} : stage'[v] = stage[v]
  BY <1>1, <1>2, OneGoes
<1>4. /\ beside \subseteq beside' /\ beside' \subseteq Uploads
      /\ beside' \cap Extensions = beside \cap Extensions
      /\ orphaned' = IF reset.at = "purge" THEN orphaned \cup {f} ELSE orphaned
  BY <1>2 DEF Check, Starts, Running, TypeOK, Bounds
<1>5. TypeOK'
  BY <1>1, <1>2, <1>3, <1>4 DEF TypeOK
<1>6. RowsAreOfUploads' /\ RowHasItsFile'
  BY <1>1, <1>2, <1>3, <1>4 DEF StorageInv, TypeOK, RowsAreOfUploads, RowHasItsFile, InFlight, Uploads
<1>7. LogosFit'
  BY <1>1, <1>2, <1>3, <1>4 DEF StorageInv, LogosFit, Alone, InFlight, Uploads
<1>8. PurgeFits'
  BY <1>1, <1>2, <1>3, <1>4 DEF StorageInv, PurgeFits, Running, InFlight
<1>9. LogoIsStored'
  BY <1>1, <1>2, <1>3, <1>4 DEF StorageInv, LogoIsStored, InFlight, Uploads
<1> QED BY <1>5, <1>6, <1>7, <1>8, <1>9 DEF StorageInv

LEMMA InsertRowKeeps ==
  ASSUME Bounds, StorageInv, NEW f \in Files, InsertRow(f)
  PROVE  StorageInv'
<1>1. /\ stage[f] = "checked" /\ rows' = rows \cup {f} /\ Goes(f, "stored")
      /\ UNCHANGED <<archived, logo, objects, reset, beside, orphaned>>
  BY DEF InsertRow
<1>2. f \in Uploads /\ f \notin Extensions /\ TypeOK /\ "stored" \in Stages
  BY DEF Bounds, StorageInv, Uploads, Stages
<1>3. /\ stage' \in [Uploads -> Stages] /\ stage'[f] = "stored"
      /\ \A v \in Uploads \ {f} : stage'[v] = stage[v]
  BY <1>1, <1>2, OneGoes
<1>5. TypeOK'
  BY <1>1, <1>2, <1>3 DEF TypeOK
<1>6. RowsAreOfUploads' /\ RowHasItsFile'
  BY <1>1, <1>2, <1>3 DEF StorageInv, TypeOK, RowsAreOfUploads, RowHasItsFile, InFlight, Uploads
<1>7. LogosFit' /\ LogoIsStored'
  BY <1>1, <1>2, <1>3 DEF StorageInv, LogosFit, Alone, LogoIsStored, InFlight, Uploads
<1>8. PurgeFits'
  BY <1>1, <1>2, <1>3 DEF StorageInv, PurgeFits, Running, InFlight
<1> QED BY <1>5, <1>6, <1>7, <1>8 DEF StorageInv

\* Answered with its file, or on to the clean-up of its row.
LEMMA PutKeeps ==
  ASSUME Bounds, StorageInv, NEW f \in Files, Put(f)
  PROVE  StorageInv'
<1>1. PICK to \in {"answered", "cleanup"} :
        /\ stage[f] = "stored" /\ Goes(f, to)
        /\ objects \subseteq objects' /\ objects' \subseteq objects \cup {f}
        /\ to = "answered" => f \in objects'
        /\ UNCHANGED <<rows, archived, logo, reset, beside, orphaned>>
  BY DEF Put
<1>2. f \in Uploads /\ f \notin Extensions /\ TypeOK /\ to \in Stages
  BY DEF Bounds, StorageInv, Uploads, Stages
<1>3. /\ stage' \in [Uploads -> Stages] /\ stage'[f] = to
      /\ \A v \in Uploads \ {f} : stage'[v] = stage[v]
  BY <1>1, <1>2, OneGoes
<1>5. TypeOK'
  BY <1>1, <1>2, <1>3 DEF TypeOK
<1>6. RowsAreOfUploads' /\ RowHasItsFile'
  BY <1>1, <1>2, <1>3 DEF StorageInv, TypeOK, RowsAreOfUploads, RowHasItsFile, InFlight, Uploads
<1>7. LogosFit' /\ LogoIsStored'
  BY <1>1, <1>2, <1>3 DEF StorageInv, LogosFit, Alone, LogoIsStored, InFlight, Uploads
<1>8. PurgeFits'
  BY <1>1, <1>2, <1>3 DEF StorageInv, PurgeFits, Running, InFlight
<1> QED BY <1>5, <1>6, <1>7, <1>8 DEF StorageInv

LEMMA RemoveFailedKeeps ==
  ASSUME Bounds, StorageInv, NEW f \in Files, RemoveFailed(f)
  PROVE  StorageInv'
<1>1. /\ stage[f] = "cleanup" /\ rows' = rows \ {f} /\ archived' = archived \ {f}
      /\ Goes(f, "answered") /\ UNCHANGED <<logo, objects, reset, beside, orphaned>>
  BY DEF RemoveFailed
<1>2. f \in Uploads /\ f \notin Extensions /\ TypeOK /\ "answered" \in Stages
  BY DEF Bounds, StorageInv, Uploads, Stages
<1>3. /\ stage' \in [Uploads -> Stages] /\ stage'[f] = "answered"
      /\ \A v \in Uploads \ {f} : stage'[v] = stage[v]
  BY <1>1, <1>2, OneGoes
<1>5. TypeOK'
  BY <1>1, <1>2, <1>3 DEF TypeOK
<1>6. RowsAreOfUploads' /\ RowHasItsFile'
  BY <1>1, <1>2, <1>3 DEF StorageInv, TypeOK, RowsAreOfUploads, RowHasItsFile, InFlight, Uploads
<1>7. LogosFit' /\ LogoIsStored'
  BY <1>1, <1>2, <1>3 DEF StorageInv, LogosFit, Alone, LogoIsStored, InFlight, Uploads
<1>8. PurgeFits'
  BY <1>1, <1>2, <1>3 DEF StorageInv, PurgeFits, Running, InFlight
<1> QED BY <1>5, <1>6, <1>7, <1>8 DEF StorageInv

LEMMA ArchivingKeeps ==
  ASSUME Bounds, StorageInv, NEW f \in Files, Archive(f) \/ Unarchive(f)
  PROVE  StorageInv'
<1>1. archived' \subseteq rows /\ UNCHANGED <<rows, logo, objects, stage, reset, beside, orphaned>>
  BY DEF Archive, Unarchive, StorageInv, TypeOK
<1> QED BY <1>1 DEF StorageInv, TypeOK, RowsAreOfUploads, RowHasItsFile, LogosFit, Alone,
                    PurgeFits, Running, LogoIsStored, InFlight

-----------------------------------------------------------------------------
(* The logo. *)

LEMMA ClearOthersKeeps ==
  ASSUME Bounds, StorageInv, NEW e \in Extensions, ClearOthers(e)
  PROVE  StorageInv'
<1>1. /\ stage[e] = "new" /\ objects' = objects \ (Extensions \ {e}) /\ Goes(e, "cleared")
      /\ UNCHANGED <<rows, archived, logo, reset>>
  BY DEF ClearOthers
<1>2. e \in Uploads /\ e \notin Files /\ TypeOK /\ "cleared" \in Stages
  BY DEF Bounds, StorageInv, Uploads, Stages
<1>3. /\ stage' \in [Uploads -> Stages] /\ stage'[e] = "cleared"
      /\ \A v \in Uploads \ {e} : stage'[v] = stage[v]
  BY <1>1, <1>2, OneGoes
<1>4. /\ beside \subseteq beside' /\ beside' \subseteq Uploads
      /\ (\E g \in Extensions : InFlight(g)) => e \in beside'
      /\ orphaned' = IF reset.at = "purge" THEN orphaned \cup {e} ELSE orphaned
  BY <1>2 DEF ClearOthers, Starts, Running, TypeOK, Uploads
<1>5. TypeOK'
  BY <1>1, <1>2, <1>3, <1>4 DEF TypeOK
<1>6. RowsAreOfUploads' /\ RowHasItsFile'
  BY <1>1, <1>2, <1>3, <1>4 DEF Bounds, StorageInv, TypeOK, RowsAreOfUploads, RowHasItsFile,
                                InFlight, Uploads
<1>7. LogosFit'
  BY <1>1, <1>2, <1>3, <1>4 DEF StorageInv, LogosFit, Alone, InFlight, Uploads
<1>8. PurgeFits'
  BY <1>1, <1>2, <1>3, <1>4 DEF StorageInv, PurgeFits, Running, InFlight
<1>9. LogoIsStored'
  BY <1>3 DEF LogoIsStored, InFlight
<1> QED BY <1>5, <1>6, <1>7, <1>8, <1>9 DEF StorageInv

LEMMA PutLogoKeeps ==
  ASSUME Bounds, StorageInv, NEW e \in Extensions, PutLogo(e)
  PROVE  StorageInv'
<1>1. /\ stage[e] = "cleared" /\ objects' = objects \cup {e} /\ Goes(e, "written")
      /\ UNCHANGED <<rows, archived, logo, reset, beside, orphaned>>
  BY DEF PutLogo
<1>2. e \in Uploads /\ e \notin Files /\ TypeOK /\ "written" \in Stages
  BY DEF Bounds, StorageInv, Uploads, Stages
<1>3. /\ stage' \in [Uploads -> Stages] /\ stage'[e] = "written"
      /\ \A v \in Uploads \ {e} : stage'[v] = stage[v]
  BY <1>1, <1>2, OneGoes
<1>5. TypeOK'
  BY <1>1, <1>2, <1>3 DEF TypeOK
<1>6. RowsAreOfUploads' /\ RowHasItsFile'
  BY <1>1, <1>2, <1>3 DEF StorageInv, TypeOK, RowsAreOfUploads, RowHasItsFile, InFlight, Uploads
<1>7. LogosFit' /\ LogoIsStored'
  BY <1>1, <1>2, <1>3 DEF StorageInv, LogosFit, Alone, LogoIsStored, InFlight, Uploads
<1>8. PurgeFits'
  BY <1>1, <1>2, <1>3 DEF StorageInv, PurgeFits, Running, InFlight
<1> QED BY <1>5, <1>6, <1>7, <1>8 DEF StorageInv

LEMMA SetLogoKeeps ==
  ASSUME Bounds, StorageInv, NEW e \in Extensions, SetLogo(e)
  PROVE  StorageInv'
<1>1. /\ stage[e] = "written" /\ logo' = e /\ Goes(e, "answered")
      /\ UNCHANGED <<rows, archived, objects, reset, beside, orphaned>>
  BY DEF SetLogo
<1>2. e \in Uploads /\ e \notin Files /\ TypeOK /\ "answered" \in Stages
  BY DEF Bounds, StorageInv, Uploads, Stages
<1>3. /\ stage' \in [Uploads -> Stages] /\ stage'[e] = "answered"
      /\ \A v \in Uploads \ {e} : stage'[v] = stage[v]
  BY <1>1, <1>2, OneGoes
<1>5. TypeOK'
  BY <1>1, <1>2, <1>3 DEF TypeOK
<1>6. RowsAreOfUploads' /\ RowHasItsFile'
  BY <1>1, <1>2, <1>3 DEF Bounds, StorageInv, TypeOK, RowsAreOfUploads, RowHasItsFile,
                          InFlight, Uploads
<1>7. LogosFit' /\ LogoIsStored'
  BY <1>1, <1>2, <1>3 DEF StorageInv, LogosFit, Alone, LogoIsStored, InFlight, Uploads
<1>8. PurgeFits'
  BY <1>1, <1>2, <1>3 DEF StorageInv, PurgeFits, Running, InFlight
<1> QED BY <1>5, <1>6, <1>7, <1>8 DEF StorageInv

LEMMA AgainKeeps ==
  ASSUME Bounds, StorageInv, NEW e \in Extensions, Again(e)
  PROVE  StorageInv'
<1>1. /\ stage[e] = "answered" /\ Goes(e, "new")
      /\ UNCHANGED <<rows, archived, logo, objects, reset, beside, orphaned>>
  BY DEF Again
<1>2. e \in Uploads /\ e \notin Files /\ TypeOK /\ "new" \in Stages
  BY DEF Bounds, StorageInv, Uploads, Stages
<1>3. /\ stage' \in [Uploads -> Stages] /\ stage'[e] = "new"
      /\ \A v \in Uploads \ {e} : stage'[v] = stage[v]
  BY <1>1, <1>2, OneGoes
<1>5. TypeOK'
  BY <1>1, <1>2, <1>3 DEF TypeOK
<1>6. RowsAreOfUploads' /\ RowHasItsFile'
  BY <1>1, <1>2, <1>3 DEF Bounds, StorageInv, TypeOK, RowsAreOfUploads, RowHasItsFile,
                          InFlight, Uploads
<1>7. LogosFit' /\ LogoIsStored'
  BY <1>1, <1>2, <1>3 DEF StorageInv, LogosFit, Alone, LogoIsStored, InFlight, Uploads
<1>8. PurgeFits'
  BY <1>1, <1>2, <1>3 DEF StorageInv, PurgeFits, Running, InFlight
<1> QED BY <1>5, <1>6, <1>7, <1>8 DEF StorageInv

LEMMA BreaksKeeps ==
  ASSUME Bounds, StorageInv, NEW u \in Uploads, Breaks(u)
  PROVE  StorageInv'
<1>1. /\ InFlight(u) /\ Goes(u, "answered") /\ orphaned' = orphaned \cup {u}
      /\ UNCHANGED <<rows, archived, logo, objects, reset, beside>>
  BY DEF Breaks
<1>2. TypeOK /\ "answered" \in Stages
  BY DEF StorageInv, Stages
<1>3. /\ stage' \in [Uploads -> Stages] /\ stage'[u] = "answered"
      /\ \A v \in Uploads \ {u} : stage'[v] = stage[v]
  BY <1>1, <1>2, OneGoes
<1>5. TypeOK'
  BY <1>1, <1>2, <1>3 DEF TypeOK
<1>6. RowsAreOfUploads' /\ RowHasItsFile'
  BY <1>1, <1>2, <1>3 DEF StorageInv, TypeOK, RowsAreOfUploads, RowHasItsFile, InFlight, Uploads
<1>7. LogosFit' /\ LogoIsStored'
  BY <1>1, <1>2, <1>3 DEF StorageInv, LogosFit, Alone, LogoIsStored, InFlight, Uploads
<1>8. PurgeFits'
  BY <1>1, <1>2, <1>3 DEF StorageInv, PurgeFits, Running, InFlight
<1> QED BY <1>5, <1>6, <1>7, <1>8 DEF StorageInv

-----------------------------------------------------------------------------
(* The reset. *)

LEMMA EmptyTablesKeeps ==
  ASSUME Bounds, StorageInv, EmptyTables
  PROVE  StorageInv'
<1>1. /\ rows' = {} /\ archived' = {} /\ logo' = None
      /\ reset' = [at |-> "purge", last |-> 0] /\ orphaned' = orphaned \cup Running
      /\ UNCHANGED <<objects, stage, beside>>
  BY DEF EmptyTables
<1>2. TypeOK /\ Uploads \subseteq Nat \ {0}
  BY DEF Bounds, StorageInv, Uploads
<1>3. TypeOK'
  BY <1>1, <1>2 DEF TypeOK, Running
<1>4. RowsAreOfUploads' /\ RowHasItsFile' /\ LogoIsStored'
  BY <1>1 DEF RowsAreOfUploads, RowHasItsFile, LogoIsStored
<1>5. Alone' => Alone
  BY <1>1 DEF Alone
<1>6. LogosFit'
  BY <1>1, <1>5 DEF StorageInv, LogosFit, InFlight
<1>7. \A u \in objects' : ~ (u <= 0)
  BY <1>1, <1>2 DEF TypeOK
<1>8. PurgeFits'
  BY <1>1, <1>7 DEF PurgeFits, Running, InFlight
<1> QED BY <1>3, <1>4, <1>6, <1>8 DEF StorageInv

\* A set of keys has a first one.
LEMMA FirstKey ==
  ASSUME NEW set, set \subseteq Nat, set # {}
  PROVE  Min(set) \in set /\ \A u \in set : Min(set) <= u
<1>1. PICK x \in set : \A y \in set : <<y, x>> \notin OpToRel(<, Nat)
  BY WFMin, NatLessThanWellFounded, Zenon
<1>2. \A y \in set : ~ (y < x)
  BY <1>1, Zenon DEF OpToRel
<1>3. \A y \in set : x <= y
  BY <1>2
<1> QED BY <1>3 DEF Min

LEMMA PurgePageKeeps ==
  ASSUME Bounds, StorageInv, PurgePage
  PROVE  StorageInv'
<1> DEFINE key == Min(Listed)
<1>1. /\ reset.at = "purge" /\ Listed # {} /\ objects' = objects \ {key}
      /\ reset' = [reset EXCEPT !.last = key]
      /\ UNCHANGED <<rows, archived, logo, stage, beside, orphaned>>
  BY DEF PurgePage, DeletesPage
<1>2. TypeOK /\ Uploads \subseteq Nat
  BY DEF Bounds, StorageInv, Uploads
<1>3. key \in Listed /\ \A u \in Listed : key <= u
  <2>1. Listed \subseteq Nat
    BY <1>2 DEF Listed, TypeOK
  <2> QED BY <1>1, <2>1, FirstKey
<1> HIDE DEF key
<1>4. key \in Nat /\ key \in Uploads /\ objects' \subseteq objects
  BY <1>1, <1>2, <1>3 DEF Listed, TypeOK
<1>5. reset'.at = "purge" /\ reset'.last = key
  BY <1>1, <1>2 DEF TypeOK
<1>6. TypeOK'
  BY <1>1, <1>2, <1>4, <1>5 DEF TypeOK
<1>7. RowsAreOfUploads' /\ RowHasItsFile'
  BY <1>1 DEF StorageInv, RowsAreOfUploads, RowHasItsFile, PurgeFits, InFlight
<1>8. Alone => \A e \in Extensions : ~ InFlight(e)
  BY <1>1 DEF StorageInv, PurgeFits, Alone, Running, Uploads
<1>9. LogosFit'
  BY <1>1, <1>8 DEF LogosFit, Alone, InFlight
<1>10. LogoIsStored'
  BY <1>1, <1>2 DEF StorageInv, LogoIsStored, PurgeFits, TypeOK, InFlight
<1>11. \A u \in objects' : u <= key => u \in orphaned
  <2>1. SUFFICES ASSUME NEW u \in objects, u # key, u <= key
                 PROVE  u \in orphaned
    BY <1>1
  <2>2. u \in Nat /\ reset.last \in Nat
    <3>1. u \in Uploads /\ reset.last \in Uploads \cup {0}
      BY <1>2 DEF TypeOK
    <3>2. \A v \in Uploads \cup {0} : v \in Nat
      BY <1>2
    <3> QED BY <3>1, <3>2
  <2>3. u <= reset.last
    BY <2>1, <2>2, <1>3, <1>4 DEF Listed
  <2> QED BY <1>1, <2>3 DEF StorageInv, PurgeFits
<1>12. PurgeFits'
  BY <1>1, <1>5, <1>11 DEF StorageInv, PurgeFits, Running, InFlight
<1> QED BY <1>6, <1>7, <1>9, <1>10, <1>12 DEF StorageInv

LEMMA PurgeEndsKeeps ==
  ASSUME Bounds, StorageInv, PurgeEnds
  PROVE  StorageInv'
<1>1. reset' = [at |-> "done", last |-> 0]
      /\ UNCHANGED <<rows, archived, logo, objects, stage, beside, orphaned>>
  BY DEF PurgeEnds
<1> QED BY <1>1 DEF StorageInv, TypeOK, RowsAreOfUploads, RowHasItsFile, LogosFit, Alone,
                    PurgeFits, LogoIsStored, InFlight

LEMMA StepKeeps ==
  ASSUME Bounds
  PROVE  StorageInv /\ [Next]_vars => StorageInv'
<1> SUFFICES ASSUME StorageInv, [Next]_vars
             PROVE  StorageInv'
  OBVIOUS
<1>1. CASE UNCHANGED vars
  BY <1>1 DEF vars, StorageInv, TypeOK, RowsAreOfUploads, RowHasItsFile, LogosFit, Alone,
              PurgeFits, Running, LogoIsStored, InFlight
<1>2. CASE \E f \in Files : Attachment(f)
  BY <1>2, CheckKeeps, InsertRowKeeps, PutKeeps, RemoveFailedKeeps, ArchivingKeeps DEF Attachment
<1>3. CASE \E e \in Extensions : Logo(e)
  BY <1>3, ClearOthersKeeps, PutLogoKeeps, SetLogoKeeps, AgainKeeps DEF Logo
<1>4. CASE \E u \in Uploads : Breaks(u)
  BY <1>4, BreaksKeeps
<1>5. CASE Reset
  BY <1>5, EmptyTablesKeeps, PurgePageKeeps, PurgeEndsKeeps DEF Reset
<1> QED BY <1>1, <1>2, <1>3, <1>4, <1>5 DEF Next

-----------------------------------------------------------------------------
(* The theorems. *)

\* Which rows and logos have their files while uploads, failures and the reset run.
THEOREM Invariance ==
  ASSUME Bounds
  PROVE  Spec => []StorageInv
  <1>1. Init => StorageInv
    BY InitInv
  <1>2. StorageInv /\ [Next]_vars => StorageInv'
    BY StepKeeps
  <1> QED BY <1>1, <1>2, PTL DEF Spec

\* A row speaks of a file that is there, and the company's logo is there, but for the
\* uploads that ran beside another, broke or met the reset
\* (project_attachment.controller.ts, company.controller.ts).
THEOREM RowsHaveTheirFiles ==
  ASSUME Bounds
  PROVE  Spec => [](RowHasItsFile /\ LogoIsStored)
  <1>1. StorageInv => RowHasItsFile /\ LogoIsStored
    BY DEF StorageInv
  <1> QED BY <1>1, Invariance, PTL

\* The reset leaves nothing in the bucket but what was uploaded while it ran, however
\* many pages the listing has (purge-company-files.ts).
THEOREM ResetIsComplete ==
  ASSUME Bounds
  PROVE  Spec => ResetLeavesNothing
  <1> DEFINE Emptied == reset.at = "purge" /\ reset'.at = "done" => objects' \subseteq orphaned
  <1>1. StorageInv /\ [Next]_vars => [Emptied]_vars
    <2>1. SUFFICES ASSUME StorageInv, Next, reset.at = "purge", reset'.at = "done"
                   PROVE  objects' \subseteq orphaned
      OBVIOUS
    <2>2. reset' # reset
      BY <2>1
    <2>3. PurgeEnds
      <3>1. ~ EmptyTables
        BY <2>1 DEF EmptyTables
      <3>2. ~ PurgePage
        BY <2>1 DEF PurgePage, StorageInv, TypeOK
      <3>3. Reset
        BY <2>1, <2>2 DEF Next, Attachment, Logo, Check, InsertRow, Put, RemoveFailed, Archive,
                          Unarchive, ClearOthers, PutLogo, SetLogo, Again, Breaks
      <3> QED BY <3>1, <3>2, <3>3 DEF Reset
    <2>4. Listed = {} /\ objects' = objects
      BY <2>3 DEF PurgeEnds
    <2>5. objects \subseteq Nat /\ reset.last \in Nat
      <3>1. Uploads \subseteq Nat /\ 0 \in Nat
        BY DEF Bounds, Uploads
      <3> QED BY <2>1, <3>1 DEF StorageInv, TypeOK
    <2>6. \A u \in objects : u <= reset.last
      BY <2>4, <2>5 DEF Listed
    <2> QED BY <2>1, <2>4, <2>6 DEF StorageInv, PurgeFits
  <1> QED BY <1>1, Invariance, PTL DEF Spec, ResetLeavesNothing
=============================================================================
