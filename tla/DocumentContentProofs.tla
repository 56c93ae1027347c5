----------------------- MODULE DocumentContentProofs -----------------------
(***************************************************************************)
(* Proofs about DocumentContent: for the requests the frontend makes       *)
(* (FormSpec), any number in flight, and for all ten, one at a time        *)
(* (SequentialSpec); any sections, lines and rates.                        *)
(***************************************************************************)
EXTENDS DocumentContent, TLAPS

(***************************************************************************)
(* The inductive invariant: for each request, what must be so at its step. *)
(***************************************************************************)

\* A request is at a statement of its own handler.
StepFits(r) ==
    \/ req[r].op = "none" /\ req[r].pc = "idle"
    \/ req[r].op = "save" /\ req[r].pc \in
         {"lock", "check", "archive_lines", "insert", "recompute", "sum", "total", "commit", "rollback"}
    \/ req[r].op = "accept" /\ req[r].pc \in
         {"flip", "copy_sections", "copy_lines", "commit", "rollback"}
    \/ req[r].op = "edit" /\ req[r].pc \in {"update", "recompute", "sum", "total"}
    \/ req[r].op = "status" /\ req[r].pc = "set_status"

LockFits(r) ==
    /\ HoldsLock(r) => rowLock = r
    /\ rowLock = r => HoldsLock(r) \/ At(r, "rollback")

\* A save brings the rows of one section, whole, and no one has seen them yet.
RowsFit(r) ==
    /\ req[r].op = "save" => \E s \in Sections \cup {NoSection} :
          req[r].sections = {s} \cap Sections /\ req[r].lines = LinesOf(s)
    /\ req[r].op # "save" => req[r].sections = {}
    /\ \A s \in req[r].sections : sections[s] = "none"

\* What a request has checked of the documents row under its lock is still so.
CheckFits(r) ==
    /\ req[r].op = "save" /\ (SaveRewrites(r) \/ At(r, "archive_lines") \/ At(r, "commit"))
          => header.type = "PROJECT" \/ OpenForEditing(header.type, header.status)
    /\ req[r].op = "accept" => header.type = "QUOTE"
    /\ req[r].op = "accept" /\ (At(r, "copy_sections") \/ At(r, "copy_lines") \/ At(r, "commit"))
          => header.status \in {"DRAFT", "SENT"} /\ header.active
    /\ req[r].op = "status"
          => req[r].want \in Settable(header.type, "DRAFT") \cup Settable(header.type, "SENT")

ReadsFit(r) ==
    /\ req[r].op = "save" /\ (SaveRewrites(r) \/ At(r, "commit"))
          => req[r].goneLines = ActiveLines
    /\ req[r].op = "save" /\ (At(r, "sum") \/ At(r, "total") \/ At(r, "commit"))
          => req[r].goneSections = Active(sections) /\ req[r].rate = header.rate
    /\ req[r].op = "save" /\ At(r, "recompute") => req[r].goneSections = Active(sections)
    /\ req[r].op = "save" /\ (At(r, "total") \/ At(r, "commit"))
          => req[r].seenLines = req[r].lines
    /\ req[r].op = "accept" /\ (At(r, "copy_lines") \/ At(r, "commit"))
          => req[r].seenSections = Active(sections)
    /\ req[r].op = "accept" /\ At(r, "commit") => req[r].seenLines = ActiveLines

Fits(r) == StepFits(r) /\ LockFits(r) /\ RowsFit(r) /\ CheckFits(r) /\ ReadsFit(r)

\* No two requests bring the same section.
Apart == \A q, r \in Requests : q # r => req[q].sections \cap req[r].sections = {}

HeaderFits ==
    /\ header.type \in DocTypes
    /\ header.status = "ACCEPTED" => header.type = "QUOTE"

FormInv ==
    TypeOK /\ HeaderFits /\ ChantierMatchesQuote /\ Apart /\ \A r \in Requests : Fits(r)

-----------------------------------------------------------------------------
LEMMA InvImplies == FormInv => Inv /\ ChantierMatchesQuote
  BY DEF FormInv, Inv, Fits, LockFits, LockIsHeld, ReadsFit, ReadsAreCurrent

\* The request of an empty slot.
LEMMA IdleTyped == IdleRequest \in Request
  BY ContentAssumption DEF IdleRequest, Request, Ops, Steps, Statuses

LEMMA InitInv == Init => FormInv
  <1> SUFFICES ASSUME Init PROVE FormInv
    OBVIOUS
  <1>1. PICK type \in DocTypes :
          header = [type |-> type, status |-> FirstStatus(type), active |-> TRUE,
                    rate |-> FirstRate, totals |-> [rate |-> FirstRate, lines |-> {}]]
    BY DEF Init, ContentInit
  <1>2. /\ project = [status |-> "IN_PROGRESS", active |-> TRUE]
        /\ sections = [s \in Sections |-> "none"]
        /\ lines = [l \in Lines |-> "none"]
        /\ chantier = {} /\ rowLock = Nobody
        /\ req = [r \in Requests |-> IdleRequest]
    BY DEF Init, ContentInit
  <1>3. type \in Types
    BY ContentAssumption
  <1>4. FirstStatus(type) \in {"DRAFT", "NULL"}
    BY DEF FirstStatus
  <1>5. header \in Header
    BY <1>1, <1>3, <1>4, ContentAssumption DEF Header, Totals, Statuses
  <1>6. TypeOK
    <2>1. project \in [status : {"IN_PROGRESS", "COMPLETED"}, active : BOOLEAN]
      BY <1>2
    <2>2. sections \in [Sections -> RowState] /\ lines \in [Lines -> RowState] /\ chantier \in SUBSET Lines
      BY <1>2 DEF RowState
    <2>3. req \in [Requests -> Request]
      BY <1>2, IdleTyped
    <2> QED BY <1>2, <1>5, <2>1, <2>2, <2>3 DEF TypeOK, ContentTypeOK
  <1>7. HeaderFits /\ ChantierMatchesQuote
    BY <1>1, <1>4 DEF HeaderFits, ChantierMatchesQuote
  <1>8. \A r \in Requests :
           req[r].op = "none" /\ req[r].pc = "idle" /\ req[r].sections = {} /\ rowLock # r
    BY <1>2, WorkloadAssumption DEF IdleRequest
  <1>9. Apart
    BY <1>8 DEF Apart
  <1>10. ASSUME NEW r \in Requests PROVE Fits(r)
    BY <1>8 DEF Fits, StepFits, LockFits, HoldsLock, SaveRewrites, RowsFit, CheckFits, ReadsFit, At
  <1> QED BY <1>6, <1>7, <1>9, <1>10 DEF FormInv

-----------------------------------------------------------------------------
(* Frames. *)

\* One slot changes, the others do not.
LEMMA Updated ==
  ASSUME req \in [Requests -> Request], NEW r \in Requests, NEW new \in Request,
         req' = [req EXCEPT ![r] = new]
  PROVE  /\ req' \in [Requests -> Request]
         /\ req'[r] = new
         /\ \A q \in Requests : q # r => req'[q] = req[q]
  OBVIOUS

\* A request whose slot does not change: its lock keeps what it has read as it is.
LEMMA OthersFit ==
  ASSUME TypeOK, NEW q \in Requests, Fits(q), req'[q] = req[q], header'.type = header.type,
         rowLock = q => /\ rowLock' = q
                        /\ sections' = sections /\ lines' = lines
                        /\ header'.rate = header.rate /\ header'.status = header.status
                        /\ header'.active = header.active,
         rowLock' = q => rowLock = q,
         \A s \in req[q].sections : sections'[s] = "none"
  PROVE  Fits(q)'
  <1>1. StepFits(q)'
    BY DEF Fits, StepFits
  <1>2. LockFits(q)'
    BY DEF Fits, LockFits, HoldsLock, SaveRewrites, At
  <1>3. RowsFit(q)'
    BY DEF Fits, RowsFit, LinesOf, Lines
  <1>4. CheckFits(q)'
    BY DEF Fits, CheckFits, LockFits, HoldsLock, SaveRewrites, At
  <1>5. ReadsFit(q)'
    <2>1. CASE rowLock = q
      BY <2>1 DEF Fits, ReadsFit, SaveRewrites, At, ActiveLines
    <2>2. CASE rowLock # q
      BY <2>2 DEF Fits, ReadsFit, LockFits, HoldsLock, SaveRewrites, At
    <2> QED BY <2>1, <2>2
  <1> QED BY <1>1, <1>2, <1>3, <1>4, <1>5 DEF Fits

\* A step of request r.
LEMMA OneMoves ==
  ASSUME FormInv, NEW r \in Requests, NEW new \in Request, req' = [req EXCEPT ![r] = new],
         ContentTypeOK', rowLock' \in Requests \cup {Nobody},
         header'.type = header.type, HeaderFits', ChantierMatchesQuote',
         \A q \in Requests \ {r} :
            /\ rowLock = q => /\ rowLock' = q
                              /\ sections' = sections /\ lines' = lines
                              /\ header'.rate = header.rate /\ header'.status = header.status
                              /\ header'.active = header.active
            /\ rowLock' = q => rowLock = q
            /\ \A s \in req[q].sections : sections'[s] = "none" /\ s \notin new.sections,
         Fits(r)'
  PROVE  FormInv'
  <1>1. TypeOK /\ Apart /\ \A q \in Requests : Fits(q)
    BY DEF FormInv
  <1>2. /\ req' \in [Requests -> Request]
        /\ req'[r] = new
        /\ \A q \in Requests : q # r => req'[q] = req[q]
    BY <1>1, Updated DEF TypeOK
  <1>3. TypeOK'
    BY <1>2 DEF TypeOK
  <1>4. Apart'
    <2>1. ASSUME NEW p \in Requests, NEW q \in Requests, p # q
          PROVE  req'[p].sections \cap req'[q].sections = {}
      <3>1. CASE p # r /\ q # r
        BY <1>1, <1>2, <2>1, <3>1 DEF Apart
      <3>2. CASE p = r
        BY <1>2, <2>1, <3>2
      <3>3. CASE q = r
        BY <1>2, <2>1, <3>3
      <3> QED BY <3>1, <3>2, <3>3
    <2> QED BY <2>1 DEF Apart
  <1>5. ASSUME NEW q \in Requests PROVE Fits(q)'
    <2>1. CASE q = r
      BY <2>1
    <2>2. CASE q # r
      BY <1>1, <1>2, <2>2, OthersFit
    <2> QED BY <2>1, <2>2
  <1> QED BY <1>3, <1>4, <1>5 DEF FormInv

\* A step of request r that only it notices.
LEMMA OnlyItsSlot ==
  ASSUME FormInv, NEW r \in Requests, NEW new \in Request, req' = [req EXCEPT ![r] = new],
         UNCHANGED <<content, rowLock>>,
         \A q \in Requests \ {r} : \A s \in new.sections : s \notin req[q].sections,
         Fits(r)'
  PROVE  FormInv'
  <1>1. TypeOK /\ HeaderFits /\ ChantierMatchesQuote /\ \A q \in Requests : Fits(q)
    BY DEF FormInv
  <1>2. header' = header /\ project' = project /\ sections' = sections /\ lines' = lines
        /\ chantier' = chantier /\ rowLock' = rowLock
    BY DEF content
  <1>3. ContentTypeOK' /\ HeaderFits' /\ ChantierMatchesQuote'
    BY <1>1, <1>2 DEF TypeOK, ContentTypeOK, HeaderFits, ChantierMatchesQuote, ActiveLines
  <1>4. \A q \in Requests : \A s \in req[q].sections : sections[s] = "none"
    BY <1>1 DEF Fits, RowsFit
  <1>5. rowLock' \in Requests \cup {Nobody}
    BY <1>1, <1>2 DEF TypeOK
  <1> QED BY <1>2, <1>3, <1>4, <1>5, OneMoves

\* The same, of a request that brings no other rows than before.
LEMMA SameRows ==
  ASSUME FormInv, NEW r \in Requests, NEW new \in Request, req' = [req EXCEPT ![r] = new],
         UNCHANGED <<content, rowLock>>, new.sections = req[r].sections, Fits(r)'
  PROVE  FormInv'
  <1>1. \A q \in Requests \ {r} : \A s \in new.sections : s \notin req[q].sections
    BY DEF FormInv, Apart
  <1> QED BY <1>1, OnlyItsSlot

-----------------------------------------------------------------------------
(* What the statements write into their slot. *)

LEMMA Gone ==
  ASSUME TypeOK, NEW r \in Requests, NEW step \in Steps, Goto(r, step)
  PROVE  \E new \in Request :
            /\ req' = [req EXCEPT ![r] = new] /\ req'[r] = new
            /\ new.pc = step /\ new.op = req[r].op /\ new.want = req[r].want /\ new.rate = req[r].rate
            /\ new.sections = req[r].sections /\ new.lines = req[r].lines
            /\ new.goneSections = req[r].goneSections /\ new.goneLines = req[r].goneLines
            /\ new.seenSections = req[r].seenSections /\ new.seenLines = req[r].seenLines
  <1> DEFINE new == [req[r] EXCEPT !.pc = step]
  <1>1. req[r] \in Request
    BY DEF TypeOK
  <1>2. new \in Request
    BY <1>1 DEF Request
  <1>3. req' = [req EXCEPT ![r] = new]
    BY DEF Goto
  <1>4. req'[r] = new
    BY <1>3 DEF TypeOK
  <1> QED BY <1>1, <1>2, <1>3, <1>4 DEF Request

LEMMA Answered ==
  ASSUME TypeOK, NEW r \in Requests, Answer(r)
  PROVE  /\ IdleRequest \in Request /\ req' = [req EXCEPT ![r] = IdleRequest]
         /\ req'[r].op = "none" /\ req'[r].pc = "idle" /\ req'[r].sections = {}
         /\ IdleRequest.sections = {}
  BY IdleTyped DEF Answer, TypeOK, IdleRequest

\* An empty slot has nothing to answer for.
LEMMA EmptyFits ==
  ASSUME NEW r \in Requests, req'[r].op = "none", req'[r].pc = "idle", req'[r].sections = {},
         rowLock' # r
  PROVE  Fits(r)'
  BY DEF Fits, StepFits, LockFits, HoldsLock, SaveRewrites, RowsFit, CheckFits, ReadsFit, At

-----------------------------------------------------------------------------
(* The requests arrive. *)

\* Whoever is idle holds no lock.
LEMMA IdleUnlocked ==
  ASSUME FormInv, NEW r \in Requests, Idle(r)
  PROVE  rowLock # r /\ req[r].sections = {}
  <1>1. Fits(r)
    BY DEF FormInv
  <1> QED BY <1>1 DEF Fits, StepFits, LockFits, HoldsLock, SaveRewrites, RowsFit, Idle, At

LEMMA StartKeeps ==
  ASSUME FormInv, NEW r \in Requests, NEW new \in Request, Start(r, new),
         \/ new.op = "save" /\ new.pc = "lock"
         \/ new.op = "accept" /\ new.pc = "flip"
         \/ new.op = "edit" /\ new.pc = "update"
         \/ new.op = "status" /\ new.pc = "set_status",
         new.op = "save" => \E s \in Sections \cup {NoSection} :
            new.sections = {s} \cap Sections /\ new.lines = LinesOf(s),
         new.op # "save" => new.sections = {},
         \A s \in new.sections : IsFreeSection(s),
         new.op = "accept" => header.type = "QUOTE",
         new.op = "status" => new.want \in Settable(header.type, "DRAFT") \cup Settable(header.type, "SENT")
  PROVE  FormInv'
  <1>1. req' = [req EXCEPT ![r] = new] /\ UNCHANGED <<content, rowLock>> /\ Idle(r)
    BY DEF Start
  <1>2. req'[r] = new
    BY <1>1, Updated DEF FormInv, TypeOK
  <1>3. header' = header /\ sections' = sections /\ rowLock' = rowLock
    BY <1>1 DEF content
  <1>4. rowLock' # r
    BY <1>1, <1>3, IdleUnlocked
  <1>5. \A s \in new.sections : sections[s] = "none" /\ \A q \in Requests : s \notin req[q].sections
    BY DEF IsFreeSection
  <1>6. Fits(r)'
    <2>1. StepFits(r)'
      BY <1>2 DEF StepFits
    <2>2. LockFits(r)'
      BY <1>2, <1>4 DEF LockFits, HoldsLock, SaveRewrites, At
    <2>3. RowsFit(r)'
      BY <1>2, <1>3, <1>5 DEF RowsFit, LinesOf, Lines
    <2>4. CheckFits(r)'
      BY <1>2, <1>3 DEF CheckFits, SaveRewrites, At
    <2>5. ReadsFit(r)'
      BY <1>2 DEF ReadsFit, SaveRewrites, At
    <2> QED BY <2>1, <2>2, <2>3, <2>4, <2>5 DEF Fits
  <1> QED BY <1>1, <1>5, <1>6, OnlyItsSlot

LEMMA StartSaveKeeps ==
  ASSUME FormInv, NEW r \in Requests, StartSave(r)
  PROVE  FormInv'
  <1>1. CASE Start(r, Asks("save", "lock"))
    <2> DEFINE new == Asks("save", "lock")
    <2>1. new \in Request /\ new.op = "save" /\ new.pc = "lock" /\ new.sections = {} /\ new.lines = {}
      BY IdleTyped DEF Asks, IdleRequest, Request, Ops, Steps
    <2>2. {} = {NoSection} \cap Sections /\ LinesOf(NoSection) = {}
      BY ContentAssumption DEF LinesOf, Lines
    <2> HIDE DEF new
    <2>3. Start(r, new)
      BY <1>1 DEF new
    <2> QED BY <2>1, <2>2, <2>3, StartKeeps
  <1>2. ASSUME NEW s \in Sections, IsFreeSection(s),
               Start(r, [Asks("save", "lock") EXCEPT !.sections = {s}, !.lines = LinesOf(s)])
        PROVE  FormInv'
    <2> DEFINE new == [Asks("save", "lock") EXCEPT !.sections = {s}, !.lines = LinesOf(s)]
    <2>1. LinesOf(s) \in SUBSET Lines
      BY DEF LinesOf
    <2>2. new \in Request /\ new.op = "save" /\ new.pc = "lock" /\ new.sections = {s}
          /\ new.lines = LinesOf(s)
      BY <2>1, IdleTyped DEF Asks, IdleRequest, Request, Ops, Steps
    <2>3. {s} = {s} \cap Sections
      OBVIOUS
    <2> HIDE DEF new
    <2>4. Start(r, new)
      BY <1>2 DEF new
    <2> QED BY <1>2, <2>2, <2>3, <2>4, StartKeeps
  <1> QED BY <1>1, <1>2 DEF StartSave

LEMMA StartAcceptKeeps ==
  ASSUME FormInv, NEW r \in Requests, StartAccept(r)
  PROVE  FormInv'
  <1> DEFINE new == [Asks("accept", "flip") EXCEPT !.want = "ACCEPTED"]
  <1>1. new \in Request /\ new.op = "accept" /\ new.pc = "flip" /\ new.sections = {}
    BY IdleTyped DEF Asks, IdleRequest, Request, Ops, Steps, Statuses
  <1> HIDE DEF new
  <1>2. header.type = "QUOTE" /\ Start(r, new)
    BY DEF StartAccept, new
  <1> QED BY <1>1, <1>2, StartKeeps

LEMMA StartEditKeeps ==
  ASSUME FormInv, NEW r \in Requests, NEW rate \in Rates, StartEdit(r, rate)
  PROVE  FormInv'
  <1> DEFINE new == [Asks("edit", "update") EXCEPT !.rate = rate]
  <1>1. new \in Request /\ new.op = "edit" /\ new.pc = "update" /\ new.sections = {}
    BY IdleTyped DEF Asks, IdleRequest, Request, Ops, Steps
  <1> HIDE DEF new
  <1>2. Start(r, new)
    BY DEF StartEdit, new
  <1> QED BY <1>1, <1>2, StartKeeps

\* Only the statuses of a draft, and of a document sent, can be set.
LEMMA SettableFrom ==
  ASSUME NEW type, NEW status, NEW to \in Settable(type, status)
  PROVE  /\ to \in Settable(type, "DRAFT") \cup Settable(type, "SENT")
         /\ to \in Statuses /\ to # "ACCEPTED"
  BY DEF Settable, Statuses

LEMMA StartStatusKeeps ==
  ASSUME FormInv, NEW r \in Requests, NEW status \in Statuses, StartStatus(r, status)
  PROVE  FormInv'
  <1> DEFINE new == [Asks("status", "set_status") EXCEPT !.want = status]
  <1>1. new \in Request /\ new.op = "status" /\ new.pc = "set_status" /\ new.sections = {}
        /\ new.want = status
    BY IdleTyped DEF Asks, IdleRequest, Request, Ops, Steps
  <1>2. status \in Settable(header.type, "DRAFT") \cup Settable(header.type, "SENT")
    BY SettableFrom DEF StartStatus
  <1> HIDE DEF new
  <1>3. Start(r, new)
    BY DEF StartStatus, new
  <1> QED BY <1>1, <1>2, <1>3, StartKeeps

-----------------------------------------------------------------------------
(* The content save. *)

LEMMA LockDocumentKeeps ==
  ASSUME FormInv, NEW r \in Requests, LockDocument(r)
  PROVE  FormInv'
  <1>1. At(r, "lock") /\ Unlocked /\ rowLock' = r /\ Goto(r, "check") /\ UNCHANGED content
    BY DEF LockDocument
  <1>2. TypeOK /\ HeaderFits /\ ChantierMatchesQuote /\ Apart /\ \A q \in Requests : Fits(q)
    BY DEF FormInv
  <1>3. PICK new \in Request :
            /\ req' = [req EXCEPT ![r] = new] /\ req'[r] = new
            /\ new.pc = "check" /\ new.op = req[r].op
            /\ new.sections = req[r].sections /\ new.lines = req[r].lines
    BY <1>1, <1>2, Gone DEF Steps
  <1>4. req[r].op = "save" /\ req[r].pc = "lock"
    BY <1>1, <1>2 DEF Fits, StepFits, At
  <1>5. header' = header /\ project' = project /\ sections' = sections /\ lines' = lines
        /\ chantier' = chantier
    BY <1>1 DEF content
  <1>6. ContentTypeOK' /\ HeaderFits' /\ ChantierMatchesQuote'
    BY <1>2, <1>5 DEF TypeOK, ContentTypeOK, HeaderFits, ChantierMatchesQuote, ActiveLines
  <1>7. Fits(r)'
    <2>1. StepFits(r)' BY <1>3, <1>4 DEF StepFits
    <2>2. LockFits(r)' BY <1>1, <1>3, <1>4 DEF LockFits, HoldsLock, At
    <2>3. RowsFit(r)' BY <1>2, <1>3, <1>4, <1>5 DEF Fits, RowsFit, LinesOf, Lines
    <2>4. CheckFits(r)' BY <1>3, <1>4 DEF CheckFits, SaveRewrites, At
    <2>5. ReadsFit(r)' BY <1>3, <1>4 DEF ReadsFit, SaveRewrites, At
    <2> QED BY <2>1, <2>2, <2>3, <2>4, <2>5 DEF Fits
  <1>8. \A q \in Requests \ {r} :
            /\ rowLock # q /\ rowLock' # q
            /\ \A s \in req[q].sections : sections'[s] = "none" /\ s \notin new.sections
    BY <1>1, <1>2, <1>3, <1>5, WorkloadAssumption DEF Unlocked, Fits, RowsFit, Apart
  <1> QED BY <1>1, <1>3, <1>5, <1>6, <1>7, <1>8, OneMoves

\* Inside its transaction a save goes from one step to the next.
LEMMA CheckEditableKeeps ==
  ASSUME FormInv, NEW r \in Requests, CheckEditable(r)
  PROVE  FormInv'
  <1> DEFINE step == IF Editable THEN "archive_lines" ELSE "rollback"
  <1>1. At(r, "check") /\ Goto(r, step) /\ UNCHANGED <<content, rowLock>>
    BY DEF CheckEditable
  <1>2. TypeOK /\ Fits(r)
    BY DEF FormInv
  <1>3. step \in {"archive_lines", "rollback"} /\ (step = "archive_lines" => Editable)
    OBVIOUS
  <1> HIDE DEF step
  <1>4. PICK new \in Request :
            /\ req' = [req EXCEPT ![r] = new] /\ req'[r] = new
            /\ new.pc = step /\ new.op = req[r].op
            /\ new.sections = req[r].sections /\ new.lines = req[r].lines
    BY <1>1, <1>2, <1>3, Gone DEF Steps
  <1>5. req[r].op = "save" /\ rowLock = r
    BY <1>1, <1>2 DEF Fits, StepFits, LockFits, HoldsLock, At
  <1>6. header' = header /\ sections' = sections /\ rowLock' = rowLock
    BY <1>1 DEF content
  <1>7. Fits(r)'
    <2>1. StepFits(r)' BY <1>3, <1>4, <1>5 DEF StepFits
    <2>2. LockFits(r)' BY <1>3, <1>4, <1>5, <1>6 DEF LockFits, HoldsLock, At
    <2>3. RowsFit(r)' BY <1>2, <1>4, <1>5, <1>6 DEF Fits, RowsFit, LinesOf, Lines
    <2>4. CheckFits(r)' BY <1>3, <1>4, <1>5, <1>6 DEF CheckFits, SaveRewrites, At, Editable
    <2>5. ReadsFit(r)' BY <1>3, <1>4, <1>5 DEF ReadsFit, SaveRewrites, At
    <2> QED BY <2>1, <2>2, <2>3, <2>4, <2>5 DEF Fits
  <1> QED BY <1>1, <1>4, <1>7, SameRows

LEMMA ArchiveLinesKeeps ==
  ASSUME FormInv, NEW r \in Requests, ArchiveLines(r)
  PROVE  FormInv'
  <1> DEFINE new == [req[r] EXCEPT !.pc = "insert", !.goneLines = ActiveLines]
  <1>1. At(r, "archive_lines") /\ UNCHANGED <<content, rowLock>>
        /\ req' = [req EXCEPT ![r] = new]
    BY DEF ArchiveLines
  <1>2. TypeOK /\ Fits(r) /\ req[r] \in Request
    BY DEF FormInv, TypeOK
  <1>3. ActiveLines \in SUBSET Lines
    BY <1>2 DEF TypeOK, ContentTypeOK, ActiveLines, Active
  <1>4. /\ new \in Request /\ new.pc = "insert" /\ new.op = req[r].op
        /\ new.sections = req[r].sections /\ new.lines = req[r].lines
        /\ new.goneLines = ActiveLines
    BY <1>2, <1>3 DEF Request, Steps
  <1> HIDE DEF new
  <1>5. req'[r] = new
    BY <1>1, <1>2, <1>4, Updated DEF TypeOK
  <1>6. req[r].op = "save" /\ rowLock = r
        /\ (header.type = "PROJECT" \/ OpenForEditing(header.type, header.status))
    BY <1>1, <1>2 DEF Fits, StepFits, LockFits, HoldsLock, CheckFits, At
  <1>7. header' = header /\ sections' = sections /\ rowLock' = rowLock /\ ActiveLines' = ActiveLines
    BY <1>1 DEF content, ActiveLines
  <1>8. Fits(r)'
    <2>1. StepFits(r)' BY <1>4, <1>5, <1>6 DEF StepFits
    <2>2. LockFits(r)' BY <1>4, <1>5, <1>6, <1>7 DEF LockFits, HoldsLock, SaveRewrites, At
    <2>3. RowsFit(r)' BY <1>2, <1>4, <1>5, <1>6, <1>7 DEF Fits, RowsFit, LinesOf, Lines
    <2>4. CheckFits(r)' BY <1>4, <1>5, <1>6, <1>7 DEF CheckFits, SaveRewrites, At
    <2>5. ReadsFit(r)' BY <1>4, <1>5, <1>6, <1>7 DEF ReadsFit, SaveRewrites, At
    <2> QED BY <2>1, <2>2, <2>3, <2>4, <2>5 DEF Fits
  <1> QED BY <1>1, <1>4, <1>8, SameRows

LEMMA InsertContentKeeps ==
  ASSUME FormInv, NEW r \in Requests, InsertContent(r)
  PROVE  FormInv'
  <1> DEFINE new == [req[r] EXCEPT !.pc = "recompute", !.goneSections = Active(sections)]
  <1>1. At(r, "insert") /\ UNCHANGED <<content, rowLock>>
        /\ req' = [req EXCEPT ![r] = new]
    BY DEF InsertContent
  <1>2. TypeOK /\ Fits(r) /\ req[r] \in Request
    BY DEF FormInv, TypeOK
  <1>3. Active(sections) \in SUBSET Sections
    BY <1>2 DEF TypeOK, ContentTypeOK, Active
  <1>4. /\ new \in Request /\ new.pc = "recompute" /\ new.op = req[r].op
        /\ new.sections = req[r].sections /\ new.lines = req[r].lines
        /\ new.goneLines = req[r].goneLines /\ new.goneSections = Active(sections)
    BY <1>2, <1>3 DEF Request, Steps
  <1> HIDE DEF new
  <1>5. req'[r] = new
    BY <1>1, <1>2, <1>4, Updated DEF TypeOK
  <1>6. req[r].op = "save" /\ rowLock = r /\ req[r].goneLines = ActiveLines
        /\ (header.type = "PROJECT" \/ OpenForEditing(header.type, header.status))
    BY <1>1, <1>2 DEF Fits, StepFits, LockFits, HoldsLock, CheckFits, ReadsFit, SaveRewrites, At
  <1>7. header' = header /\ sections' = sections /\ rowLock' = rowLock /\ ActiveLines' = ActiveLines
    BY <1>1 DEF content, ActiveLines
  <1>8. Fits(r)'
    <2>1. StepFits(r)' BY <1>4, <1>5, <1>6 DEF StepFits
    <2>2. LockFits(r)' BY <1>4, <1>5, <1>6, <1>7 DEF LockFits, HoldsLock, SaveRewrites, At
    <2>3. RowsFit(r)' BY <1>2, <1>4, <1>5, <1>6, <1>7 DEF Fits, RowsFit, LinesOf, Lines
    <2>4. CheckFits(r)' BY <1>4, <1>5, <1>6, <1>7 DEF CheckFits, SaveRewrites, At
    <2>5. ReadsFit(r)' BY <1>4, <1>5, <1>6, <1>7 DEF ReadsFit, SaveRewrites, At
    <2> QED BY <2>1, <2>2, <2>3, <2>4, <2>5 DEF Fits
  <1> QED BY <1>1, <1>4, <1>8, SameRows

-----------------------------------------------------------------------------
(* recomputeDocumentTotalsServ: of a save, or of a header edit. *)

LEMMA ReadRateKeeps ==
  ASSUME FormInv, NEW r \in Requests, ReadRate(r)
  PROVE  FormInv'
  <1> DEFINE new == [req[r] EXCEPT !.pc = "sum", !.rate = header.rate]
  <1>1. At(r, "recompute") /\ UNCHANGED <<content, rowLock>>
        /\ req' = [req EXCEPT ![r] = new]
    BY DEF ReadRate
  <1>2. TypeOK /\ Fits(r) /\ req[r] \in Request
    BY DEF FormInv, TypeOK
  <1>3. header.rate \in Rates
    BY <1>2 DEF TypeOK, ContentTypeOK, Header
  <1>4. /\ new \in Request /\ new.pc = "sum" /\ new.op = req[r].op
        /\ new.sections = req[r].sections /\ new.lines = req[r].lines
        /\ new.goneLines = req[r].goneLines /\ new.goneSections = req[r].goneSections
        /\ new.rate = header.rate
    BY <1>2, <1>3 DEF Request, Steps
  <1> HIDE DEF new
  <1>5. req'[r] = new
    BY <1>1, <1>2, <1>4, Updated DEF TypeOK
  <1>6. /\ req[r].op \in {"save", "edit"}
        /\ req[r].op = "save" =>
             /\ rowLock = r /\ req[r].goneLines = ActiveLines /\ req[r].goneSections = Active(sections)
             /\ (header.type = "PROJECT" \/ OpenForEditing(header.type, header.status))
        /\ req[r].op = "edit" => rowLock # r
    BY <1>1, <1>2 DEF Fits, StepFits, LockFits, HoldsLock, CheckFits, ReadsFit, SaveRewrites, At
  <1>7. header' = header /\ sections' = sections /\ rowLock' = rowLock /\ ActiveLines' = ActiveLines
    BY <1>1 DEF content, ActiveLines
  <1>8. Fits(r)'
    <2>1. StepFits(r)' BY <1>4, <1>5, <1>6 DEF StepFits
    <2>2. LockFits(r)' BY <1>4, <1>5, <1>6, <1>7 DEF LockFits, HoldsLock, SaveRewrites, At
    <2>3. RowsFit(r)' BY <1>2, <1>4, <1>5, <1>6, <1>7 DEF Fits, RowsFit, LinesOf, Lines
    <2>4. CheckFits(r)' BY <1>4, <1>5, <1>6, <1>7 DEF CheckFits, SaveRewrites, At
    <2>5. ReadsFit(r)' BY <1>4, <1>5, <1>6, <1>7 DEF ReadsFit, SaveRewrites, At
    <2> QED BY <2>1, <2>2, <2>3, <2>4, <2>5 DEF Fits
  <1> QED BY <1>1, <1>4, <1>8, SameRows

LEMMA ReadLinesKeeps ==
  ASSUME FormInv, NEW r \in Requests, ReadLines(r)
  PROVE  FormInv'
  <1> DEFINE new == [req[r] EXCEPT !.pc = "total", !.seenLines = VisibleLines(r)]
  <1>1. At(r, "sum") /\ UNCHANGED <<content, rowLock>>
        /\ req' = [req EXCEPT ![r] = new]
    BY DEF ReadLines
  <1>2. TypeOK /\ Fits(r) /\ req[r] \in Request
    BY DEF FormInv, TypeOK
  <1>3. VisibleLines(r) \in SUBSET Lines
    BY <1>2 DEF TypeOK, ContentTypeOK, VisibleLines, ActiveLines, Active, Request
  <1>4. /\ new \in Request /\ new.pc = "total" /\ new.op = req[r].op
        /\ new.sections = req[r].sections /\ new.lines = req[r].lines
        /\ new.goneLines = req[r].goneLines /\ new.goneSections = req[r].goneSections
        /\ new.rate = req[r].rate /\ new.seenLines = VisibleLines(r)
    BY <1>2, <1>3 DEF Request, Steps
  <1> HIDE DEF new
  <1>5. req'[r] = new
    BY <1>1, <1>2, <1>4, Updated DEF TypeOK
  <1>6. /\ req[r].op \in {"save", "edit"}
        /\ req[r].op = "save" =>
             /\ rowLock = r /\ req[r].goneLines = ActiveLines /\ req[r].goneSections = Active(sections)
             /\ req[r].rate = header.rate
             /\ (header.type = "PROJECT" \/ OpenForEditing(header.type, header.status))
        /\ req[r].op = "edit" => rowLock # r
    BY <1>1, <1>2 DEF Fits, StepFits, LockFits, HoldsLock, CheckFits, ReadsFit, SaveRewrites, At
  <1>7. req[r].op = "save" => VisibleLines(r) = req[r].lines
    BY <1>6 DEF VisibleLines
  <1>8. header' = header /\ sections' = sections /\ rowLock' = rowLock /\ ActiveLines' = ActiveLines
    BY <1>1 DEF content, ActiveLines
  <1>9. Fits(r)'
    <2>1. StepFits(r)' BY <1>4, <1>5, <1>6 DEF StepFits
    <2>2. LockFits(r)' BY <1>4, <1>5, <1>6, <1>8 DEF LockFits, HoldsLock, SaveRewrites, At
    <2>3. RowsFit(r)' BY <1>2, <1>4, <1>5, <1>6, <1>8 DEF Fits, RowsFit, LinesOf, Lines
    <2>4. CheckFits(r)' BY <1>4, <1>5, <1>6, <1>8 DEF CheckFits, SaveRewrites, At
    <2>5. ReadsFit(r)' BY <1>4, <1>5, <1>6, <1>7, <1>8 DEF ReadsFit, SaveRewrites, At
    <2> QED BY <2>1, <2>2, <2>3, <2>4, <2>5 DEF Fits
  <1> QED BY <1>1, <1>4, <1>9, SameRows

LEMMA WriteTotalsKeeps ==
  ASSUME FormInv, NEW r \in Requests, WriteTotals(r)
  PROVE  FormInv'
  <1>1. At(r, "total") /\ UNCHANGED <<project, sections, lines, chantier, rowLock>>
    BY DEF WriteTotals
  <1>2. TypeOK /\ HeaderFits /\ ChantierMatchesQuote /\ Apart /\ \A q \in Requests : Fits(q)
    BY DEF FormInv
  <1>3. req[r].op \in {"save", "edit"}
    BY <1>1, <1>2 DEF Fits, StepFits, At
  <1>4. CASE req[r].op = "save"
    <2>1. Goto(r, "commit") /\ UNCHANGED <<content, rowLock>>
      BY <1>1, <1>4 DEF WriteTotals, InTransaction, content
    <2>2. PICK new \in Request :
            /\ req' = [req EXCEPT ![r] = new] /\ req'[r] = new
            /\ new.pc = "commit" /\ new.op = req[r].op /\ new.rate = req[r].rate
            /\ new.sections = req[r].sections /\ new.lines = req[r].lines
            /\ new.goneSections = req[r].goneSections /\ new.goneLines = req[r].goneLines
            /\ new.seenLines = req[r].seenLines
      BY <1>2, <2>1, Gone DEF Steps
    <2>3. /\ rowLock = r /\ req[r].goneLines = ActiveLines /\ req[r].goneSections = Active(sections)
          /\ req[r].rate = header.rate /\ req[r].seenLines = req[r].lines
          /\ (header.type = "PROJECT" \/ OpenForEditing(header.type, header.status))
      BY <1>1, <1>2, <1>4 DEF Fits, StepFits, LockFits, HoldsLock, CheckFits, ReadsFit, SaveRewrites, At
    <2>4. header' = header /\ sections' = sections /\ rowLock' = rowLock /\ ActiveLines' = ActiveLines
      BY <2>1 DEF content, ActiveLines
    <2>5. Fits(r)'
      <3>1. StepFits(r)' BY <1>4, <2>2 DEF StepFits
      <3>2. LockFits(r)' BY <1>4, <2>2, <2>3, <2>4 DEF LockFits, HoldsLock, SaveRewrites, At
      <3>3. RowsFit(r)' BY <1>2, <1>4, <2>2, <2>4 DEF Fits, RowsFit, LinesOf, Lines
      <3>4. CheckFits(r)' BY <1>4, <2>2, <2>3, <2>4 DEF CheckFits, SaveRewrites, At
      <3>5. ReadsFit(r)' BY <1>4, <2>2, <2>3, <2>4 DEF ReadsFit, SaveRewrites, At
      <3> QED BY <3>1, <3>2, <3>3, <3>4, <3>5 DEF Fits
    <2> QED BY <2>1, <2>2, <2>5, SameRows
  <1>5. CASE req[r].op = "edit"
    <2>1. Unlocked /\ header' = [header EXCEPT !.totals = ReadTotals(r)] /\ Answer(r)
      BY <1>1, <1>5 DEF WriteTotals, InTransaction
    <2>2. /\ IdleRequest \in Request /\ req' = [req EXCEPT ![r] = IdleRequest]
          /\ req'[r].op = "none" /\ req'[r].pc = "idle" /\ req'[r].sections = {}
          /\ IdleRequest.sections = {}
      BY <1>2, <2>1, Answered
    <2>3. header \in Header /\ req[r] \in Request
      BY <1>2 DEF TypeOK, ContentTypeOK
    <2>4. ReadTotals(r) \in Totals
      BY <2>3 DEF Request, ReadTotals, Totals
    <2>5. header' \in Header /\ header'.type = header.type /\ header'.status = header.status
      BY <2>1, <2>3, <2>4 DEF Header
    <2>6. ContentTypeOK'
      BY <1>1, <1>2, <2>5 DEF TypeOK, ContentTypeOK
    <2>7. HeaderFits' /\ ChantierMatchesQuote'
      BY <1>1, <1>2, <2>5 DEF HeaderFits, ChantierMatchesQuote, ActiveLines
    <2>8. rowLock = Nobody /\ rowLock' = Nobody /\ Nobody \notin Requests /\ sections' = sections
      BY <1>1, <2>1, WorkloadAssumption DEF Unlocked
    <2>9. Fits(r)'
      BY <2>2, <2>8, EmptyFits
    <2>10. \A q \in Requests : \A s \in req[q].sections : sections'[s] = "none"
      BY <1>2, <2>8 DEF Fits, RowsFit
    <2>11. \A q \in Requests \ {r} :
            /\ rowLock # q /\ rowLock' # q
            /\ \A s \in req[q].sections : sections'[s] = "none" /\ s \notin IdleRequest.sections
      BY <2>2, <2>8, <2>10
    <2> QED BY <2>2, <2>5, <2>6, <2>7, <2>8, <2>9, <2>11, OneMoves
  <1> QED BY <1>3, <1>4, <1>5

-----------------------------------------------------------------------------
(* The acceptance. *)

LEMMA FlipToAcceptedKeeps ==
  ASSUME FormInv, NEW r \in Requests, FlipToAccepted(r)
  PROVE  FormInv'
  <1>1. /\ At(r, "flip") /\ Unlocked /\ rowLock' = r /\ Goto(r, "copy_sections") /\ UNCHANGED content
        /\ header.status \in {"DRAFT", "SENT"} /\ header.active
    BY DEF FlipToAccepted
  <1>2. TypeOK /\ HeaderFits /\ ChantierMatchesQuote /\ Apart /\ \A q \in Requests : Fits(q)
    BY DEF FormInv
  <1>3. PICK new \in Request :
            /\ req' = [req EXCEPT ![r] = new] /\ req'[r] = new
            /\ new.pc = "copy_sections" /\ new.op = req[r].op
            /\ new.sections = req[r].sections /\ new.lines = req[r].lines
    BY <1>1, <1>2, Gone DEF Steps
  <1>4. req[r].op = "accept" /\ header.type = "QUOTE"
    BY <1>1, <1>2 DEF Fits, StepFits, CheckFits, At
  <1>5. header' = header /\ project' = project /\ sections' = sections /\ lines' = lines
        /\ chantier' = chantier
    BY <1>1 DEF content
  <1>6. ContentTypeOK' /\ HeaderFits' /\ ChantierMatchesQuote'
    BY <1>2, <1>5 DEF TypeOK, ContentTypeOK, HeaderFits, ChantierMatchesQuote, ActiveLines
  <1>7. Fits(r)'
    <2>1. StepFits(r)' BY <1>3, <1>4 DEF StepFits
    <2>2. LockFits(r)' BY <1>1, <1>3, <1>4 DEF LockFits, HoldsLock, At
    <2>3. RowsFit(r)' BY <1>2, <1>3, <1>4, <1>5 DEF Fits, RowsFit, LinesOf, Lines
    <2>4. CheckFits(r)' BY <1>1, <1>3, <1>4, <1>5 DEF CheckFits, SaveRewrites, At
    <2>5. ReadsFit(r)' BY <1>3, <1>4 DEF ReadsFit, SaveRewrites, At
    <2> QED BY <2>1, <2>2, <2>3, <2>4, <2>5 DEF Fits
  <1>8. \A q \in Requests \ {r} :
            /\ rowLock # q /\ rowLock' # q
            /\ \A s \in req[q].sections : sections'[s] = "none" /\ s \notin new.sections
    BY <1>1, <1>2, <1>3, <1>5, WorkloadAssumption DEF Unlocked, Fits, RowsFit, Apart
  <1> QED BY <1>1, <1>3, <1>5, <1>6, <1>7, <1>8, OneMoves

\* A transaction that goes to its ROLLBACK keeps the lock it has.
LEMMA ToRollbackKeeps ==
  ASSUME FormInv, NEW r \in Requests, req[r].op \in {"save", "accept"}, Goto(r, "rollback"),
         UNCHANGED <<content, rowLock>>
  PROVE  FormInv'
  <1>1. TypeOK /\ Fits(r)
    BY DEF FormInv
  <1>2. PICK new \in Request :
            /\ req' = [req EXCEPT ![r] = new] /\ req'[r] = new
            /\ new.pc = "rollback" /\ new.op = req[r].op
            /\ new.sections = req[r].sections /\ new.lines = req[r].lines
    BY <1>1, Gone DEF Steps
  <1>3. header' = header /\ sections' = sections
    BY DEF content
  <1>4. Fits(r)'
    <2>1. StepFits(r)' BY <1>2 DEF StepFits
    <2>2. LockFits(r)' BY <1>2 DEF LockFits, HoldsLock, SaveRewrites, At
    <2>3. RowsFit(r)' BY <1>1, <1>2, <1>3 DEF Fits, RowsFit, LinesOf, Lines
    <2>4. CheckFits(r)' BY <1>1, <1>2, <1>3 DEF Fits, CheckFits, SaveRewrites, At
    <2>5. ReadsFit(r)' BY <1>2 DEF ReadsFit, SaveRewrites, At
    <2> QED BY <2>1, <2>2, <2>3, <2>4, <2>5 DEF Fits
  <1> QED BY <1>2, <1>4, SameRows

LEMMA RefuseAcceptKeeps ==
  ASSUME FormInv, NEW r \in Requests, RefuseAccept(r)
  PROVE  FormInv'
  <1>1. req[r].op = "accept"
    BY DEF RefuseAccept, FormInv, Fits, StepFits, At
  <1> QED BY <1>1, ToRollbackKeeps DEF RefuseAccept

LEMMA CopySectionsKeeps ==
  ASSUME FormInv, NEW r \in Requests, CopySections(r)
  PROVE  FormInv'
  <1> DEFINE new == [req[r] EXCEPT !.pc = "copy_lines", !.seenSections = Active(sections)]
  <1>1. At(r, "copy_sections") /\ UNCHANGED <<content, rowLock>>
        /\ req' = [req EXCEPT ![r] = new]
    BY DEF CopySections
  <1>2. TypeOK /\ Fits(r) /\ req[r] \in Request
    BY DEF FormInv, TypeOK
  <1>3. Active(sections) \in SUBSET Sections
    BY <1>2 DEF TypeOK, ContentTypeOK, Active
  <1>4. /\ new \in Request /\ new.pc = "copy_lines" /\ new.op = req[r].op
        /\ new.sections = req[r].sections /\ new.lines = req[r].lines
        /\ new.seenSections = Active(sections)
    BY <1>2, <1>3 DEF Request, Steps
  <1> HIDE DEF new
  <1>5. req'[r] = new
    BY <1>1, <1>2, <1>4, Updated DEF TypeOK
  <1>6. req[r].op = "accept" /\ rowLock = r /\ header.type = "QUOTE"
        /\ header.status \in {"DRAFT", "SENT"} /\ header.active
    BY <1>1, <1>2 DEF Fits, StepFits, LockFits, HoldsLock, CheckFits, At
  <1>7. header' = header /\ sections' = sections /\ rowLock' = rowLock /\ ActiveLines' = ActiveLines
    BY <1>1 DEF content, ActiveLines
  <1>8. Fits(r)'
    <2>1. StepFits(r)' BY <1>4, <1>5, <1>6 DEF StepFits
    <2>2. LockFits(r)' BY <1>4, <1>5, <1>6, <1>7 DEF LockFits, HoldsLock, SaveRewrites, At
    <2>3. RowsFit(r)' BY <1>2, <1>4, <1>5, <1>6, <1>7 DEF Fits, RowsFit, LinesOf, Lines
    <2>4. CheckFits(r)' BY <1>4, <1>5, <1>6, <1>7 DEF CheckFits, SaveRewrites, At
    <2>5. ReadsFit(r)' BY <1>4, <1>5, <1>6, <1>7 DEF ReadsFit, SaveRewrites, At
    <2> QED BY <2>1, <2>2, <2>3, <2>4, <2>5 DEF Fits
  <1> QED BY <1>1, <1>4, <1>8, SameRows

LEMMA CopyLinesKeeps ==
  ASSUME FormInv, NEW r \in Requests, CopyLines(r)
  PROVE  FormInv'
  <1> DEFINE new == [req[r] EXCEPT !.pc = "commit", !.seenLines = ActiveLines]
  <1>1. At(r, "copy_lines") /\ UNCHANGED <<content, rowLock>>
        /\ req' = [req EXCEPT ![r] = new]
    BY DEF CopyLines
  <1>2. TypeOK /\ Fits(r) /\ req[r] \in Request
    BY DEF FormInv, TypeOK
  <1>3. ActiveLines \in SUBSET Lines
    BY <1>2 DEF TypeOK, ContentTypeOK, ActiveLines, Active
  <1>4. /\ new \in Request /\ new.pc = "commit" /\ new.op = req[r].op
        /\ new.sections = req[r].sections /\ new.lines = req[r].lines
        /\ new.seenSections = req[r].seenSections /\ new.seenLines = ActiveLines
    BY <1>2, <1>3 DEF Request, Steps
  <1> HIDE DEF new
  <1>5. req'[r] = new
    BY <1>1, <1>2, <1>4, Updated DEF TypeOK
  <1>6. req[r].op = "accept" /\ rowLock = r /\ header.type = "QUOTE"
        /\ header.status \in {"DRAFT", "SENT"} /\ header.active
        /\ req[r].seenSections = Active(sections)
    BY <1>1, <1>2 DEF Fits, StepFits, LockFits, HoldsLock, CheckFits, ReadsFit, At
  <1>7. header' = header /\ sections' = sections /\ rowLock' = rowLock /\ ActiveLines' = ActiveLines
    BY <1>1 DEF content, ActiveLines
  <1>8. Fits(r)'
    <2>1. StepFits(r)' BY <1>4, <1>5, <1>6 DEF StepFits
    <2>2. LockFits(r)' BY <1>4, <1>5, <1>6, <1>7 DEF LockFits, HoldsLock, SaveRewrites, At
    <2>3. RowsFit(r)' BY <1>2, <1>4, <1>5, <1>6, <1>7 DEF Fits, RowsFit, LinesOf, Lines
    <2>4. CheckFits(r)' BY <1>4, <1>5, <1>6, <1>7 DEF CheckFits, SaveRewrites, At
    <2>5. ReadsFit(r)' BY <1>4, <1>5, <1>6, <1>7 DEF ReadsFit, SaveRewrites, At
    <2> QED BY <2>1, <2>2, <2>3, <2>4, <2>5 DEF Fits
  <1> QED BY <1>1, <1>4, <1>8, SameRows

-----------------------------------------------------------------------------
(* The end of a request. *)

LEMMA AnswerKeeps ==
  ASSUME FormInv, NEW r \in Requests, Answer(r),
         ContentTypeOK', rowLock' \in Requests \cup {Nobody}, rowLock' # r,
         header'.type = header.type, HeaderFits', ChantierMatchesQuote',
         \A q \in Requests \ {r} :
            /\ rowLock = q => /\ rowLock' = q
                              /\ sections' = sections /\ lines' = lines
                              /\ header'.rate = header.rate /\ header'.status = header.status
                              /\ header'.active = header.active
            /\ rowLock' = q => rowLock = q
            /\ \A s \in req[q].sections : sections'[s] = "none"
  PROVE  FormInv'
  <1>1. /\ IdleRequest \in Request /\ req' = [req EXCEPT ![r] = IdleRequest]
        /\ req'[r].op = "none" /\ req'[r].pc = "idle" /\ req'[r].sections = {}
        /\ IdleRequest.sections = {}
    BY Answered DEF FormInv
  <1>2. Fits(r)'
    BY <1>1, EmptyFits
  <1> QED BY <1>1, <1>2, OneMoves

\* What another request brings stays unseen.
LEMMA StillNew ==
  ASSUME FormInv, sections' = sections
  PROVE  \A q \in Requests : \A s \in req[q].sections : sections'[s] = "none"
  BY DEF FormInv, Fits, RowsFit

LEMMA QuietAnswerKeeps ==
  ASSUME FormInv, NEW r \in Requests, Answer(r), UNCHANGED <<content, rowLock>>, rowLock # r
  PROVE  FormInv'
  <1>1. header' = header /\ project' = project /\ sections' = sections /\ lines' = lines
        /\ chantier' = chantier /\ rowLock' = rowLock
    BY DEF content
  <1>2. ContentTypeOK' /\ HeaderFits' /\ ChantierMatchesQuote' /\ rowLock' \in Requests \cup {Nobody}
    BY <1>1 DEF FormInv, TypeOK, ContentTypeOK, HeaderFits, ChantierMatchesQuote, ActiveLines
  <1> QED BY <1>1, <1>2, StillNew, AnswerKeeps

\* A committed save: its rows and none of the ones before.
LEMMA CommitSaveKeeps ==
  ASSUME FormInv, NEW r \in Requests, req[r].op = "save", Commit(r)
  PROVE  FormInv'
  <1>1. At(r, "commit") /\ CommitSave(r) /\ rowLock' = Nobody /\ Answer(r) /\ project' = project
    BY DEF Commit
  <1>2. /\ sections' = [s \in Sections |->
                      IF s \in req[r].sections THEN "active"
                      ELSE IF s \in req[r].goneSections THEN "archived" ELSE sections[s]]
        /\ lines' = [l \in Lines |->
                   IF l \in req[r].lines THEN "active"
                   ELSE IF l \in req[r].goneLines THEN "archived" ELSE lines[l]]
        /\ header' = [header EXCEPT !.totals = ReadTotals(r)]
        /\ chantier' = chantier
    BY <1>1 DEF CommitSave
  <1>3. TypeOK /\ HeaderFits /\ ChantierMatchesQuote /\ Apart /\ \A q \in Requests : Fits(q)
    BY DEF FormInv
  <1>4. rowLock = r /\ req[r].goneSections = Active(sections)
        /\ (header.type = "PROJECT" \/ OpenForEditing(header.type, header.status))
    BY <1>1, <1>3 DEF Fits, LockFits, HoldsLock, CheckFits, ReadsFit, At
  <1>5. header \in Header /\ req[r] \in Request /\ sections \in [Sections -> RowState]
        /\ lines \in [Lines -> RowState]
    BY <1>3 DEF TypeOK, ContentTypeOK
  <1>6. ReadTotals(r) \in Totals
    BY <1>5 DEF Request, ReadTotals, Totals
  <1>7. header' \in Header /\ header'.type = header.type /\ header'.status = header.status
    BY <1>2, <1>5, <1>6 DEF Header
  <1>8. sections' \in [Sections -> RowState] /\ lines' \in [Lines -> RowState]
    BY <1>2, <1>5 DEF RowState
  <1>9. ContentTypeOK'
    BY <1>1, <1>2, <1>3, <1>7, <1>8 DEF TypeOK, ContentTypeOK
  <1>10. header.status # "ACCEPTED"
    BY <1>3, <1>4 DEF HeaderFits, OpenForEditing
  <1>11. HeaderFits' /\ ChantierMatchesQuote'
    BY <1>3, <1>7, <1>10 DEF HeaderFits, ChantierMatchesQuote
  <1>12. ASSUME NEW q \in Requests \ {r}, NEW s \in req[q].sections PROVE sections'[s] = "none"
    <2>1. sections[s] = "none" /\ s \notin req[r].sections
      BY <1>3 DEF Fits, RowsFit, Apart
    <2>2. s \in Sections
      BY <1>3 DEF TypeOK, Request
    <2>3. s \notin req[r].goneSections
      BY <1>4, <2>1 DEF Active
    <2> QED BY <1>2, <2>1, <2>2, <2>3
  <1>13. Nobody \notin Requests
    BY WorkloadAssumption
  <1> QED BY <1>1, <1>4, <1>7, <1>9, <1>11, <1>12, <1>13, AnswerKeeps

LEMMA CommitAcceptKeeps ==
  ASSUME FormInv, NEW r \in Requests, req[r].op # "save", Commit(r)
  PROVE  FormInv'
  <1>1. At(r, "commit") /\ CommitAccept(r) /\ rowLock' = Nobody /\ Answer(r) /\ project' = project
    BY DEF Commit
  <1>2. /\ header' = [header EXCEPT !.status = "ACCEPTED"]
        /\ chantier' = CopiedLines(req[r].seenSections, req[r].seenLines)
        /\ sections' = sections /\ lines' = lines
    BY <1>1 DEF CommitAccept
  <1>3. TypeOK /\ HeaderFits /\ \A q \in Requests : Fits(q)
    BY DEF FormInv
  <1>4. req[r].op = "accept"
    BY <1>1, <1>3 DEF Fits, StepFits, At
  <1>5. /\ rowLock = r /\ req[r].seenSections = Active(sections) /\ req[r].seenLines = ActiveLines
        /\ header.type = "QUOTE"
    BY <1>1, <1>3, <1>4 DEF Fits, LockFits, HoldsLock, CheckFits, ReadsFit, At
  <1>6. header \in Header
    BY <1>3 DEF TypeOK, ContentTypeOK
  <1>7. header' \in Header /\ header'.type = header.type /\ header'.status = "ACCEPTED"
    BY <1>2, <1>6 DEF Header, Statuses
  <1>8. chantier' = CopiedLines(Active(sections), ActiveLines) /\ chantier' \in SUBSET Lines
    BY <1>2, <1>3, <1>5 DEF CopiedLines, ActiveLines, Active, TypeOK, ContentTypeOK
  <1>9. ContentTypeOK'
    BY <1>1, <1>2, <1>3, <1>7, <1>8 DEF TypeOK, ContentTypeOK
  <1>10. HeaderFits' /\ ChantierMatchesQuote'
    BY <1>2, <1>3, <1>5, <1>7, <1>8 DEF HeaderFits, ChantierMatchesQuote, ActiveLines
  <1>11. Nobody \notin Requests
    BY WorkloadAssumption
  <1> QED BY <1>1, <1>2, <1>5, <1>7, <1>9, <1>10, <1>11, StillNew, AnswerKeeps

LEMMA RollbackKeeps ==
  ASSUME FormInv, NEW r \in Requests, Rollback(r)
  PROVE  FormInv'
  <1>1. rowLock' = (IF rowLock = r THEN Nobody ELSE rowLock) /\ Answer(r) /\ UNCHANGED content
    BY DEF Rollback
  <1>2. header' = header /\ project' = project /\ sections' = sections /\ lines' = lines
        /\ chantier' = chantier
    BY <1>1 DEF content
  <1>3. ContentTypeOK' /\ HeaderFits' /\ ChantierMatchesQuote' /\ rowLock \in Requests \cup {Nobody}
    BY <1>2 DEF FormInv, TypeOK, ContentTypeOK, HeaderFits, ChantierMatchesQuote, ActiveLines
  <1>4. rowLock' # r /\ rowLock' \in Requests \cup {Nobody}
        /\ \A q \in Requests \ {r} : rowLock' = q <=> rowLock = q
    BY <1>1, <1>3, WorkloadAssumption
  <1> QED BY <1>1, <1>2, <1>3, <1>4, StillNew, AnswerKeeps

LEMMA FailKeeps ==
  ASSUME FormInv, NEW r \in Requests, Fail(r)
  PROVE  FormInv'
  <1>1. ~Idle(r) /\ ~At(r, "rollback") /\ UNCHANGED <<content, rowLock>>
    BY DEF Fail
  <1>2. CASE InTransaction(r)
    BY <1>2, ToRollbackKeeps DEF Fail, InTransaction
  <1>3. CASE ~InTransaction(r)
    <2>1. StepFits(r) /\ LockFits(r)
      BY DEF FormInv, Fits
    <2>2. req[r].op \in {"edit", "status"}
      BY <1>1, <1>3, <2>1 DEF StepFits, InTransaction, Idle
    <2>3. rowLock # r
      BY <1>1, <2>1, <2>2 DEF StepFits, LockFits, HoldsLock, At
    <2> QED BY <1>1, <1>3, <2>3, QuietAnswerKeeps DEF Fail
  <1> QED BY <1>2, <1>3

-----------------------------------------------------------------------------
(* The requests on the pool. *)

LEMMA UpdateHeaderKeeps ==
  ASSUME FormInv, NEW r \in Requests, UpdateHeader(r)
  PROVE  FormInv'
  <1>1. At(r, "update") /\ UNCHANGED <<project, sections, lines, chantier, rowLock>>
    BY DEF UpdateHeader
  <1>2. TypeOK /\ HeaderFits /\ ChantierMatchesQuote /\ Apart /\ \A q \in Requests : Fits(q)
    BY DEF FormInv
  <1>3. req[r].op = "edit" /\ rowLock # r
    BY <1>1, <1>2 DEF Fits, StepFits, LockFits, HoldsLock, At
  <1>4. CASE ~OpenForEditing(header.type, header.status)
    <2>1. Answer(r) /\ UNCHANGED <<content, rowLock>>
      BY <1>1, <1>4 DEF UpdateHeader, content
    <2> QED BY <1>3, <2>1, QuietAnswerKeeps
  <1>5. CASE OpenForEditing(header.type, header.status)
    <2>1. Unlocked /\ header' = [header EXCEPT !.rate = req[r].rate] /\ Goto(r, "recompute")
      BY <1>5 DEF UpdateHeader
    <2>2. header \in Header /\ req[r] \in Request
      BY <1>2 DEF TypeOK, ContentTypeOK
    <2>3. header' \in Header /\ header'.type = header.type /\ header'.status = header.status
      BY <2>1, <2>2 DEF Header, Request
    <2>4. ContentTypeOK' /\ HeaderFits' /\ ChantierMatchesQuote'
      BY <1>1, <1>2, <2>3 DEF TypeOK, ContentTypeOK, HeaderFits, ChantierMatchesQuote, ActiveLines
    <2>5. PICK new \in Request :
            /\ req' = [req EXCEPT ![r] = new] /\ req'[r] = new
            /\ new.pc = "recompute" /\ new.op = req[r].op
            /\ new.sections = req[r].sections /\ new.lines = req[r].lines
      BY <1>2, <2>1, Gone DEF Steps
    <2>6. rowLock = Nobody /\ rowLock' = Nobody /\ Nobody \notin Requests /\ sections' = sections
      BY <1>1, <2>1, WorkloadAssumption DEF Unlocked
    <2>7. Fits(r)'
      <3>1. StepFits(r)' BY <1>3, <2>5 DEF StepFits
      <3>2. LockFits(r)' BY <1>3, <2>5, <2>6 DEF LockFits, HoldsLock, SaveRewrites, At
      <3>3. RowsFit(r)' BY <1>2, <1>3, <2>5, <2>6 DEF Fits, RowsFit
      <3>4. CheckFits(r)' BY <1>3, <2>5 DEF CheckFits, SaveRewrites, At
      <3>5. ReadsFit(r)' BY <1>3, <2>5 DEF ReadsFit, SaveRewrites, At
      <3> QED BY <3>1, <3>2, <3>3, <3>4, <3>5 DEF Fits
    <2>8. \A q \in Requests \ {r} :
            /\ rowLock # q /\ rowLock' # q
            /\ \A s \in req[q].sections : sections'[s] = "none" /\ s \notin new.sections
      BY <1>2, <2>5, <2>6 DEF Fits, RowsFit, Apart
    <2>9. rowLock' \in Requests \cup {Nobody}
      BY <2>6
    <2> QED BY <2>3, <2>4, <2>5, <2>7, <2>8, <2>9, OneMoves
  <1> QED BY <1>4, <1>5

LEMMA UpdateStatusKeeps ==
  ASSUME FormInv, NEW r \in Requests, UpdateStatus(r)
  PROVE  FormInv'
  <1>1. At(r, "set_status") /\ Answer(r) /\ UNCHANGED <<project, sections, lines, chantier, rowLock>>
    BY DEF UpdateStatus
  <1>2. TypeOK /\ HeaderFits /\ ChantierMatchesQuote /\ \A q \in Requests : Fits(q)
    BY DEF FormInv
  <1>3. req[r].op = "status" /\ rowLock # r
    BY <1>1, <1>2 DEF Fits, StepFits, LockFits, HoldsLock, At
  <1>4. CASE ~(header.status \in {"DRAFT", "SENT"} /\ header.active)
    <2>1. UNCHANGED <<content, rowLock>>
      BY <1>1, <1>4 DEF UpdateStatus, content
    <2> QED BY <1>1, <1>3, <2>1, QuietAnswerKeeps
  <1>5. CASE header.status \in {"DRAFT", "SENT"} /\ header.active
    <2>1. Unlocked /\ header' = [header EXCEPT !.status = req[r].want]
      BY <1>5 DEF UpdateStatus
    <2>2. req[r].want \in Statuses /\ req[r].want # "ACCEPTED"
      BY <1>2, <1>3, SettableFrom DEF Fits, CheckFits
    <2>3. header \in Header
      BY <1>2 DEF TypeOK, ContentTypeOK
    <2>4. header' \in Header /\ header'.type = header.type /\ header'.status = req[r].want
      BY <2>1, <2>2, <2>3 DEF Header
    <2>5. ContentTypeOK' /\ HeaderFits' /\ ChantierMatchesQuote'
      BY <1>1, <1>2, <2>2, <2>4 DEF TypeOK, ContentTypeOK, HeaderFits, ChantierMatchesQuote
    <2>6. rowLock = Nobody /\ rowLock' = Nobody /\ Nobody \notin Requests /\ sections' = sections
      BY <1>1, <2>1, WorkloadAssumption DEF Unlocked
    <2>7. rowLock' \in Requests \cup {Nobody} /\ rowLock' # r
          /\ \A q \in Requests : rowLock # q /\ rowLock' # q
      BY <2>6
    <2> QED BY <1>1, <2>4, <2>5, <2>6, <2>7, StillNew, AnswerKeeps
  <1> QED BY <1>4, <1>5

-----------------------------------------------------------------------------
(* The document and its chantier, archived and completed. *)

\* Nobody's slot changes.
LEMMA NoSlotKeeps ==
  ASSUME FormInv, req' = req, rowLock' = rowLock, sections' = sections, lines' = lines,
         ContentTypeOK', header'.type = header.type, header'.rate = header.rate,
         header'.status = header.status, chantier' = chantier,
         header'.active = header.active \/ rowLock = Nobody
  PROVE  FormInv'
  <1>1. TypeOK /\ HeaderFits /\ ChantierMatchesQuote /\ Apart /\ \A q \in Requests : Fits(q)
    BY DEF FormInv
  <1>2. TypeOK' /\ HeaderFits' /\ ChantierMatchesQuote' /\ Apart'
    BY <1>1 DEF TypeOK, HeaderFits, ChantierMatchesQuote, ActiveLines, Apart
  <1>3. ASSUME NEW q \in Requests PROVE Fits(q)'
    <2>1. \A s \in req[q].sections : sections'[s] = "none"
      BY StillNew
    <2>2. rowLock = q => header'.active = header.active
      BY WorkloadAssumption
    <2> QED BY <1>1, <2>1, <2>2, OthersFit
  <1> QED BY <1>2, <1>3 DEF FormInv

LEMMA ArchiveDocumentKeeps ==
  ASSUME FormInv, ArchiveDocument
  PROVE  FormInv'
  <1>1. PICK active \in BOOLEAN : header' = [header EXCEPT !.active = active]
    BY DEF ArchiveDocument
  <1>2. Unlocked /\ UNCHANGED <<project, sections, lines, chantier, rowLock, req>>
    BY DEF ArchiveDocument
  <1>3. header \in Header
    BY DEF FormInv, TypeOK, ContentTypeOK
  <1>4. header' \in Header /\ header'.type = header.type /\ header'.rate = header.rate
        /\ header'.status = header.status
    BY <1>1, <1>3 DEF Header
  <1>5. ContentTypeOK'
    BY <1>2, <1>4 DEF FormInv, TypeOK, ContentTypeOK
  <1> QED BY <1>2, <1>4, <1>5, NoSlotKeeps DEF Unlocked

LEMMA UpdateProjectKeeps ==
  ASSUME FormInv, UpdateProject
  PROVE  FormInv'
  <1>1. UNCHANGED <<header, sections, lines, chantier, rowLock, req>>
    BY DEF UpdateProject
  <1>2. project \in [status : {"IN_PROGRESS", "COMPLETED"}, active : BOOLEAN]
    BY DEF FormInv, TypeOK, ContentTypeOK
  <1>3. project' \in [status : {"IN_PROGRESS", "COMPLETED"}, active : BOOLEAN]
    BY <1>2 DEF UpdateProject
  <1>4. ContentTypeOK'
    BY <1>1, <1>3 DEF FormInv, TypeOK, ContentTypeOK
  <1> QED BY <1>1, <1>4, NoSlotKeeps

LEMMA StutterKeeps ==
  ASSUME FormInv, UNCHANGED vars
  PROVE  FormInv'
  <1>1. UNCHANGED <<header, project, sections, lines, chantier, rowLock, req>>
    BY DEF vars, content
  <1>2. ContentTypeOK'
    BY <1>1 DEF FormInv, TypeOK, ContentTypeOK
  <1> QED BY <1>1, <1>2, NoSlotKeeps

LEMMA ArriveKeeps ==
  ASSUME FormInv, NEW r \in Requests, FormArrive(r)
  PROVE  FormInv'
  BY StartSaveKeeps, StartAcceptKeeps, StartEditKeeps, StartStatusKeeps DEF FormArrive

LEMMA AdvanceKeeps ==
  ASSUME FormInv, NEW r \in Requests, FormAdvance(r)
  PROVE  FormInv'
  <1>1. CASE SaveStep(r)
    BY <1>1, LockDocumentKeeps, CheckEditableKeeps, ArchiveLinesKeeps, InsertContentKeeps DEF SaveStep
  <1>2. CASE AcceptStep(r)
    BY <1>2, FlipToAcceptedKeeps, RefuseAcceptKeeps, CopySectionsKeeps, CopyLinesKeeps DEF AcceptStep
  <1>3. CASE RecomputeStep(r)
    BY <1>3, ReadRateKeeps, ReadLinesKeeps, WriteTotalsKeeps DEF RecomputeStep
  <1>4. CASE UpdateHeader(r) \/ UpdateStatus(r)
    BY <1>4, UpdateHeaderKeeps, UpdateStatusKeeps
  <1>5. CASE Commit(r) \/ Rollback(r)
    BY <1>5, CommitSaveKeeps, CommitAcceptKeeps, RollbackKeeps
  <1> QED BY <1>1, <1>2, <1>3, <1>4, <1>5 DEF FormAdvance

LEMMA StepKeeps ==
  ASSUME FormInv, [FormNext]_vars
  PROVE  FormInv'
  <1>1. CASE UNCHANGED vars
    BY <1>1, StutterKeeps
  <1>2. CASE FormNext
    BY <1>2, ArriveKeeps, AdvanceKeeps, FailKeeps, ArchiveDocumentKeeps, UpdateProjectKeeps DEF FormNext
  <1> QED BY <1>1, <1>2

-----------------------------------------------------------------------------
(* The theorems. *)

\* The inductive invariant holds whatever saves, acceptances, edits and status
\* changes meet at one document (replaceDocumentContentServ, acceptQuoteServ).
THEOREM Invariance == FormSpec => []FormInv
  BY InitInv, StepKeeps, PTL DEF FormSpec

\* The documents row is locked by the transaction that works on it, and what it
\* has read under the lock is still what is committed (SELECT ... FOR UPDATE).
THEOREM ReadsUnderLock == FormSpec => []Inv
  BY InvImplies, Invariance, PTL

\* An accepted quote still says what its chantier was given to do, whichever saves
\* were on their way when it was accepted (acceptQuoteServ).
THEOREM ChantierIsTheQuote == FormSpec => []ChantierMatchesQuote
  BY InvImplies, Invariance, PTL

-----------------------------------------------------------------------------
(* Without header edits, and of a quote or an invoice, the requests            *)
(* implement ContentLedger: a commit is the endpoint's one step.               *)

\* Nobody asks for anything else than Workload.
OpsAsked == \A r \in Requests : req[r].op \in Workload \cup {"none"}

LEMMA OpsKept ==
  ASSUME TypeOK, OpsAsked, [FormNext]_vars
  PROVE  OpsAsked'
  <1>1. req \in [Requests -> Request]
    BY DEF TypeOK
  <1>2. ASSUME req' = req PROVE OpsAsked'
    BY <1>2 DEF OpsAsked
  <1>3. ASSUME NEW r \in Requests, NEW new, req' = [req EXCEPT ![r] = new],
               new.op \in Workload \cup {"none"}
        PROVE  OpsAsked'
    <2>1. \A q \in Requests : req'[q] = IF q = r THEN new ELSE req[q]
      BY <1>1, <1>3
    <2> QED BY <1>3, <2>1 DEF OpsAsked
  <1>4. ASSUME NEW r \in Requests, NEW step \in Steps, Goto(r, step) PROVE OpsAsked'
    <2>1. PICK new \in Request : req' = [req EXCEPT ![r] = new] /\ new.op = req[r].op
      BY <1>4, Gone
    <2> QED BY <1>3, <2>1 DEF OpsAsked
  <1>5. ASSUME NEW r \in Requests, Answer(r) PROVE OpsAsked'
    BY <1>3, <1>5 DEF Answer, IdleRequest
  <1>6. ASSUME NEW r \in Requests, NEW new, Start(r, new) PROVE OpsAsked'
    BY <1>3, <1>6 DEF Start
  <1>7. ASSUME NEW r \in Requests, FormArrive(r) PROVE OpsAsked'
    BY <1>6, <1>7 DEF FormArrive, StartSave, StartAccept, StartEdit, StartStatus
  <1>8. ASSUME NEW r \in Requests, SaveStep(r) PROVE OpsAsked'
    <2>1. CASE LockDocument(r)
      BY <1>4, <2>1 DEF LockDocument, Steps
    <2>2. CASE CheckEditable(r)
      BY <1>4, <2>2 DEF CheckEditable, Steps
    <2>3. CASE ArchiveLines(r)
      <3> DEFINE new == [req[r] EXCEPT !.pc = "insert", !.goneLines = ActiveLines]
      <3>1. req' = [req EXCEPT ![r] = new] /\ new.op = req[r].op
        BY <1>1, <2>3 DEF ArchiveLines, Request
      <3> QED BY <1>3, <3>1 DEF OpsAsked
    <2>4. CASE InsertContent(r)
      <3> DEFINE new == [req[r] EXCEPT !.pc = "recompute", !.goneSections = Active(sections)]
      <3>1. req' = [req EXCEPT ![r] = new] /\ new.op = req[r].op
        BY <1>1, <2>4 DEF InsertContent, Request
      <3> QED BY <1>3, <3>1 DEF OpsAsked
    <2> QED BY <1>8, <2>1, <2>2, <2>3, <2>4 DEF SaveStep
  <1>9. ASSUME NEW r \in Requests, AcceptStep(r) PROVE OpsAsked'
    <2>1. CASE FlipToAccepted(r) \/ RefuseAccept(r)
      BY <1>4, <2>1 DEF FlipToAccepted, RefuseAccept, Steps
    <2>2. CASE CopySections(r)
      <3> DEFINE new == [req[r] EXCEPT !.pc = "copy_lines", !.seenSections = Active(sections)]
      <3>1. req' = [req EXCEPT ![r] = new] /\ new.op = req[r].op
        BY <1>1, <2>2 DEF CopySections, Request
      <3> QED BY <1>3, <3>1 DEF OpsAsked
    <2>3. CASE CopyLines(r)
      <3> DEFINE new == [req[r] EXCEPT !.pc = "commit", !.seenLines = ActiveLines]
      <3>1. req' = [req EXCEPT ![r] = new] /\ new.op = req[r].op
        BY <1>1, <2>3 DEF CopyLines, Request
      <3> QED BY <1>3, <3>1 DEF OpsAsked
    <2> QED BY <1>9, <2>1, <2>2, <2>3 DEF AcceptStep
  <1>10. ASSUME NEW r \in Requests, RecomputeStep(r) PROVE OpsAsked'
    <2>1. CASE ReadRate(r)
      <3> DEFINE new == [req[r] EXCEPT !.pc = "sum", !.rate = header.rate]
      <3>1. req' = [req EXCEPT ![r] = new] /\ new.op = req[r].op
        BY <1>1, <2>1 DEF ReadRate, Request
      <3> QED BY <1>3, <3>1 DEF OpsAsked
    <2>2. CASE ReadLines(r)
      <3> DEFINE new == [req[r] EXCEPT !.pc = "total", !.seenLines = VisibleLines(r)]
      <3>1. req' = [req EXCEPT ![r] = new] /\ new.op = req[r].op
        BY <1>1, <2>2 DEF ReadLines, Request
      <3> QED BY <1>3, <3>1 DEF OpsAsked
    <2>3. CASE WriteTotals(r)
      BY <1>4, <1>5, <2>3 DEF WriteTotals, Steps
    <2> QED BY <1>10, <2>1, <2>2, <2>3 DEF RecomputeStep
  <1>11. ASSUME NEW r \in Requests, UpdateHeader(r) \/ UpdateStatus(r) PROVE OpsAsked'
    BY <1>4, <1>5, <1>11 DEF UpdateHeader, UpdateStatus, Steps
  <1>12. ASSUME NEW r \in Requests, Commit(r) \/ Rollback(r) PROVE OpsAsked'
    BY <1>5, <1>12 DEF Commit, Rollback
  <1>13. ASSUME NEW r \in Requests, Fail(r) PROVE OpsAsked'
    BY <1>4, <1>5, <1>13 DEF Fail, Steps
  <1>14. CASE ArchiveDocument \/ UpdateProject \/ UNCHANGED vars
    BY <1>2, <1>14 DEF ArchiveDocument, UpdateProject, vars
  <1> QED
    BY <1>7, <1>8, <1>9, <1>10, <1>11, <1>12, <1>13, <1>14 DEF FormNext, FormAdvance

\* A committed save is SaveContent.
LEMMA CommitSaveRefines ==
  ASSUME "PROJECT" \notin DocTypes, FormInv, NEW r \in Requests, req[r].op = "save", Commit(r)
  PROVE  ContentNext
  <1>1. At(r, "commit") /\ CommitSave(r) /\ project' = project
    BY DEF Commit
  <1>2. TypeOK /\ HeaderFits /\ Fits(r)
    BY DEF FormInv
  <1>3. PICK s \in Sections \cup {NoSection} :
          req[r].sections = {s} \cap Sections /\ req[r].lines = LinesOf(s)
    BY <1>2 DEF Fits, RowsFit
  <1>4. /\ req[r].goneLines = ActiveLines /\ req[r].goneSections = Active(sections)
        /\ req[r].rate = header.rate /\ req[r].seenLines = LinesOf(s)
    BY <1>1, <1>2, <1>3 DEF Fits, ReadsFit, At
  <1>5. Editable
    BY <1>1, <1>2 DEF Fits, CheckFits, HeaderFits, Editable, At
  <1>6. s # NoSection => sections[s] = "none"
    BY <1>2, <1>3 DEF Fits, RowsFit
  <1>7. \A x \in Sections : x \in req[r].sections <=> x = s
    BY <1>3
  <1>8. sections \in [Sections -> RowState] /\ lines \in [Lines -> RowState]
    BY <1>2 DEF TypeOK, ContentTypeOK
  <1>9. Rewritten(s)
    <2>1. sections' = [x \in Sections |-> IF x = s THEN "active"
                                          ELSE IF sections[x] = "active" THEN "archived"
                                          ELSE sections[x]]
      <3>1. \A x \in Sections : x \in req[r].goneSections <=> sections[x] = "active"
        BY <1>4, <1>8 DEF Active
      <3> QED BY <1>1, <1>7, <3>1 DEF CommitSave
    <2>2. lines' = [l \in Lines |-> IF l \in LinesOf(s) THEN "active"
                                    ELSE IF lines[l] = "active" THEN "archived"
                                    ELSE lines[l]]
      <3>1. \A l \in Lines : l \in req[r].goneLines <=> lines[l] = "active"
        BY <1>4, <1>8 DEF Active, ActiveLines
      <3> QED BY <1>1, <1>3, <3>1 DEF CommitSave
    <2> QED BY <2>1, <2>2 DEF Rewritten
  <1>10. header' = [header EXCEPT !.totals = [rate |-> header.rate, lines |-> LinesOf(s)]]
    BY <1>1, <1>4 DEF CommitSave, ReadTotals
  <1>11. SaveContent(s)
    BY <1>1, <1>5, <1>6, <1>9, <1>10 DEF SaveContent, CommitSave
  <1> QED BY <1>11 DEF ContentNext

LEMMA CommitAcceptRefines ==
  ASSUME FormInv, NEW r \in Requests, req[r].op # "save", Commit(r)
  PROVE  ContentNext
  <1>1. At(r, "commit") /\ CommitAccept(r) /\ project' = project
    BY DEF Commit
  <1>2. StepFits(r) /\ CheckFits(r) /\ ReadsFit(r)
    BY DEF FormInv, Fits
  <1>3. req[r].op = "accept"
    BY <1>1, <1>2 DEF StepFits, At
  <1>4. /\ header.type = "QUOTE" /\ header.status \in {"DRAFT", "SENT"} /\ header.active
        /\ req[r].seenSections = Active(sections) /\ req[r].seenLines = ActiveLines
    BY <1>1, <1>2, <1>3 DEF CheckFits, ReadsFit, At
  <1>5. AcceptContent
    BY <1>1, <1>4 DEF CommitAccept, AcceptContent
  <1> QED BY <1>5 DEF ContentNext

\* A status another request has set meanwhile is set once more, or is no longer to
\* be had: the UPDATE looks at the row again.
LEMMA UpdateStatusRefines ==
  ASSUME FormInv, NEW r \in Requests, UpdateStatus(r)
  PROVE  ContentNext \/ UNCHANGED content
  <1>1. At(r, "set_status") /\ UNCHANGED <<project, sections, lines, chantier>>
    BY DEF UpdateStatus
  <1>2. TypeOK /\ Fits(r)
    BY DEF FormInv
  <1>3. req[r].want \in Settable(header.type, "DRAFT") \cup Settable(header.type, "SENT")
    BY <1>1, <1>2 DEF Fits, StepFits, CheckFits, At
  <1>4. CASE header' = header
    BY <1>1, <1>4 DEF content
  <1>5. CASE header.status \in {"DRAFT", "SENT"} /\ header.active
             /\ header' = [header EXCEPT !.status = req[r].want]
    <2>1. header \in Header
      BY <1>2 DEF TypeOK, ContentTypeOK
    <2>2. CASE req[r].want = header.status
      <3>1. header' = header
        BY <1>5, <2>1, <2>2 DEF Header
      <3> QED BY <1>4, <3>1
    <2>3. CASE req[r].want # header.status
      <3>1. req[r].want \in Settable(header.type, header.status) /\ req[r].want \in Statuses
        BY <1>3, <1>5, <2>3 DEF Settable, Statuses
      <3>2. SetContentStatus(req[r].want)
        BY <1>1, <1>5, <3>1 DEF SetContentStatus
      <3> QED BY <3>1, <3>2 DEF ContentNext
    <2> QED BY <2>2, <2>3
  <1> QED BY <1>4, <1>5 DEF UpdateStatus

LEMMA UpdateProjectRefines ==
  ASSUME FormInv, UpdateProject
  PROVE  ContentNext
  <1>1. header.type = "PROJECT" /\ UNCHANGED <<header, sections, lines, chantier>>
    BY DEF UpdateProject
  <1>2. project \in [status : {"IN_PROGRESS", "COMPLETED"}, active : BOOLEAN]
    BY DEF FormInv, TypeOK, ContentTypeOK
  <1>3. CASE project' = [project EXCEPT !.status = "COMPLETED"]
    <2>1. project' = [status |-> "COMPLETED", active |-> project.active]
      BY <1>2, <1>3
    <2>2. SetProject("COMPLETED", project.active)
      BY <1>1, <2>1 DEF SetProject
    <2> QED BY <1>2, <2>2 DEF ContentNext
  <1>4. ASSUME NEW active \in BOOLEAN, project' = [project EXCEPT !.active = active]
        PROVE  ContentNext
    <2>1. project' = [status |-> project.status, active |-> active]
      BY <1>2, <1>4
    <2>2. SetProject(project.status, active)
      BY <1>1, <2>1 DEF SetProject
    <2> QED BY <1>2, <2>2 DEF ContentNext
  <1> QED BY <1>3, <1>4 DEF UpdateProject

LEMMA StepRefines ==
  ASSUME "PROJECT" \notin DocTypes, "edit" \notin Workload, FormInv, OpsAsked, [FormNext]_vars
  PROVE  [ContentNext]_content
  <1>1. \A r \in Requests : req[r].op # "edit" /\ StepFits(r)
    BY DEF OpsAsked, FormInv, Fits
  <1>2. ASSUME NEW r \in Requests, FormArrive(r) PROVE UNCHANGED content
    BY <1>2 DEF FormArrive, StartSave, StartAccept, StartEdit, StartStatus, Start
  <1>3. ASSUME NEW r \in Requests, SaveStep(r) \/ AcceptStep(r) PROVE UNCHANGED content
    BY <1>3 DEF SaveStep, LockDocument, CheckEditable, ArchiveLines, InsertContent, AcceptStep,
       FlipToAccepted, RefuseAccept, CopySections, CopyLines
  <1>4. ASSUME NEW r \in Requests, RecomputeStep(r) PROVE UNCHANGED content
    <2>1. CASE ReadRate(r) \/ ReadLines(r)
      BY <2>1 DEF ReadRate, ReadLines
    <2>2. CASE WriteTotals(r)
      <3>1. InTransaction(r)
        BY <1>1, <2>2 DEF WriteTotals, StepFits, InTransaction, At
      <3> QED BY <2>2, <3>1 DEF WriteTotals, content
    <2> QED BY <1>4, <2>1, <2>2 DEF RecomputeStep
  <1>5. ASSUME NEW r \in Requests, UpdateHeader(r) PROVE FALSE
    BY <1>1, <1>5 DEF UpdateHeader, StepFits, At
  <1>6. ASSUME NEW r \in Requests, Fail(r) \/ Rollback(r) PROVE UNCHANGED content
    BY <1>6 DEF Fail, Rollback
  <1>7. ASSUME NEW r \in Requests, Commit(r) PROVE ContentNext
    BY <1>7, CommitSaveRefines, CommitAcceptRefines
  <1>8. CASE ArchiveDocument
    BY <1>8 DEF ArchiveDocument, SetActive, ContentNext
  <1>9. CASE UNCHANGED vars
    BY <1>9 DEF vars
  <1> QED
    BY <1>2, <1>3, <1>4, <1>5, <1>6, <1>7, <1>8, <1>9, UpdateStatusRefines, UpdateProjectRefines
       DEF FormNext, FormAdvance

\* Saves, acceptances and status changes of a quote or an invoice behave as if each
\* happened at once (replaceDocumentContentServ: "Either all of it lands or none").
THEOREM SavesAreAtomic ==
  ASSUME "PROJECT" \notin DocTypes, "edit" \notin Workload
  PROVE  FormSpec => ContentSpec
  <1>1. Init => ContentInit /\ OpsAsked
    BY DEF Init, OpsAsked, IdleRequest
  <1>2. FormInv => TypeOK
    BY DEF FormInv
  <1>3. FormInv /\ OpsAsked /\ [FormNext]_vars => OpsAsked'
    BY <1>2, OpsKept
  <1>4. FormInv /\ OpsAsked /\ [FormNext]_vars => [ContentNext]_content
    BY StepRefines
  <1> QED
    BY <1>1, <1>3, <1>4, Invariance, PTL DEF FormSpec, ContentSpec

-----------------------------------------------------------------------------
(* What ContentLedger guarantees, and with it every save. *)

LedgerInv == ContentTypeOK /\ OneSavesContent /\ TotalsAddUp

LEMMA LedgerInit == ContentInit => LedgerInv
  <1> SUFFICES ASSUME ContentInit PROVE LedgerInv
    OBVIOUS
  <1>1. PICK type \in DocTypes :
          header = [type |-> type, status |-> FirstStatus(type), active |-> TRUE,
                    rate |-> FirstRate, totals |-> [rate |-> FirstRate, lines |-> {}]]
    BY DEF ContentInit
  <1>2. /\ project = [status |-> "IN_PROGRESS", active |-> TRUE]
        /\ sections = [s \in Sections |-> "none"] /\ lines = [l \in Lines |-> "none"] /\ chantier = {}
    BY DEF ContentInit
  <1>3. header \in Header
    BY <1>1, ContentAssumption DEF Header, Totals, Statuses, FirstStatus
  <1>4. ContentTypeOK
    BY <1>2, <1>3 DEF ContentTypeOK, RowState
  <1>5. Active(sections) = {} /\ ActiveLines = {}
    BY <1>2 DEF Active, ActiveLines
  <1>6. LinesOf(NoSection) = {} /\ {NoSection} \cap Sections = {}
    BY ContentAssumption DEF LinesOf, Lines
  <1>7. OneSavesContent
    BY <1>5, <1>6 DEF OneSavesContent
  <1>8. TotalsAddUp
    BY <1>1, <1>5 DEF TotalsAddUp
  <1> QED BY <1>4, <1>7, <1>8 DEF LedgerInv

\* A save leaves its own rows and no others.
LEMMA SaveContentKeeps ==
  ASSUME LedgerInv, NEW s \in Sections \cup {NoSection}, SaveContent(s)
  PROVE  LedgerInv'
  <1>1. ContentTypeOK
    BY DEF LedgerInv
  <1>2. /\ sections' = [x \in Sections |-> IF x = s THEN "active"
                                            ELSE IF sections[x] = "active" THEN "archived"
                                            ELSE sections[x]]
        /\ lines' = [l \in Lines |-> IF l \in LinesOf(s) THEN "active"
                                      ELSE IF lines[l] = "active" THEN "archived"
                                      ELSE lines[l]]
        /\ header' = [header EXCEPT !.totals = [rate |-> header.rate, lines |-> LinesOf(s)]]
        /\ project' = project /\ chantier' = chantier
    BY DEF SaveContent, Rewritten
  <1>3. header \in Header /\ sections \in [Sections -> RowState] /\ lines \in [Lines -> RowState]
    BY <1>1 DEF ContentTypeOK
  <1>4. [rate |-> header.rate, lines |-> LinesOf(s)] \in Totals
    BY <1>3 DEF Header, Totals, LinesOf
  <1>5. header' \in Header /\ header'.rate = header.rate
        /\ header'.totals = [rate |-> header.rate, lines |-> LinesOf(s)]
    BY <1>2, <1>3, <1>4 DEF Header
  <1>6. sections' \in [Sections -> RowState] /\ lines' \in [Lines -> RowState]
    BY <1>2, <1>3 DEF RowState
  <1>7. ContentTypeOK'
    BY <1>1, <1>2, <1>5, <1>6 DEF ContentTypeOK
  <1>8. Active(sections)' = {s} \cap Sections
    BY <1>2 DEF Active
  <1>9. ActiveLines' = LinesOf(s)
    BY <1>2 DEF ActiveLines, Active, LinesOf
  <1>10. LinesOf(s)' = LinesOf(s)
    BY DEF LinesOf, Lines
  <1>11. OneSavesContent'
    BY <1>8, <1>9, <1>10 DEF OneSavesContent
  <1>12. TotalsAddUp'
    BY <1>5, <1>9 DEF TotalsAddUp
  <1> QED BY <1>7, <1>11, <1>12 DEF LedgerInv

\* Nothing else touches rows, rate or totals.
LEMMA RowsKept ==
  ASSUME LedgerInv, ContentTypeOK', sections' = sections, lines' = lines,
         header'.rate = header.rate, header'.totals = header.totals
  PROVE  LedgerInv'
  BY DEF LedgerInv, OneSavesContent, TotalsAddUp, ActiveLines, LinesOf, Lines

LEMMA LedgerStep ==
  ASSUME LedgerInv, [ContentNext]_content
  PROVE  LedgerInv'
  <1>1. ContentTypeOK /\ header \in Header
    BY DEF LedgerInv, ContentTypeOK
  <1>2. CASE UNCHANGED content
    BY <1>1, <1>2, RowsKept DEF content, ContentTypeOK
  <1>3. CASE AcceptContent
    <2>1. header' \in Header /\ header'.rate = header.rate /\ header'.totals = header.totals
      BY <1>1, <1>3 DEF AcceptContent, Header, Statuses
    <2>2. chantier' \in SUBSET Lines
      BY <1>1, <1>3 DEF AcceptContent, CopiedLines, ActiveLines, Active, ContentTypeOK
    <2> QED BY <1>1, <1>3, <2>1, <2>2, RowsKept DEF AcceptContent, ContentTypeOK
  <1>4. ASSUME NEW status \in Statuses, SetContentStatus(status) PROVE LedgerInv'
    <2>1. header' \in Header /\ header'.rate = header.rate /\ header'.totals = header.totals
      BY <1>1, <1>4 DEF SetContentStatus, Header
    <2> QED BY <1>1, <1>4, <2>1, RowsKept DEF SetContentStatus, ContentTypeOK
  <1>5. ASSUME NEW active \in BOOLEAN, SetActive(active) PROVE LedgerInv'
    <2>1. header' \in Header /\ header'.rate = header.rate /\ header'.totals = header.totals
      BY <1>1, <1>5 DEF SetActive, Header
    <2> QED BY <1>1, <1>5, <2>1, RowsKept DEF SetActive, ContentTypeOK
  <1>6. ASSUME NEW status \in {"IN_PROGRESS", "COMPLETED"}, NEW active \in BOOLEAN,
               SetProject(status, active)
        PROVE  LedgerInv'
    BY <1>1, <1>6, RowsKept DEF SetProject, ContentTypeOK
  <1> QED
    BY <1>2, <1>3, <1>4, <1>5, <1>6, SaveContentKeeps DEF ContentNext

\* After every endpoint of ContentLedger, a document's content is one save's, whole,
\* and its totals are those of its lines (what the atomic endpoints promise).
THEOREM LedgerInvariance == ContentSpec => []LedgerInv
  BY LedgerInit, LedgerStep, PTL DEF ContentSpec

\* However many saves meet, a document shows what one of them wrote, whole, and the
\* amounts stored are those of its lines (replaceDocumentContentServ,
\* recomputeDocumentTotalsServ).
THEOREM ContentIsWhole ==
  ASSUME "PROJECT" \notin DocTypes, "edit" \notin Workload
  PROVE  FormSpec => [](OneSavesContent /\ TotalsAddUp)
  <1>1. LedgerInv => OneSavesContent /\ TotalsAddUp
    BY DEF LedgerInv
  <1> QED BY <1>1, SavesAreAtomic, LedgerInvariance, PTL

-----------------------------------------------------------------------------
(* All ten operations, one request at a time (SequentialSpec, one slot).       *)

LineOps == {"add_line", "archive_line", "unarchive_line"}
SectionOps == {"add_section", "archive_section", "unarchive_section"}

AtOwnStep(q) ==
    \/ q.op = "none" /\ q.pc = "idle"
    \/ q.op = "save" /\ q.pc \in
         {"lock", "check", "archive_lines", "insert", "recompute", "sum", "total", "commit", "rollback"}
    \/ q.op = "accept" /\ q.pc \in
         {"flip", "copy_sections", "copy_lines", "commit", "rollback"}
    \/ q.op = "edit" /\ q.pc \in {"update", "recompute", "sum", "total"}
    \/ q.op = "status" /\ q.pc = "set_status"
    \/ q.op \in LineOps /\ q.pc \in {"write", "recompute", "sum", "total"}
    \/ q.op \in SectionOps /\ q.pc = "write"

\* Its rate or a line is written, and the totals are not.
TotalsBehind(q) == q.op # "save" /\ q.pc \in {"recompute", "sum", "total"}

\* What the only request q knows: the totals it has read are those it is about to
\* store, and it writes into a document that is still open.
Sole(q) ==
    /\ AtOwnStep(q)
    /\ ~TotalsBehind(q) => TotalsAddUp
    /\ q.op = "save" /\ q.pc \in {"insert", "recompute", "sum", "total", "commit"}
          => q.goneLines = ActiveLines
    /\ q.pc \in {"sum", "total"} \/ (q.op = "save" /\ q.pc = "commit") => q.rate = header.rate
    /\ q.pc = "total" \/ (q.op = "save" /\ q.pc = "commit") =>
          q.seenLines = IF q.op = "save" THEN q.lines ELSE ActiveLines
    /\ q.op = "save" /\ q.pc \notin {"lock", "check", "rollback"} => ~Closed
    /\ q.op \in LineOps \cup SectionOps /\ q.pc = "write" => ~Closed

SoleInv(r) == TypeOK /\ Sole(req[r])

LEMMA SoleInit ==
  ASSUME NEW r \in Requests, Init
  PROVE  SoleInv(r)
  <1>1. TypeOK
    BY InitInv DEF FormInv
  <1>2. req[r] = IdleRequest /\ IdleRequest.op = "none" /\ IdleRequest.pc = "idle"
    BY DEF Init, IdleRequest
  <1>3. header.rate = FirstRate /\ header.totals = [rate |-> FirstRate, lines |-> {}]
        /\ lines = [l \in Lines |-> "none"]
    BY DEF Init, ContentInit
  <1>4. ActiveLines = {}
    BY <1>3 DEF ActiveLines, Active
  <1>5. TotalsAddUp
    BY <1>3, <1>4 DEF TotalsAddUp
  <1> QED BY <1>1, <1>2, <1>5 DEF SoleInv, Sole, AtOwnStep

\* The request moves on, and the document stays as it is.
LEMMA SoleReads ==
  ASSUME NEW r \in Requests, SoleInv(r), NEW new \in Request, req' = [req EXCEPT ![r] = new],
         UNCHANGED content, rowLock' \in Requests \cup {Nobody}, Sole(new)
  PROVE  SoleInv(r)'
  <1>1. UNCHANGED <<header, project, sections, lines, chantier>>
    BY DEF content
  <1>2. TypeOK'
    BY <1>1 DEF SoleInv, TypeOK, ContentTypeOK
  <1>3. req'[r] = new
    BY DEF SoleInv, TypeOK
  <1>4. /\ ActiveLines' = ActiveLines /\ header' = header
        /\ (TotalsAddUp' <=> TotalsAddUp) /\ (Closed' <=> Closed)
    BY <1>1 DEF ActiveLines, TotalsAddUp, Closed
  <1>5. Sole(new)'
    BY <1>4, Zenon DEF Sole, AtOwnStep, TotalsBehind, LineOps, SectionOps
  <1> QED BY <1>2, <1>3, <1>5 DEF SoleInv

\* A request arrives: the one before has been answered.
LEMMA SoleStarts ==
  ASSUME NEW r \in Requests, SoleInv(r), NEW new \in Request, Start(r, new),
         \/ new.op = "save" /\ new.pc = "lock"
         \/ new.op = "accept" /\ new.pc = "flip"
         \/ new.op = "edit" /\ new.pc = "update"
         \/ new.op = "status" /\ new.pc = "set_status"
         \/ new.op \in LineOps \cup SectionOps /\ new.pc = "write" /\ Editable
  PROVE  SoleInv(r)'
  <1>1. req' = [req EXCEPT ![r] = new] /\ UNCHANGED content /\ rowLock' = rowLock
        /\ req[r].pc = "idle"
    BY DEF Start, Idle
  <1>2. TotalsAddUp /\ rowLock' \in Requests \cup {Nobody}
    BY <1>1 DEF SoleInv, Sole, TotalsBehind, TypeOK
  <1>3. Editable => ~Closed
    BY DEF Editable, Closed
  <1>4. Sole(new)
    BY <1>2, <1>3 DEF Sole, AtOwnStep, TotalsBehind, LineOps, SectionOps
  <1> QED BY <1>1, <1>2, <1>4, SoleReads

LEMMA SoleArrives ==
  ASSUME NEW r \in Requests, SoleInv(r), Arrive(r)
  PROVE  SoleInv(r)'
  <1>4. "ACCEPTED" \in Statuses /\ \A s \in Sections : LinesOf(s) \in SUBSET Lines
    BY DEF Statuses, LinesOf
  <1>5. /\ {"save", "accept", "edit", "status"} \cup LineOps \cup SectionOps \subseteq Ops
        /\ {"lock", "flip", "update", "set_status", "write"} \subseteq Steps
    BY DEF Ops, Steps, LineOps, SectionOps
  <1>6. CASE StartSave(r)
    <2>1. CASE Start(r, Asks("save", "lock"))
      <3> DEFINE new == Asks("save", "lock")
      <3>1. new \in Request /\ new.op = "save" /\ new.pc = "lock"
        BY <1>5, IdleTyped DEF Asks, IdleRequest, Request
      <3>2. Start(r, new) BY <2>1
      <3> HIDE DEF new
      <3> QED BY <3>1, <3>2, SoleStarts
    <2>2. ASSUME NEW s \in Sections,
                 Start(r, [Asks("save", "lock") EXCEPT !.sections = {s}, !.lines = LinesOf(s)])
          PROVE  SoleInv(r)'
      <3> DEFINE new == [Asks("save", "lock") EXCEPT !.sections = {s}, !.lines = LinesOf(s)]
      <3>1. new \in Request /\ new.op = "save" /\ new.pc = "lock"
        BY <1>4, <1>5, IdleTyped DEF Asks, IdleRequest, Request
      <3>2. Start(r, new) BY <2>2
      <3> HIDE DEF new
      <3> QED BY <3>1, <3>2, SoleStarts
    <2> QED BY <1>6, <2>1, <2>2 DEF StartSave
  <1>7. CASE StartAccept(r)
    <2> DEFINE new == [Asks("accept", "flip") EXCEPT !.want = "ACCEPTED"]
    <2>1. new \in Request /\ new.op = "accept" /\ new.pc = "flip"
      BY <1>4, <1>5, IdleTyped DEF Asks, IdleRequest, Request
    <2>2. Start(r, new) BY <1>7 DEF StartAccept
    <2> HIDE DEF new
    <2> QED BY <2>1, <2>2, SoleStarts
  <1>8. ASSUME NEW rate \in Rates, StartEdit(r, rate) PROVE SoleInv(r)'
    <2> DEFINE new == [Asks("edit", "update") EXCEPT !.rate = rate]
    <2>1. new \in Request /\ new.op = "edit" /\ new.pc = "update"
      BY <1>4, <1>5, IdleTyped DEF Asks, IdleRequest, Request
    <2>2. Start(r, new) BY <1>8 DEF StartEdit
    <2> HIDE DEF new
    <2> QED BY <2>1, <2>2, SoleStarts
  <1>9. ASSUME NEW status \in Statuses, StartStatus(r, status) PROVE SoleInv(r)'
    <2> DEFINE new == [Asks("status", "set_status") EXCEPT !.want = status]
    <2>1. new \in Request /\ new.op = "status" /\ new.pc = "set_status"
      BY <1>4, <1>5, IdleTyped DEF Asks, IdleRequest, Request
    <2>2. Start(r, new) BY <1>9 DEF StartStatus
    <2> HIDE DEF new
    <2> QED BY <2>1, <2>2, SoleStarts
  <1>10. ASSUME NEW l \in Lines, NEW op \in LineOps, Editable,
                Start(r, [Asks(op, "write") EXCEPT !.lines = {l}])
         PROVE  SoleInv(r)'
    <2> DEFINE new == [Asks(op, "write") EXCEPT !.lines = {l}]
    <2>1. new \in Request /\ new.op = op /\ new.pc = "write"
      BY <1>4, <1>5, IdleTyped DEF Asks, IdleRequest, Request
    <2>2. Start(r, new) BY <1>10
    <2> HIDE DEF new
    <2> QED BY <1>10, <2>1, <2>2, SoleStarts
  <1>11. ASSUME NEW s \in Sections, NEW op \in SectionOps, Editable,
                Start(r, [Asks(op, "write") EXCEPT !.sections = {s}])
         PROVE  SoleInv(r)'
    <2> DEFINE new == [Asks(op, "write") EXCEPT !.sections = {s}]
    <2>1. new \in Request /\ new.op = op /\ new.pc = "write"
      BY <1>4, <1>5, IdleTyped DEF Asks, IdleRequest, Request
    <2>2. Start(r, new) BY <1>11
    <2> HIDE DEF new
    <2> QED BY <1>11, <2>1, <2>2, SoleStarts
  <1>12. ASSUME NEW l \in Lines,
                StartAddLine(r, l) \/ \E op \in {"archive_line", "unarchive_line"} : StartSetLine(r, op, l)
         PROVE  SoleInv(r)'
    BY <1>10, <1>12 DEF StartAddLine, StartSetLine, LineOps
  <1>13. ASSUME NEW s \in Sections,
                StartAddSection(r, s)
                \/ \E op \in {"archive_section", "unarchive_section"} : StartSetSection(r, op, s)
         PROVE  SoleInv(r)'
    BY <1>11, <1>13 DEF StartAddSection, StartSetSection, SectionOps
  <1> QED BY <1>6, <1>7, <1>8, <1>9, <1>12, <1>13 DEF Arrive

\* The request is answered with the document as it is.
LEMMA SoleAnswered ==
  ASSUME NEW r \in Requests, SoleInv(r), Answer(r), UNCHANGED content,
         rowLock' \in Requests \cup {Nobody}, TotalsAddUp
  PROVE  SoleInv(r)'
  <1>1. IdleRequest \in Request /\ IdleRequest.op = "none" /\ IdleRequest.pc = "idle"
    BY IdleTyped DEF IdleRequest
  <1>2. Sole(IdleRequest)
    BY <1>1 DEF Sole, AtOwnStep, TotalsBehind, LineOps, SectionOps
  <1> QED BY <1>1, <1>2, SoleReads DEF Answer

\* Its statement changes the document, and answers it.
LEMMA SoleWrites ==
  ASSUME NEW r \in Requests, SoleInv(r), Answer(r), ContentTypeOK',
         rowLock' \in Requests \cup {Nobody}, TotalsAddUp'
  PROVE  SoleInv(r)'
  <1>1. TypeOK' /\ req'[r] = IdleRequest
    BY IdleTyped DEF SoleInv, TypeOK, Answer
  <1>2. IdleRequest.op = "none" /\ IdleRequest.pc = "idle"
    BY DEF IdleRequest
  <1> QED BY <1>1, <1>2 DEF SoleInv, Sole, AtOwnStep, TotalsBehind, LineOps, SectionOps

\* A statement that moves the request on without writing anything.
LEMMA SoleGoes ==
  ASSUME NEW r \in Requests, SoleInv(r), NEW step \in Steps, Goto(r, step), UNCHANGED content,
         rowLock' \in Requests \cup {Nobody},
         \/ req[r].op = "save" /\ req[r].pc = "lock" /\ step = "check"
         \/ req[r].op = "save" /\ req[r].pc = "check" /\ step = "archive_lines" /\ ~Closed
         \/ req[r].op \in {"save", "accept"} /\ step = "rollback"
         \/ req[r].op = "save" /\ req[r].pc = "total" /\ step = "commit"
         \/ req[r].op = "accept" /\ req[r].pc = "flip" /\ step = "copy_sections"
  PROVE  SoleInv(r)'
  <1>1. PICK new \in Request :
            /\ req' = [req EXCEPT ![r] = new]
            /\ new.pc = step /\ new.op = req[r].op /\ new.rate = req[r].rate
            /\ new.lines = req[r].lines /\ new.goneLines = req[r].goneLines
            /\ new.seenLines = req[r].seenLines
    BY Gone DEF SoleInv
  <1>2. Sole(req[r])
    BY DEF SoleInv
  <1>3. Sole(new)
    BY <1>1, <1>2 DEF Sole, AtOwnStep, TotalsBehind, LineOps, SectionOps
  <1> QED BY <1>1, <1>3, SoleReads

LEMMA SoleTyped ==
  ASSUME NEW r \in Requests, SoleInv(r)
  PROVE  /\ TypeOK /\ ContentTypeOK /\ Sole(req[r]) /\ req[r] \in Request /\ header \in Header
         /\ rowLock \in Requests \cup {Nobody} /\ ActiveLines \in SUBSET Lines
         /\ Active(sections) \in SUBSET Sections
  BY DEF SoleInv, TypeOK, ContentTypeOK, ActiveLines, Active

LEMMA SoleSaves ==
  ASSUME NEW r \in Requests, SoleInv(r), SaveStep(r)
  PROVE  SoleInv(r)'
  <1>1. TypeOK /\ Sole(req[r]) /\ req[r] \in Request /\ rowLock \in Requests \cup {Nobody}
        /\ ActiveLines \in SUBSET Lines /\ Active(sections) \in SUBSET Sections
    BY SoleTyped
  <1>2. {"check", "archive_lines", "rollback"} \subseteq Steps
    BY DEF Steps
  <1>3. CASE LockDocument(r)
    <2>1. req[r].pc = "lock" /\ req[r].op = "save"
      BY <1>1, <1>3 DEF LockDocument, At, Sole, AtOwnStep, LineOps, SectionOps
    <2> QED BY <1>2, <1>3, <2>1, SoleGoes DEF LockDocument
  <1>4. CASE CheckEditable(r)
    <2>1. req[r].pc = "check" /\ req[r].op = "save"
      BY <1>1, <1>4 DEF CheckEditable, At, Sole, AtOwnStep, LineOps, SectionOps
    <2>2. Editable => ~Closed
      BY DEF Editable, Closed
    <2>3. rowLock' \in Requests \cup {Nobody} /\ UNCHANGED content
      BY <1>1, <1>4 DEF CheckEditable
    <2>4. CASE Editable
      BY <1>2, <1>4, <2>1, <2>2, <2>3, <2>4, SoleGoes DEF CheckEditable
    <2>5. CASE ~Editable
      BY <1>2, <1>4, <2>1, <2>3, <2>5, SoleGoes DEF CheckEditable
    <2> QED BY <2>4, <2>5
  <1>5. CASE ArchiveLines(r)
    <2> DEFINE new == [req[r] EXCEPT !.pc = "insert", !.goneLines = ActiveLines]
    <2>1. req[r].pc = "archive_lines" /\ req[r].op = "save"
      BY <1>1, <1>5 DEF ArchiveLines, At, Sole, AtOwnStep, LineOps, SectionOps
    <2>2. new \in Request /\ new.op = req[r].op /\ new.pc = "insert" /\ new.goneLines = ActiveLines
      BY <1>1 DEF Request, Steps
    <2>3. req' = [req EXCEPT ![r] = new] /\ UNCHANGED content /\ rowLock' \in Requests \cup {Nobody}
      BY <1>1, <1>5 DEF ArchiveLines
    <2> HIDE DEF new
    <2>4. Sole(new)
      BY <1>1, <2>1, <2>2 DEF Sole, AtOwnStep, TotalsBehind, LineOps, SectionOps
    <2> QED BY <2>2, <2>3, <2>4, SoleReads
  <1>6. CASE InsertContent(r)
    <2> DEFINE new == [req[r] EXCEPT !.pc = "recompute", !.goneSections = Active(sections)]
    <2>1. req[r].pc = "insert" /\ req[r].op = "save"
      BY <1>1, <1>6 DEF InsertContent, At, Sole, AtOwnStep, LineOps, SectionOps
    <2>2. new \in Request /\ new.op = req[r].op /\ new.pc = "recompute"
          /\ new.goneLines = req[r].goneLines
      BY <1>1 DEF Request, Steps
    <2>3. req' = [req EXCEPT ![r] = new] /\ UNCHANGED content /\ rowLock' \in Requests \cup {Nobody}
      BY <1>1, <1>6 DEF InsertContent
    <2> HIDE DEF new
    <2>4. Sole(new)
      BY <1>1, <2>1, <2>2 DEF Sole, AtOwnStep, TotalsBehind, LineOps, SectionOps
    <2> QED BY <2>2, <2>3, <2>4, SoleReads
  <1> QED BY <1>3, <1>4, <1>5, <1>6 DEF SaveStep

LEMMA SoleRecomputes ==
  ASSUME NEW r \in Requests, SoleInv(r), RecomputeStep(r)
  PROVE  SoleInv(r)'
  <1>1. TypeOK /\ ContentTypeOK /\ Sole(req[r]) /\ req[r] \in Request /\ header \in Header
        /\ rowLock \in Requests \cup {Nobody} /\ ActiveLines \in SUBSET Lines
    BY SoleTyped
  <1>2. CASE ReadRate(r)
    <2> DEFINE new == [req[r] EXCEPT !.pc = "sum", !.rate = header.rate]
    <2>1. req[r].pc = "recompute"
      BY <1>2 DEF ReadRate, At
    <2>2. new \in Request /\ new.op = req[r].op /\ new.pc = "sum" /\ new.rate = header.rate
          /\ new.goneLines = req[r].goneLines
      BY <1>1 DEF Request, Steps, Header
    <2>3. req' = [req EXCEPT ![r] = new] /\ UNCHANGED content /\ rowLock' \in Requests \cup {Nobody}
      BY <1>1, <1>2 DEF ReadRate
    <2> HIDE DEF new
    <2>4. Sole(new)
      BY <1>1, <2>1, <2>2 DEF Sole, AtOwnStep, TotalsBehind, LineOps, SectionOps
    <2> QED BY <2>2, <2>3, <2>4, SoleReads
  <1>3. CASE ReadLines(r)
    <2> DEFINE new == [req[r] EXCEPT !.pc = "total", !.seenLines = VisibleLines(r)]
    <2>1. req[r].pc = "sum"
      BY <1>3 DEF ReadLines, At
    <2>2. VisibleLines(r) = IF req[r].op = "save" THEN req[r].lines ELSE ActiveLines
      BY <1>1, <2>1 DEF Sole, VisibleLines
    <2>3. VisibleLines(r) \in SUBSET Lines
      BY <1>1, <2>2 DEF Request
    <2>4. new \in Request /\ new.op = req[r].op /\ new.pc = "total" /\ new.rate = req[r].rate
          /\ new.lines = req[r].lines /\ new.goneLines = req[r].goneLines
          /\ new.seenLines = VisibleLines(r)
      BY <1>1, <2>3 DEF Request, Steps
    <2>5. req' = [req EXCEPT ![r] = new] /\ UNCHANGED content /\ rowLock' \in Requests \cup {Nobody}
      BY <1>1, <1>3 DEF ReadLines
    <2> HIDE DEF new
    <2>6. Sole(new)
      BY <1>1, <2>1, <2>2, <2>4 DEF Sole, AtOwnStep, TotalsBehind, LineOps, SectionOps
    <2> QED BY <2>4, <2>5, <2>6, SoleReads
  <1>4. CASE WriteTotals(r)
    <2>1. req[r].pc = "total" /\ UNCHANGED <<project, sections, lines, chantier, rowLock>>
      BY <1>4 DEF WriteTotals, At
    <2>2. CASE InTransaction(r)
      <3>1. req[r].op = "save"
        BY <1>1, <2>1, <2>2 DEF InTransaction, Sole, AtOwnStep, LineOps, SectionOps
      <3>2. Goto(r, "commit") /\ UNCHANGED content /\ "commit" \in Steps
        BY <1>4, <2>1, <2>2 DEF WriteTotals, content, Steps
      <3> QED BY <1>1, <2>1, <3>1, <3>2, SoleGoes
    <2>3. CASE ~InTransaction(r)
      <3>1. header' = [header EXCEPT !.totals = ReadTotals(r)] /\ Answer(r) /\ req[r].op # "save"
        BY <1>4, <2>3 DEF WriteTotals, InTransaction
      <3>2. ReadTotals(r) = [rate |-> header.rate, lines |-> ActiveLines] /\ ReadTotals(r) \in Totals
        BY <1>1, <2>1, <3>1 DEF Sole, ReadTotals, Totals, Header
      <3>3. header' \in Header /\ header'.rate = header.rate /\ header'.totals = ReadTotals(r)
        BY <1>1, <3>1, <3>2 DEF Header
      <3>4. ActiveLines' = ActiveLines
        BY <2>1 DEF ActiveLines
      <3>5. ContentTypeOK' /\ TotalsAddUp'
        BY <1>1, <2>1, <3>2, <3>3, <3>4 DEF ContentTypeOK, TotalsAddUp
      <3> QED BY <1>1, <2>1, <3>1, <3>5, SoleWrites
    <2> QED BY <2>2, <2>3
  <1> QED BY <1>2, <1>3, <1>4 DEF RecomputeStep

LEMMA SoleAccepts ==
  ASSUME NEW r \in Requests, SoleInv(r), AcceptStep(r)
  PROVE  SoleInv(r)'
  <1>1. TypeOK /\ Sole(req[r]) /\ req[r] \in Request /\ rowLock \in Requests \cup {Nobody}
        /\ ActiveLines \in SUBSET Lines /\ Active(sections) \in SUBSET Sections
    BY SoleTyped
  <1>2. {"copy_sections", "rollback"} \subseteq Steps
    BY DEF Steps
  <1>3. ASSUME At(r, "flip") PROVE req[r].op = "accept" /\ req[r].pc = "flip"
    BY <1>1, <1>3 DEF At, Sole, AtOwnStep, LineOps, SectionOps
  <1>4. CASE FlipToAccepted(r)
    BY <1>2, <1>3, <1>4, SoleGoes DEF FlipToAccepted
  <1>5. CASE RefuseAccept(r)
    BY <1>1, <1>2, <1>3, <1>5, SoleGoes DEF RefuseAccept
  <1>6. CASE CopySections(r)
    <2> DEFINE new == [req[r] EXCEPT !.pc = "copy_lines", !.seenSections = Active(sections)]
    <2>1. req[r].pc = "copy_sections" /\ req[r].op = "accept"
      BY <1>1, <1>6 DEF CopySections, At, Sole, AtOwnStep, LineOps, SectionOps
    <2>2. new \in Request /\ new.op = req[r].op /\ new.pc = "copy_lines"
      BY <1>1 DEF Request, Steps
    <2>3. req' = [req EXCEPT ![r] = new] /\ UNCHANGED content /\ rowLock' \in Requests \cup {Nobody}
      BY <1>1, <1>6 DEF CopySections
    <2> HIDE DEF new
    <2>4. Sole(new)
      BY <1>1, <2>1, <2>2 DEF Sole, AtOwnStep, TotalsBehind, LineOps, SectionOps
    <2> QED BY <2>2, <2>3, <2>4, SoleReads
  <1>7. CASE CopyLines(r)
    <2> DEFINE new == [req[r] EXCEPT !.pc = "commit", !.seenLines = ActiveLines]
    <2>1. req[r].pc = "copy_lines" /\ req[r].op = "accept"
      BY <1>1, <1>7 DEF CopyLines, At, Sole, AtOwnStep, LineOps, SectionOps
    <2>2. new \in Request /\ new.op = req[r].op /\ new.pc = "commit"
      BY <1>1 DEF Request, Steps
    <2>3. req' = [req EXCEPT ![r] = new] /\ UNCHANGED content /\ rowLock' \in Requests \cup {Nobody}
      BY <1>1, <1>7 DEF CopyLines
    <2> HIDE DEF new
    <2>4. Sole(new)
      BY <1>1, <2>1, <2>2 DEF Sole, AtOwnStep, TotalsBehind, LineOps, SectionOps
    <2> QED BY <2>2, <2>3, <2>4, SoleReads
  <1> QED BY <1>4, <1>5, <1>6, <1>7 DEF AcceptStep

\* A save commits the lines its totals were computed from.
LEMMA SoleCommits ==
  ASSUME NEW r \in Requests, SoleInv(r), Commit(r)
  PROVE  SoleInv(r)'
  <1>1. TypeOK /\ ContentTypeOK /\ Sole(req[r]) /\ req[r] \in Request /\ header \in Header
    BY SoleTyped
  <1>2. req[r].pc = "commit" /\ Answer(r) /\ rowLock' = Nobody /\ UNCHANGED project
    BY DEF Commit, At
  <1>3. CASE req[r].op = "save"
    <2>1. /\ sections' = [s \in Sections |->
                      IF s \in req[r].sections THEN "active"
                      ELSE IF s \in req[r].goneSections THEN "archived" ELSE sections[s]]
          /\ lines' = [l \in Lines |->
                   IF l \in req[r].lines THEN "active"
                   ELSE IF l \in req[r].goneLines THEN "archived" ELSE lines[l]]
          /\ header' = [header EXCEPT !.totals = ReadTotals(r)] /\ chantier' = chantier
      BY <1>3 DEF Commit, CommitSave
    <2>2. /\ req[r].goneLines = ActiveLines /\ req[r].rate = header.rate
          /\ req[r].seenLines = req[r].lines /\ req[r].lines \subseteq Lines
      BY <1>1, <1>2, <1>3 DEF Sole, Request
    <2>3. ReadTotals(r) = [rate |-> header.rate, lines |-> req[r].lines] /\ ReadTotals(r) \in Totals
      BY <1>1, <2>2 DEF ReadTotals, Totals, Header
    <2>4. header' \in Header /\ header'.rate = header.rate /\ header'.totals = ReadTotals(r)
      BY <1>1, <2>1, <2>3 DEF Header
    <2>5. lines' \in [Lines -> RowState] /\ sections' \in [Sections -> RowState]
      BY <1>1, <2>1 DEF ContentTypeOK, RowState
    <2>6. lines \in [Lines -> RowState]
      BY <1>1 DEF ContentTypeOK
    <2>7. ActiveLines' = req[r].lines
      BY <2>1, <2>2, <2>5, <2>6 DEF ActiveLines, Active
    <2>8. ContentTypeOK' /\ TotalsAddUp'
      BY <1>1, <1>2, <2>1, <2>3, <2>4, <2>5, <2>7 DEF ContentTypeOK, TotalsAddUp
    <2> QED BY <1>2, <2>8, SoleWrites
  <1>4. CASE req[r].op # "save"
    <2>1. /\ header' = [header EXCEPT !.status = "ACCEPTED"]
          /\ chantier' = CopiedLines(req[r].seenSections, req[r].seenLines)
          /\ UNCHANGED <<sections, lines>>
      BY <1>4 DEF Commit, CommitAccept
    <2>2. TotalsAddUp
      BY <1>1, <1>2 DEF Sole, TotalsBehind
    <2>3. header' \in Header /\ header'.rate = header.rate /\ header'.totals = header.totals
      BY <1>1, <2>1 DEF Header, Statuses
    <2>4. chantier' \in SUBSET Lines
      BY <1>1, <2>1 DEF CopiedLines, Request
    <2>5. ActiveLines' = ActiveLines
      BY <2>1 DEF ActiveLines
    <2>6. ContentTypeOK' /\ TotalsAddUp'
      BY <1>1, <1>2, <2>1, <2>2, <2>3, <2>4, <2>5 DEF ContentTypeOK, TotalsAddUp
    <2> QED BY <1>2, <2>6, SoleWrites
  <1> QED BY <1>3, <1>4

LEMMA SoleRollsBack ==
  ASSUME NEW r \in Requests, SoleInv(r), Rollback(r)
  PROVE  SoleInv(r)'
  <1>1. Sole(req[r]) /\ rowLock \in Requests \cup {Nobody}
    BY SoleTyped
  <1>2. Answer(r) /\ UNCHANGED content /\ rowLock' \in Requests \cup {Nobody}
        /\ req[r].pc = "rollback"
    BY <1>1 DEF Rollback, At
  <1>3. TotalsAddUp
    BY <1>1, <1>2 DEF Sole, TotalsBehind
  <1> QED BY <1>2, <1>3, SoleAnswered

\* Its statement changes the document, and the totals are computed next.
LEMMA SoleFallsBehind ==
  ASSUME NEW r \in Requests, SoleInv(r), Goto(r, "recompute"), ContentTypeOK',
         rowLock' \in Requests \cup {Nobody}, req[r].op \in {"edit"} \cup LineOps
  PROVE  SoleInv(r)'
  <1>1. PICK new \in Request :
            req' = [req EXCEPT ![r] = new] /\ req'[r] = new /\ new.pc = "recompute" /\ new.op = req[r].op
    BY Gone DEF SoleInv, Steps
  <1>2. TypeOK'
    BY <1>1 DEF SoleInv, TypeOK
  <1> QED BY <1>1, <1>2 DEF SoleInv, Sole, AtOwnStep, TotalsBehind, LineOps, SectionOps

LEMMA SolePools ==
  ASSUME NEW r \in Requests, SoleInv(r), PoolStep(r)
  PROVE  SoleInv(r)'
  <1>1. TypeOK /\ ContentTypeOK /\ Sole(req[r]) /\ req[r] \in Request /\ header \in Header
        /\ rowLock \in Requests \cup {Nobody}
    BY SoleTyped
  <1>2. CASE UpdateHeader(r)
    <2>1. req[r].pc = "update" /\ req[r].op = "edit" /\ TotalsAddUp
          /\ UNCHANGED <<project, sections, lines, chantier, rowLock>>
      BY <1>1, <1>2 DEF UpdateHeader, At, Sole, AtOwnStep, TotalsBehind, LineOps, SectionOps
    <2>2. CASE OpenForEditing(header.type, header.status)
      <3>1. header' = [header EXCEPT !.rate = req[r].rate] /\ Goto(r, "recompute")
        BY <1>2, <2>2 DEF UpdateHeader
      <3>2. header' \in Header
        BY <1>1, <3>1 DEF Header, Request
      <3> QED BY <1>1, <2>1, <3>1, <3>2, SoleFallsBehind DEF ContentTypeOK
    <2>3. CASE ~OpenForEditing(header.type, header.status)
      <3>1. Answer(r) /\ UNCHANGED content
        BY <1>2, <2>1, <2>3 DEF UpdateHeader, content
      <3> QED BY <1>1, <2>1, <3>1, SoleAnswered
    <2> QED BY <2>2, <2>3
  <1>3. CASE UpdateStatus(r)
    <2>1. Answer(r) /\ TotalsAddUp /\ UNCHANGED <<project, sections, lines, chantier, rowLock>>
      BY <1>1, <1>3 DEF UpdateStatus, At, Sole, TotalsBehind
    <2>2. header' = header \/ header' = [header EXCEPT !.status = req[r].want]
      BY <1>3 DEF UpdateStatus
    <2>3. header' \in Header /\ header'.rate = header.rate /\ header'.totals = header.totals
      BY <1>1, <2>2 DEF Header, Request
    <2>4. ContentTypeOK' /\ TotalsAddUp'
      BY <1>1, <2>1, <2>3 DEF ContentTypeOK, TotalsAddUp, ActiveLines
    <2> QED BY <1>1, <2>1, <2>4, SoleWrites
  <1>4. CASE WriteLine(r)
    <2>1. /\ req[r].op \in LineOps /\ Goto(r, "recompute")
          /\ UNCHANGED <<header, project, sections, chantier, rowLock>>
          /\ lines' = [l \in Lines |->
                   IF l \notin req[r].lines THEN lines[l]
                   ELSE IF req[r].op = "archive_line" THEN "archived" ELSE "active"]
      BY <1>4 DEF WriteLine, LineOps
    <2>2. lines' \in [Lines -> RowState]
      BY <1>1, <2>1 DEF ContentTypeOK, RowState
    <2>3. ContentTypeOK'
      BY <1>1, <2>1, <2>2 DEF ContentTypeOK
    <2> QED BY <1>1, <2>1, <2>3, SoleFallsBehind
  <1>5. CASE WriteSection(r)
    <2>1. /\ Answer(r) /\ TotalsAddUp /\ UNCHANGED <<header, project, lines, chantier, rowLock>>
          /\ sections' = [s \in Sections |->
                      IF s \notin req[r].sections THEN sections[s]
                      ELSE IF req[r].op = "archive_section" THEN "archived" ELSE "active"]
      BY <1>1, <1>5 DEF WriteSection, At, Sole, TotalsBehind
    <2>2. sections' \in [Sections -> RowState]
      BY <1>1, <2>1 DEF ContentTypeOK, RowState
    <2>3. ContentTypeOK' /\ TotalsAddUp'
      BY <1>1, <2>1, <2>2 DEF ContentTypeOK, TotalsAddUp, ActiveLines
    <2> QED BY <1>1, <2>1, <2>3, SoleWrites
  <1> QED BY <1>2, <1>3, <1>4, <1>5 DEF PoolStep

\* No request moves: the document, or its chantier, is archived or closed.
LEMMA SoleStands ==
  ASSUME NEW r \in Requests, SoleInv(r), ArchiveDocument \/ UpdateProject \/ UNCHANGED vars
  PROVE  SoleInv(r)'
  <1>1. ContentTypeOK /\ header \in Header /\ Sole(req[r])
    BY SoleTyped
  <1>2. UNCHANGED <<sections, lines, chantier, rowLock, req>>
    BY DEF ArchiveDocument, UpdateProject, vars, content
  <1>3. \/ \E active \in BOOLEAN : header' = [header EXCEPT !.active = active]
        \/ header' = header
    BY DEF ArchiveDocument, UpdateProject, vars, content
  <1>4. /\ header' \in Header /\ header'.rate = header.rate /\ header'.totals = header.totals
        /\ header'.type = header.type /\ header'.status = header.status
    BY <1>1, <1>3 DEF Header
  <1>5. project' \in [status : {"IN_PROGRESS", "COMPLETED"}, active : BOOLEAN]
    BY <1>1 DEF ContentTypeOK, ArchiveDocument, UpdateProject, vars, content
  <1>6. ContentTypeOK' /\ ActiveLines' = ActiveLines
    BY <1>1, <1>2, <1>4, <1>5 DEF ContentTypeOK, ActiveLines
  <1>7. (TotalsAddUp' <=> TotalsAddUp) /\ (Closed' <=> Closed)
    BY <1>4, <1>6 DEF TotalsAddUp, Closed
  <1>8. req[r]' = req[r]
    BY <1>2
  <1>9. Sole(req[r])'
    BY <1>1, <1>4, <1>6, <1>7, <1>8 DEF Sole, AtOwnStep, TotalsBehind, LineOps, SectionOps
  <1>10. TypeOK'
    BY <1>2, <1>6 DEF SoleInv, TypeOK
  <1> QED BY <1>9, <1>10 DEF SoleInv

LEMMA SoleStep ==
  ASSUME NEW r \in Requests, Requests = {r}, SoleInv(r), [SequentialNext]_vars
  PROVE  SoleInv(r)'
  <1>1. CASE Arrive(r)
    BY <1>1, SoleArrives
  <1>2. CASE Advance(r)
    BY <1>2, SoleSaves, SoleAccepts, SoleRecomputes, SolePools, SoleCommits, SoleRollsBack DEF Advance
  <1>3. CASE ArchiveDocument \/ UpdateProject \/ UNCHANGED vars
    BY <1>3, SoleStands
  <1> QED BY <1>1, <1>2, <1>3 DEF SequentialNext

\* A closed document's rate, sections and lines are written by no step.
LEMMA SoleLeavesClosed ==
  ASSUME NEW r \in Requests, Requests = {r}, SoleInv(r), [SequentialNext]_vars, Closed
  PROVE  UNCHANGED <<header.rate, sections, lines>>
  <1>1. Sole(req[r]) /\ header \in Header
    BY SoleTyped
  <1>2. ~OpenForEditing(header.type, header.status)
    BY DEF Closed
  <1>3. CASE Arrive(r)
    <2>1. UNCHANGED content
      BY <1>3 DEF Arrive, StartSave, StartAccept, StartEdit, StartStatus, StartAddLine, StartSetLine,
                  StartAddSection, StartSetSection, Start
    <2> QED BY <2>1 DEF content
  <1>4. CASE SaveStep(r) \/ AcceptStep(r) \/ Rollback(r)
    <2>1. UNCHANGED content
      BY <1>4 DEF SaveStep, LockDocument, CheckEditable, ArchiveLines, InsertContent, AcceptStep,
                  FlipToAccepted, RefuseAccept, CopySections, CopyLines, Rollback
    <2> QED BY <2>1 DEF content
  <1>5. CASE RecomputeStep(r)
    <2>1. UNCHANGED <<sections, lines>>
      BY <1>5 DEF RecomputeStep, ReadRate, ReadLines, WriteTotals, content
    <2>2. header' = header \/ header' = [header EXCEPT !.totals = ReadTotals(r)]
      BY <1>5 DEF RecomputeStep, ReadRate, ReadLines, WriteTotals, content
    <2>3. header'.rate = header.rate
      BY <1>1, <2>2 DEF Header
    <2> QED BY <2>1, <2>3
  <1>6. CASE UpdateHeader(r)
    BY <1>2, <1>6 DEF UpdateHeader
  <1>7. CASE UpdateStatus(r)
    <2>1. header' = header \/ header' = [header EXCEPT !.status = req[r].want]
      BY <1>7 DEF UpdateStatus
    <2>2. header'.rate = header.rate
      BY <1>1, <2>1 DEF Header
    <2> QED BY <1>7, <2>2 DEF UpdateStatus
  <1>8. CASE WriteLine(r) \/ WriteSection(r)
    <2>1. req[r].pc = "write" /\ req[r].op \in LineOps \cup SectionOps
      BY <1>8 DEF WriteLine, WriteSection, At, LineOps, SectionOps
    <2> QED BY <1>1, <2>1 DEF Sole
  <1>9. CASE Commit(r)
    <2>1. req[r].op # "save"
      BY <1>1, <1>9 DEF Commit, At, Sole
    <2>2. header' = [header EXCEPT !.status = "ACCEPTED"] /\ UNCHANGED <<sections, lines>>
      BY <1>9, <2>1 DEF Commit, CommitAccept
    <2>3. header'.rate = header.rate
      BY <1>1, <2>2 DEF Header
    <2> QED BY <2>2, <2>3
  <1>10. CASE ArchiveDocument
    <2>1. PICK active \in BOOLEAN : header' = [header EXCEPT !.active = active]
      BY <1>10 DEF ArchiveDocument
    <2>2. header'.rate = header.rate
      BY <1>1, <2>1 DEF Header
    <2> QED BY <1>10, <2>2 DEF ArchiveDocument
  <1>11. CASE UpdateProject \/ UNCHANGED vars
    BY <1>11 DEF UpdateProject, vars, content
  <1> QED
    BY <1>3, <1>4, <1>5, <1>6, <1>7, <1>8, <1>9, <1>10, <1>11 DEF SequentialNext, Advance, PoolStep

\* One request at a time, of all ten kinds, each leaves amounts that are those of the
\* lines at the document's rate (recomputeDocumentTotalsServ, addLineServ and the rest).
THEOREM TotalsFollow ==
  ASSUME NEW r \in Requests, Requests = {r}
  PROVE  SequentialSpec => []TotalsAddUpAtRest
  <1>1. SoleInv(r) => TotalsAddUpAtRest
    BY DEF SoleInv, Sole, TotalsBehind, TotalsAddUpAtRest, Idle
  <1>2. Init => SoleInv(r)
    BY SoleInit
  <1>3. SoleInv(r) /\ [SequentialNext]_vars => SoleInv(r)'
    BY SoleStep
  <1> QED BY <1>1, <1>2, <1>3, PTL DEF SequentialSpec

\* Nor does any of them touch a document that is answered, or an invoice that is sent
\* (assertContentEditableServ, isOpenForEditing).
THEOREM ClosedStaysClosed ==
  ASSUME NEW r \in Requests, Requests = {r}
  PROVE  SequentialSpec => ClosedContentIsFrozen
  <1>1. Init => SoleInv(r)
    BY SoleInit
  <1>2. SoleInv(r) /\ [SequentialNext]_vars => SoleInv(r)'
    BY SoleStep
  <1>3. SoleInv(r) /\ [SequentialNext]_vars
          => [Closed => UNCHANGED <<header.rate, sections, lines>>]_content
    BY SoleLeavesClosed
  <1> QED BY <1>1, <1>2, <1>3, PTL DEF SequentialSpec, ClosedContentIsFrozen
=============================================================================
