--------------------------- MODULE ScreensProofs ----------------------------
(***************************************************************************)
(* Theorems about Screens: what each page guarantees holds of the whole,   *)
(* whichever of them is open.                                              *)
(***************************************************************************)
EXTENDS Screens, FiniteSetTheorems, SequenceTheorems, WellFoundedInduction, TLAPS

-----------------------------------------------------------------------------
(* One page moves at a time. *)

LEMMA OneMoves ==
  ASSUME ScreensNext
  PROVE  \/ part = "form" /\ Form!Next /\ Rest
         \/ part = "agenda" /\ Agenda!Next /\ Rest
         \/ part = "settings" /\ Settings!Next /\ Rest
         \/ part = "routes" /\ Routes!Next /\ Rest
         \/ part = "list" /\ List!Next /\ Rest
  BY DEF ScreensNext, Form!Next, Agenda!Next, Settings!Next, Routes!Next, List!Next,
     FormChangeParams, FormLoadFails, FormLeave, FormBranch, FormReceive, FormReadFails,
     FormPickClient, FormSwitchRecipient, FormEditSections, FormRemoveImported, FormSubmit,
     FormSaving, AgendaLoadFinds, AgendaLoadAnswers, AgendaEvent, AgendaDialog, AgendaWriting,
     SettingsScreen, SettingsWrite, SettingsFails, SettingsSaveDraft, SettingsReadRow,
     RoutesFollow, RoutesClick, RoutesClickSignedOut, RoutesFollowLink, RoutesType, RoutesLogIn,
     RoutesRegister, RoutesDocumentCreated, RoutesSessionEnds, RoutesImpersonateCompany,
     RoutesReturnToPlatformView, ListChoose, ListFinds, ListAnswers, ListReadFails, ListChange,
     ListChanged, ListChangeFails

\* A step of the whole is, for each page, one of its own or none.
LEMMA StepOfEach ==
  ASSUME [ScreensNext]_screensVars
  PROVE  /\ part' = part
         /\ [Form!Next]_formVars /\ [Agenda!Next]_agendaVars /\ [Settings!Next]_settingsVars
         /\ [Routes!Next]_routesVars /\ [List!Next]_listVars
<1>1. CASE UNCHANGED screensVars
  BY <1>1 DEF screensVars
<1>2. CASE ScreensNext /\ ~UNCHANGED screensVars
  BY <1>2, OneMoves DEF Rest
<1> QED BY <1>1, <1>2
-----------------------------------------------------------------------------
(***************************************************************************)
(* The lists.                                                              *)
(***************************************************************************)
\* The last read asked for is for the filter chosen, and what it has found is what
\* the filter asks for; so is what the page shows once it has been answered.  The
\* list that drops its reads waits for the last one alone.
ListInv ==
    /\ List!TypeOK
    /\ ~listFailed =>
          /\ \A r \in listReads : r.n = listAsked =>
                r.filter = listFilter /\ (r.found # None => r.found = List!Listed(listFilter))
          /\ listAnswered = listAsked => listShown = List!Listed(listFilter)
          /\ listDrops /\ listReads = {} => listAnswered = listAsked
    /\ listDrops => listChanges = {} /\ \A r \in listReads : r.n = listAsked

LEMMA ListedIsAList ==
  ASSUME List!TypeOK, NEW f \in Filters
  PROVE  List!Listed(f) \in List!Lists /\ List!Listed(f) # None
<1>1. List!Listed(f) \in List!Lists
  BY DEF List!TypeOK, List!Lists, List!Listed
<1> QED BY <1>1, ListAssumption DEF List!Lists

LEMMA ListInitInv == List!Init => ListInv
<1> SUFFICES ASSUME List!Init PROVE ListInv
  OBVIOUS
<1>1. listShown \in List!Lists
  BY DEF List!Init, List!Lists
<1>2. listReads \subseteq [n : 1..listAsked, filter : Filters, found : List!Lists \cup {None}]
  BY DEF List!Init, List!Read
<1>3. /\ listDrops \in BOOLEAN /\ listServer \in List!Lists /\ listFilter \in Filters
      /\ listAsked = 1 /\ listAnswered = 0 /\ listChanges = {}
      /\ listFailed = FALSE /\ listMoves = 0
  BY DEF List!Init
<1>4. List!TypeOK
  <2>1. listChanges \subseteq Rows \X (ListKinds \cup {None})
    BY <1>3
  <2>2. listAsked \in Nat /\ listAnswered \in 0..listAsked /\ listMoves \in 0..ListMoves
    BY <1>3, ListAssumption
  <2>3. listFailed \in BOOLEAN
    BY <1>3
  <2> QED BY <1>1, <1>2, <1>3, <2>1, <2>2, <2>3, Zenon DEF List!TypeOK
<1>5. listReads # {} /\ \A r \in listReads : r.n = 1 /\ r.filter = listFilter /\ r.found = None
  BY DEF List!Init, List!Read
<1> QED BY <1>3, <1>4, <1>5 DEF ListInv

\* A read is asked for: the ones before are not the last any more.
LEMMA ListLoads ==
  ASSUME ListInv, List!Loads(listFilter'), listFilter' \in Filters
  PROVE  /\ listAsked' \in Nat /\ listAnswered < listAsked' /\ listAnswered \in 0..listAsked'
         /\ listReads' # {}
         /\ listReads' \subseteq
               [n : 1..listAsked', filter : Filters, found : List!Lists \cup {None}]
         /\ \A r \in listReads' : r.n = listAsked' => r.filter = listFilter' /\ r.found = None
         /\ listDrops => \A r \in listReads' : r.n = listAsked'
<1> DEFINE new == [n |-> listAsked + 1, filter |-> listFilter', found |-> None]
<1>1. listAsked' = listAsked + 1 /\ listReads' = (IF listDrops THEN {} ELSE listReads) \cup {new}
  BY DEF List!Loads, List!Read
<1>2. listAsked \in Nat
  BY DEF ListInv, List!TypeOK
<1>3. \A r \in listReads : r.n \in 1..listAsked /\ r.filter \in Filters /\ r.found \in List!Lists \cup {None}
  BY DEF ListInv, List!TypeOK
<1>4. listReads \subseteq [n : 1..listAsked', filter : Filters, found : List!Lists \cup {None}]
  <2> SUFFICES ASSUME NEW r \in listReads
               PROVE  r \in [n : 1..listAsked', filter : Filters, found : List!Lists \cup {None}]
    OBVIOUS
  <2>1. r \in [n : 1..listAsked, filter : Filters, found : List!Lists \cup {None}]
    BY DEF ListInv, List!TypeOK
  <2> QED BY <2>1, <1>1, <1>2
<1>5. new \in [n : 1..listAsked', filter : Filters, found : List!Lists \cup {None}]
  BY <1>1, <1>2
<1>6. listAnswered \in 0..listAsked
  BY DEF ListInv, List!TypeOK
<1>7. \A r \in listReads : r.n # listAsked'
  BY <1>1, <1>2, <1>3
<1>8. new.n = listAsked' /\ new.filter = listFilter' /\ new.found = None
  BY <1>1
<1> HIDE DEF new
<1>9. \A r \in listReads' : r.n = listAsked' => r = new
  BY <1>1, <1>7
<1>10. listDrops => \A r \in listReads' : r = new
  BY <1>1
<1>11. listReads' \subseteq [n : 1..listAsked', filter : Filters, found : List!Lists \cup {None}]
  BY <1>1, <1>4, <1>5
<1> QED BY <1>1, <1>2, <1>6, <1>8, <1>9, <1>10, <1>11

LEMMA ListMoved ==
  ASSUME List!TypeOK, List!Move
  PROVE  listMoves' \in 0..ListMoves
  BY ListAssumption DEF List!TypeOK, List!Move

LEMMA ListChooseKeeps ==
  ASSUME ListInv, NEW f \in Filters, List!Choose(f)
  PROVE  ListInv'
<1>1. List!Loads(listFilter') /\ listFilter' \in Filters
  BY DEF List!Choose
<1>2. listMoves' \in 0..ListMoves
  BY ListMoved DEF ListInv, List!Choose
<1>3. List!TypeOK'
  BY <1>1, <1>2, ListLoads DEF ListInv, List!TypeOK, List!Choose
<1> QED BY <1>1, <1>3, ListLoads DEF ListInv, List!Choose, List!TypeOK

LEMMA ListFindsKeeps ==
  ASSUME ListInv, NEW k, List!Finds(k)
  PROVE  ListInv'
<1> PICK r \in listReads :
      /\ r.n = k /\ r.found = None
      /\ listReads' = (listReads \ {r}) \cup {[r EXCEPT !.found = List!Listed(r.filter)]}
      /\ UNCHANGED <<listDrops, listServer, listFilter, listShown, listAsked, listAnswered,
                     listChanges, listFailed, listMoves>>
  BY DEF List!Finds
<1> DEFINE new == [r EXCEPT !.found = List!Listed(r.filter)]
<1>1. r \in [n : 1..listAsked, filter : Filters, found : List!Lists \cup {None}]
  BY DEF ListInv, List!TypeOK
<1>2. List!Listed(r.filter) \in List!Lists
  BY <1>1, ListedIsAList DEF ListInv
<1>3. /\ new \in [n : 1..listAsked, filter : Filters, found : List!Lists \cup {None}]
      /\ new.n = r.n /\ new.filter = r.filter /\ new.found = List!Listed(r.filter)
  BY <1>1, <1>2
<1> HIDE DEF new
<1>4. List!TypeOK'
  BY <1>3 DEF ListInv, List!TypeOK
<1>5. List!Listed(listFilter)' = List!Listed(listFilter)
  BY DEF List!Listed
<1>6. listReads' = (listReads \ {r}) \cup {new}
  BY DEF new
<1> QED BY <1>3, <1>4, <1>5, <1>6 DEF ListInv

LEMMA ListAnswersKeeps ==
  ASSUME ListInv, NEW k, List!Answers(k)
  PROVE  ListInv'
<1> PICK r \in listReads :
      /\ r.n = k /\ r.found # None /\ listReads' = listReads \ {r}
      /\ listShown' = r.found /\ listAnswered' = r.n
      /\ UNCHANGED <<listDrops, listServer, listFilter, listAsked, listChanges, listFailed,
                     listMoves>>
  BY DEF List!Answers
<1>1. r \in [n : 1..listAsked, filter : Filters, found : List!Lists \cup {None}]
  BY DEF ListInv, List!TypeOK
<1>2. List!TypeOK'
  BY <1>1 DEF ListInv, List!TypeOK
<1>3. List!Listed(listFilter)' = List!Listed(listFilter)
  BY DEF List!Listed
<1> QED BY <1>2, <1>3 DEF ListInv

LEMMA ListReadFailsKeeps ==
  ASSUME ListInv, NEW k, List!ReadFails(k)
  PROVE  ListInv'
<1>1. List!TypeOK'
  BY DEF ListInv, List!TypeOK, List!ReadFails
<1> QED BY <1>1 DEF ListInv, List!ReadFails

LEMMA ListChangeKeeps ==
  ASSUME ListInv, NEW r \in Rows, NEW x \in Changes, List!Change(r, x)
  PROVE  ListInv'
<1>1. listMoves' \in 0..ListMoves
  BY ListMoved DEF ListInv, List!Change
<1>2. List!TypeOK'
  BY <1>1, ListAssumption DEF ListInv, List!TypeOK, List!Change
<1>3. List!Listed(listFilter)' = List!Listed(listFilter)
  BY DEF List!Listed, List!Change
<1> QED BY <1>2, <1>3 DEF ListInv, List!Change

LEMMA ListChangedKeeps ==
  ASSUME ListInv, NEW r \in Rows, NEW x \in Changes, List!Changed(r, x)
  PROVE  ListInv'
<1>1. List!Loads(listFilter') /\ listFilter' \in Filters
  BY DEF ListInv, List!TypeOK, List!Changed
<1>2. listServer' \in List!Lists
  BY ListAssumption DEF ListInv, List!TypeOK, List!Lists, List!Changed
<1>3. List!TypeOK'
  BY <1>1, <1>2, ListLoads DEF ListInv, List!TypeOK, List!Changed
<1> QED BY <1>1, <1>3, ListLoads DEF ListInv, List!Changed, List!TypeOK

LEMMA ListChangeFailsKeeps ==
  ASSUME ListInv, NEW r \in Rows, NEW x \in Changes, List!ChangeFails(r, x)
  PROVE  ListInv'
<1>1. listServer' \in List!Lists /\ listFailed' \in BOOLEAN
  BY ListAssumption DEF ListInv, List!TypeOK, List!Lists, List!ChangeFails
<1>2. List!TypeOK'
  BY <1>1 DEF ListInv, List!TypeOK, List!ChangeFails
<1>3. ~listFailed' => List!Listed(listFilter)' = List!Listed(listFilter)
  BY DEF List!Listed, List!ChangeFails
<1> QED BY <1>2, <1>3 DEF ListInv, List!ChangeFails

LEMMA ListStep == ListInv /\ [List!Next]_listVars => ListInv'
<1> SUFFICES ASSUME ListInv, [List!Next]_listVars PROVE ListInv'
  OBVIOUS
<1>1. CASE UNCHANGED listVars
  BY <1>1 DEF listVars, ListInv, List!TypeOK, List!Listed
<1>2. CASE List!Next
  BY <1>2, ListChooseKeeps, ListFindsKeeps, ListAnswersKeeps, ListReadFailsKeeps,
     ListChangeKeeps, ListChangedKeeps, ListChangeFailsKeeps DEF List!Next
<1> QED BY <1>1, <1>2

LEMMA ListInvImplies == ListInv => ShowsWhatIsAsked
  BY DEF ListInv, ShowsWhatIsAsked, List!ShowsWhatIsAsked

\* A list whose reads and changes have been answered shows what its filter asks for,
\* as it is after the changes made from it.
THEOREM ListsShowWhatIsAsked == ScreensSpec => []ShowsWhatIsAsked
<1>1. ScreensInit => ListInv
  BY ListInitInv DEF ScreensInit
<1>2. ListInv /\ [ScreensNext]_screensVars => ListInv'
  BY StepOfEach, ListStep
<1> QED BY <1>1, <1>2, ListInvImplies, PTL DEF ScreensSpec
-----------------------------------------------------------------------------
(***************************************************************************)
(* Navigation.                                                             *)
(***************************************************************************)
NoPageTwice(t) == \A i, j \in 1..Len(t) : t[i].page = t[j].page => i = j

\* On a page that needs no session the trail is empty, which is why nobody who logs
\* in finds another's; and the trail ends with the page shown even while a
\* navigation is under way.
NavInv ==
    /\ Routes!TypeOK
    /\ Routes!AdmittedHere /\ Routes!TrailIsOwn
    /\ navPage # None /\ Routes!Named(navPage) => navTrail # <<>> /\ navTrail[Len(navTrail)].page = navPage
    /\ NoPageTwice(navTrail)
    /\ navPage \in Routes!Public => navTrail = <<>>

\* Where a page stands in a trail that has it.
LEMMA FirstIndex ==
  ASSUME NEW set, set \subseteq Nat, set # {}
  PROVE  Routes!Min(set) \in set
<1>1. PICK x \in set : \A y \in set : <<y, x>> \notin OpToRel(<, Nat)
  BY WFMin, NatLessThanWellFounded, Zenon
<1>2. \A y \in set : ~ (y < x)
  BY <1>1, Zenon DEF OpToRel
<1>3. \A y \in set : x <= y
  BY <1>2
<1> QED BY <1>3 DEF Routes!Min

LEMMA PlaceInTrail ==
  ASSUME navTrail \in Seq(Routes!Entry), NEW p
  PROVE  LET at == Routes!SelectInSeq(navTrail, LAMBDA e : e.page = p)
         IN  \/ at \in 1..Len(navTrail) /\ navTrail[at].page = p
             \/ at = 0 /\ \A i \in 1..Len(navTrail) : navTrail[i].page # p
<1> DEFINE set == {i \in 1..Len(navTrail) : navTrail[i].page = p}
<1>1. set \subseteq Nat
  OBVIOUS
<1>2. Routes!SelectInSeq(navTrail, LAMBDA e : e.page = p) = IF set # {} THEN Routes!Min(set) ELSE 0
  BY DEF Routes!SelectInSeq
<1>3. CASE set # {}
  <2>1. Routes!Min(set) \in set BY <1>1, <1>3, FirstIndex
  <2> QED BY <1>2, <1>3, <2>1
<1>4. CASE set = {}
  BY <1>2, <1>4
<1> QED BY <1>3, <1>4

\* What a trail is cut to, and what a page added to it makes of it.
LEMMA CutTrail ==
  ASSUME NEW t \in Seq(Routes!Entry), NoPageTwice(t), NEW n \in 0..Len(t)
  PROVE  LET u == SubSeq(t, 1, n)
         IN  /\ u \in Seq(Routes!Entry) /\ Len(u) = n /\ NoPageTwice(u)
             /\ \A i \in 1..n : u[i] = t[i]
<1> DEFINE u == SubSeq(t, 1, n)
<1>1. Len(t) \in Nat /\ \A i \in 1..Len(t) : t[i] \in Routes!Entry
  BY ElementOfSeq
<1>2. n \in Int /\ \A i \in 1..n : t[i] \in Routes!Entry
  BY <1>1
<1>3. u \in Seq(Routes!Entry) /\ Len(u) = (IF 1 <= n THEN n - 1 + 1 ELSE 0)
      /\ \A i \in 1..(n - 1 + 1) : u[i] = t[1 + i - 1]
  BY <1>2, SubSeqProperties
<1>4. Len(u) = n /\ \A i \in 1..n : u[i] = t[i]
  BY <1>1, <1>3
<1> HIDE DEF u
<1>5. NoPageTwice(u)
  BY <1>1, <1>4 DEF NoPageTwice
<1>6. u \in Seq(Routes!Entry) BY <1>3
<1> QED BY <1>4, <1>5, <1>6 DEF u

LEMMA LongerTrail ==
  ASSUME NEW t \in Seq(Routes!Entry), NoPageTwice(t), Len(t) <= MaxStored,
         NEW e \in Routes!Entry, \A i \in 1..Len(t) : t[i].page # e.page
  PROVE  LET u == Routes!Latest(Append(t, e))
         IN  /\ u \in Seq(Routes!Entry) /\ Len(u) <= MaxStored /\ NoPageTwice(u)
             /\ u # <<>> /\ u[Len(u)] = e
             /\ \A i \in 1..Len(u) : u[i] = e \/ \E j \in 1..Len(t) : u[i] = t[j]
<1> DEFINE a == Append(t, e)
<1> DEFINE b == Tail(a)
<1>1. /\ a \in Seq(Routes!Entry) /\ a # <<>> /\ Len(a) = Len(t) + 1
      /\ \A i \in 1..Len(t) : a[i] = t[i]
      /\ a[Len(t) + 1] = e
  BY AppendProperties
<1>2. b \in Seq(Routes!Entry) /\ Len(b) = Len(a) - 1 /\ \A i \in 1..Len(b) : b[i] = a[i + 1]
  BY <1>1, HeadTailProperties
<1>3. Len(t) \in Nat /\ MaxStored \in Nat \ {0}
  BY RoutesAssumption
<1> HIDE DEF a, b
<1>4. \A i \in 1..Len(a) : i \in 1..Len(t) \/ i = Len(t) + 1
  BY <1>1, <1>3
<1>5. NoPageTwice(a)
  BY <1>1, <1>3, <1>4 DEF NoPageTwice
<1>6. CASE Len(a) > MaxStored
  <2>1. Len(b) = Len(t) /\ Len(b) = MaxStored
    BY <1>1, <1>2, <1>3, <1>6
  <2>2. NoPageTwice(b)
    <3> SUFFICES ASSUME NEW i \in 1..Len(b), NEW j \in 1..Len(b), b[i].page = b[j].page
                 PROVE  i = j
      BY DEF NoPageTwice
    <3>1. b[i] = a[i + 1] /\ b[j] = a[j + 1] /\ i + 1 \in 1..Len(a) /\ j + 1 \in 1..Len(a)
      BY <1>1, <1>2, <1>3, <2>1
    <3>2. i + 1 = j + 1
      BY <1>5, <3>1 DEF NoPageTwice
    <3> QED BY <3>2
  <2>3. b # <<>> /\ b[Len(b)] = e
    BY <1>1, <1>2, <1>3, <2>1
  <2>4. \A i \in 1..Len(b) : b[i] = e \/ \E j \in 1..Len(t) : b[i] = t[j]
    <3> TAKE i \in 1..Len(b)
    <3>1. b[i] = a[i + 1] /\ i + 1 \in 1..Len(a)
      BY <1>1, <1>2, <1>3, <2>1
    <3> QED BY <1>1, <1>4, <3>1
  <2>5. Routes!Latest(a) = b
    BY <1>6 DEF Routes!Latest, b
  <2> QED BY <1>2, <1>3, <2>1, <2>2, <2>3, <2>4, <2>5 DEF a
<1>7. CASE ~(Len(a) > MaxStored)
  <2>1. Routes!Latest(a) = a
    BY <1>7 DEF Routes!Latest
  <2>2. \A i \in 1..Len(a) : a[i] = e \/ \E j \in 1..Len(t) : a[i] = t[j]
    BY <1>1, <1>4
  <2>3. Len(a) <= MaxStored /\ a[Len(a)] = e
    BY <1>1, <1>3, <1>7
  <2> QED BY <1>1, <1>5, <2>1, <2>2, <2>3 DEF a
<1> QED BY <1>6, <1>7

\* What is recorded of a page.
LEMMA RecordedTrail ==
  ASSUME navTrail \in Seq(Routes!Entry), Len(navTrail) <= MaxStored, NoPageTwice(navTrail),
         navWho \in Users \cup {None}, NEW p \in Routes!Pages, NEW replaces \in BOOLEAN
  PROVE  LET t == Routes!Recorded(p, replaces)
         IN  /\ t \in Seq(Routes!Entry) /\ Len(t) <= MaxStored /\ NoPageTwice(t)
             /\ p \in Routes!Public => t = <<>>
             /\ Routes!Named(p) => t # <<>> /\ t[Len(t)].page = p
             /\ \A i \in 1..Len(t) :
                   t[i].by = navWho \/ \E j \in 1..Len(navTrail) : t[i] = navTrail[j]
<1> DEFINE at == Routes!SelectInSeq(navTrail, LAMBDA e : e.page = p)
           kept == IF replaces /\ navTrail # <<>> THEN Routes!Front(navTrail) ELSE navTrail
           new == [page |-> p, by |-> navWho]
           t == Routes!Recorded(p, replaces)
<1>1. t = IF p \in Routes!Public THEN <<>>
          ELSE IF ~Routes!Named(p) THEN navTrail
          ELSE IF at > 0 THEN SubSeq(navTrail, 1, at)
          ELSE Routes!Latest(Append(kept, new))
  BY DEF Routes!Recorded
<1>2. \/ at \in 1..Len(navTrail) /\ navTrail[at].page = p
      \/ at = 0 /\ \A i \in 1..Len(navTrail) : navTrail[i].page # p
  BY PlaceInTrail
<1>3. new \in Routes!Entry /\ new.page = p /\ new.by = navWho
  BY DEF Routes!Entry
<1>4. Len(navTrail) \in Nat /\ MaxStored \in Nat \ {0}
  BY RoutesAssumption
<1> HIDE DEF at, t, new
<1>5. CASE p \in Routes!Public
  <2>1. t = <<>> /\ Len(t) = 0 /\ t \in Seq(Routes!Entry)
    BY <1>1, <1>5
  <2>2. ~Routes!Named(p)
    BY <1>5 DEF Routes!Named
  <2> QED BY <1>4, <2>1, <2>2 DEF NoPageTwice, t
<1>6. CASE p \notin Routes!Public /\ ~Routes!Named(p)
  BY <1>1, <1>6 DEF t
<1>7. CASE p \notin Routes!Public /\ Routes!Named(p) /\ at \in 1..Len(navTrail) /\ navTrail[at].page = p
  <2>1. t = SubSeq(navTrail, 1, at) /\ at \in 0..Len(navTrail) /\ at > 0
    BY <1>1, <1>4, <1>7
  <2>2. t \in Seq(Routes!Entry) /\ Len(t) = at /\ NoPageTwice(t) /\ \A i \in 1..at : t[i] = navTrail[i]
    BY <2>1, CutTrail
  <2>3. t[Len(t)].page = p /\ t # <<>> /\ Len(t) <= MaxStored
    BY <1>4, <1>7, <2>1, <2>2
  <2>4. \A i \in 1..Len(t) : \E j \in 1..Len(navTrail) : t[i] = navTrail[j]
    BY <1>4, <2>1, <2>2
  <2> QED BY <1>7, <2>2, <2>3, <2>4 DEF t
<1>8. CASE p \notin Routes!Public /\ Routes!Named(p) /\ at = 0
           /\ \A i \in 1..Len(navTrail) : navTrail[i].page # p
  <2>1. /\ kept \in Seq(Routes!Entry) /\ NoPageTwice(kept) /\ Len(kept) <= Len(navTrail)
        /\ \A i \in 1..Len(kept) : i \in 1..Len(navTrail) /\ kept[i] = navTrail[i]
    <3>1. CASE replaces /\ navTrail # <<>>
      <4>1. Len(navTrail) - 1 \in 0..Len(navTrail) /\ kept = SubSeq(navTrail, 1, Len(navTrail) - 1)
        BY <1>4, <3>1, EmptySeq DEF Routes!Front
      <4> HIDE DEF kept
      <4>2. /\ kept \in Seq(Routes!Entry) /\ NoPageTwice(kept) /\ Len(kept) = Len(navTrail) - 1
            /\ \A i \in 1..(Len(navTrail) - 1) : kept[i] = navTrail[i]
        BY <4>1, CutTrail
      <4> QED BY <1>4, <4>2
    <3>2. CASE ~(replaces /\ navTrail # <<>>)
      BY <1>4, <3>2
    <3> QED BY <3>1, <3>2
  <2> HIDE DEF kept
  <2>2. Len(kept) <= MaxStored /\ \A i \in 1..Len(kept) : kept[i].page # new.page
    BY <1>3, <1>4, <1>8, <2>1
  <2>3. t = Routes!Latest(Append(kept, new))
    BY <1>1, <1>8
  <2>4. /\ t \in Seq(Routes!Entry) /\ Len(t) <= MaxStored /\ NoPageTwice(t)
        /\ t # <<>> /\ t[Len(t)] = new
        /\ \A i \in 1..Len(t) : t[i] = new \/ \E j \in 1..Len(kept) : t[i] = kept[j]
    BY ZenonT(40), <1>3, <2>1, <2>2, <2>3, LongerTrail
  <2> QED BY <1>3, <1>8, <2>1, <2>4 DEF t
<1> QED BY <1>2, <1>5, <1>6, <1>7, <1>8

LEMMA NavInitInv == Routes!Init => NavInv
<1> SUFFICES ASSUME Routes!Init PROVE NavInv
  OBVIOUS
<1>1. navTrail = <<>> /\ navTrail \in Seq(Routes!Entry) /\ Len(navTrail) = 0
  BY DEF Routes!Init
<1>2. navPending \in [to : Routes!Routes, replaces : BOOLEAN]
  BY DEF Routes!Init, Routes!Routes, Routes!Redirects
<1>3. Routes!TypeOK
  <2>1. /\ navWho \in Users \cup {None} /\ navPage \in Routes!Pages \cup {None}
        /\ navSwapped \in BOOLEAN /\ navMoves = 0
    BY DEF Routes!Init
  <2>2. Len(navTrail) <= MaxStored /\ navMoves \in 0..RouteMoves
    BY <1>1, <2>1, RoutesAssumption
  <2> QED BY <1>1, <1>2, <2>1, <2>2 DEF Routes!TypeOK
<1>4. navPage = None /\ navPage \notin Routes!Public
  BY RoutesAssumption DEF Routes!Init, Routes!Pages
<1> QED BY <1>1, <1>3, <1>4 DEF NavInv, NoPageTwice, Routes!AdmittedHere, Routes!TrailIsOwn

LEMMA NavDestination ==
  ASSUME NEW p
  PROVE  /\ p \in Routes!Routes => Routes!To(p) \in [to : Routes!Routes, replaces : BOOLEAN]
                                   /\ Routes!To(p) # None
         /\ {"/", "/login", "/clients", "/dashboard", "/settings/companies", "/documents/1"}
               \subseteq Routes!Routes
<1>1. {"/", "/login", "/clients", "/dashboard", "/settings/companies", "/documents/1"} \subseteq Routes!Routes
  BY DEF Routes!Routes, Routes!Redirects, Routes!Pages, Routes!Public, Routes!CompanyFigures,
     Routes!Company, Routes!Settings, Routes!Platform
<1>2. p \in Routes!Routes => Routes!To(p) \in [to : Routes!Routes, replaces : BOOLEAN]
  BY DEF Routes!To
<1> QED BY <1>1, <1>2, RoutesAssumption

\* A navigation that lets its page through admits who asked for it.
LEMMA NavGuards ==
  ASSUME NEW p \in Routes!Routes
  PROVE  /\ Routes!Guarded(p) \in Routes!Routes
         /\ Routes!Guarded(p) = p => Routes!Admits(navWho, p)
<1>1. Routes!Guarded(p) \in Routes!Routes
  BY NavDestination DEF Routes!Guarded
<1>2. ASSUME Routes!Guarded(p) = p, ~Routes!Refused(p), ~Routes!Denied(p) PROVE Routes!Admits(navWho, p)
  BY <1>2 DEF Routes!Refused, Routes!Denied, Routes!Admits, Routes!Entered, Routes!ForRoles
<1>3. Routes!Guarded(p) = p => ~Routes!Refused(p)
  BY DEF Routes!Guarded, Routes!Refused, Routes!Public
<1>4. Routes!Guarded(p) = p => ~Routes!Denied(p)
  <2>1. ~Routes!ForRoles("/clients")
    BY DEF Routes!ForRoles, Routes!CompanyFigures, Routes!Platform
  <2> QED BY <1>3, <2>1 DEF Routes!Guarded, Routes!Denied
<1> QED BY <1>1, <1>2, <1>3, <1>4

\* The steps that ask for a navigation and leave the page and the trail alone.
LEMMA NavAsks ==
  ASSUME NavInv, navWho' \in Users \cup {None}, UNCHANGED <<navPage, navTrail, navSwapped>>,
         navPending' \in [to : Routes!Routes, replaces : BOOLEAN], navMoves' \in 0..RouteMoves,
         navWho' = navWho \/ navWho' = None \/ navPage = "/login"
  PROVE  NavInv'
<1>1. Routes!TypeOK'
  BY DEF NavInv, Routes!TypeOK
<1>2. navPending' # None
  BY RoutesAssumption
<1>3. Routes!TrailIsOwn'
  <2>1. CASE navPage = "/login"
    <3>1. navTrail = <<>>
      BY <2>1 DEF NavInv, Routes!Public
    <3>2. Len(navTrail') = 0
      BY <3>1
    <3> QED BY <3>2 DEF Routes!TrailIsOwn
  <2>2. CASE navPage # "/login"
    BY <2>2 DEF NavInv, Routes!TrailIsOwn
  <2> QED BY <2>1, <2>2
<1> QED BY <1>1, <1>2, <1>3 DEF NavInv, NoPageTwice, Routes!AdmittedHere, Routes!Named

LEMMA NavMoved ==
  ASSUME Routes!TypeOK, Routes!Move
  PROVE  navMoves' \in 0..RouteMoves
  BY RoutesAssumption DEF Routes!TypeOK, Routes!Move

LEMMA NavFollowKeeps ==
  ASSUME NavInv, Routes!Follow
  PROVE  NavInv'
<1>1. navPending \in [to : Routes!Routes, replaces : BOOLEAN] /\ navMoves' \in 0..RouteMoves
      /\ navWho' \in Users \cup {None} /\ navWho' = navWho
  BY DEF NavInv, Routes!TypeOK, Routes!Follow
<1>2. CASE navPending.to \in DOMAIN Routes!Redirects
  <2>1. Routes!Redirects[navPending.to] \in Routes!Routes
    BY <1>2 DEF Routes!Redirects, Routes!Routes, Routes!Pages, Routes!CompanyFigures, Routes!Settings
  <2>2. navPending' \in [to : Routes!Routes, replaces : BOOLEAN] /\ UNCHANGED <<navPage, navTrail, navSwapped>>
    BY <1>1, <1>2, <2>1 DEF Routes!Follow
  <2> QED BY <1>1, <2>2, NavAsks
<1>3. CASE navPending.to \notin DOMAIN Routes!Redirects /\ Routes!Guarded(navPending.to) # navPending.to
  <2>1. navPending' \in [to : Routes!Routes, replaces : BOOLEAN] /\ UNCHANGED <<navPage, navTrail, navSwapped>>
    BY <1>1, <1>3, NavGuards, NavDestination DEF Routes!Follow
  <2> QED BY <1>1, <2>1, NavAsks
<1>4. CASE navPending.to \notin DOMAIN Routes!Redirects /\ Routes!Guarded(navPending.to) = navPending.to
  <2> DEFINE p == navPending.to
             t == Routes!Recorded(p, navPending.replaces)
  <2>1. /\ p \in Routes!Pages /\ navPending.replaces \in BOOLEAN
        /\ navPage' = p /\ navPending' = None /\ navTrail' = t
        /\ navSwapped' = (navSwapped /\ navTrail' # <<>>) /\ UNCHANGED <<navWho, navMoves>>
    BY <1>1, <1>4 DEF Routes!Follow, Routes!Routes
  <2>2. /\ t \in Seq(Routes!Entry) /\ Len(t) <= MaxStored /\ NoPageTwice(t)
        /\ p \in Routes!Public => t = <<>>
        /\ Routes!Named(p) => t # <<>> /\ t[Len(t)].page = p
        /\ \A i \in 1..Len(t) : t[i].by = navWho \/ \E j \in 1..Len(navTrail) : t[i] = navTrail[j]
    BY <2>1, RecordedTrail DEF NavInv, Routes!TypeOK
  <2>3. Routes!Admits(navWho, p)
    BY <1>1, <1>4, NavGuards
  <2> HIDE DEF p, t
  <2>4. Routes!TypeOK'
    BY <2>1, <2>2 DEF NavInv, Routes!TypeOK
  <2>5. Routes!AdmittedHere'
    BY <2>1, <2>3 DEF Routes!AdmittedHere, Routes!Admits
  <2>6. Routes!TrailIsOwn'
    <3> SUFFICES ASSUME navWho # None, ~(navSwapped /\ t # <<>>), NEW i \in 1..Len(t)
                 PROVE  t[i].by = navWho
      BY <2>1 DEF Routes!TrailIsOwn
    <3>1. t # <<>>
      BY EmptySeq
    <3> QED BY <2>2, <3>1 DEF NavInv, Routes!TrailIsOwn
  <2>7. NoPageTwice(navTrail)'
    BY <2>1, <2>2 DEF NoPageTwice
  <2> QED BY <2>1, <2>2, <2>4, <2>5, <2>6, <2>7 DEF NavInv, Routes!Named
<1> QED BY <1>2, <1>3, <1>4

LEMMA NavTypeKeeps ==
  ASSUME NavInv, NEW p \in Typed, NEW u \in Users \cup {None}, Routes!Type(p, u)
  PROVE  NavInv'
<1>1. Routes!To(p) \in [to : Routes!Routes, replaces : BOOLEAN] /\ Routes!To(p) # None
  BY NavDestination, RoutesAssumption
<1>2. Routes!TypeOK'
  BY <1>1, NavMoved DEF NavInv, Routes!TypeOK, Routes!Type, Routes!Goes
<1>3. navPage' = None /\ navPage' \notin Routes!Public
  BY RoutesAssumption DEF Routes!Type, Routes!Pages
<1>4. Routes!TrailIsOwn'
  <2>1. CASE navTrail = <<>>
    <3>1. Len(navTrail') = 0
      BY <2>1 DEF Routes!Type
    <3> QED BY <3>1 DEF Routes!TrailIsOwn
  <2>2. CASE navTrail # <<>>
    BY <2>2 DEF NavInv, Routes!TrailIsOwn, Routes!Type
  <2> QED BY <2>1, <2>2
<1>5. NoPageTwice(navTrail)'
  BY DEF NavInv, NoPageTwice, Routes!Type
<1> QED BY <1>2, <1>3, <1>4, <1>5 DEF NavInv, Routes!AdmittedHere

LEMMA NavStep == NavInv /\ [Routes!Next]_routesVars => NavInv'
<1> SUFFICES ASSUME NavInv, [Routes!Next]_routesVars PROVE NavInv'
  OBVIOUS
<1>1. CASE UNCHANGED routesVars
  BY <1>1 DEF routesVars, NavInv, NoPageTwice, Routes!TypeOK, Routes!AdmittedHere, Routes!Admits,
     Routes!TrailIsOwn, Routes!Named
<1> DEFINE Asks ==
      /\ UNCHANGED <<navPage, navTrail, navSwapped>>
      /\ navPending' \in [to : Routes!Routes, replaces : BOOLEAN]
<1>2. ASSUME Asks, navWho' = navWho, Routes!Move PROVE NavInv'
  BY <1>2, NavAsks, NavMoved DEF NavInv, Routes!TypeOK
<1>3. ASSUME NEW p \in Routes!Routes, Routes!Click(p) \/ Routes!ClickSignedOut(p) \/ Routes!FollowLink(p)
      PROVE  NavInv'
  BY <1>2, <1>3, NavDestination
     DEF Routes!Click, Routes!ClickSignedOut, Routes!FollowLink, Routes!Goes
<1>4. ASSUME NEW u \in Users, Routes!LogIn(u) PROVE NavInv'
  <2>1. Asks /\ navWho' \in Users \cup {None} /\ navPage = "/login" /\ navMoves' \in 0..RouteMoves
    BY <1>4, NavDestination, NavMoved DEF NavInv, Routes!LogIn, Routes!Goes
  <2> QED BY <2>1, NavAsks
<1>5. CASE Routes!SessionEnds
  <2>1. Asks /\ navWho' = None /\ navMoves' \in 0..RouteMoves
    BY <1>5, NavDestination DEF NavInv, Routes!TypeOK, Routes!SessionEnds, Routes!Goes
  <2> QED BY <2>1, NavAsks
<1>6. CASE Routes!Register \/ Routes!ImpersonateCompany \/ Routes!ReturnToPlatformView
  BY <1>2, <1>6, NavDestination
     DEF Routes!Register, Routes!ImpersonateCompany, Routes!ReturnToPlatformView, Routes!Goes
<1>7. CASE Routes!DocumentCreated
  <2>1. Asks /\ navWho' = navWho /\ Routes!Move
    BY <1>7, NavDestination DEF Routes!DocumentCreated
  <2> QED BY <1>2, <2>1
<1>8. CASE Routes!Next
  BY <1>3, <1>4, <1>5, <1>6, <1>7, <1>8, NavFollowKeeps, NavTypeKeeps DEF Routes!Next
<1> QED BY <1>1, <1>8

\* What a menu offers is not refused, whatever the state, and whoever the link home
\* is refused to is sent on to the clients.
LEMMA NavMenu == Routes!MenuLeadsThere
<1> SUFFICES ASSUME navWho # None
             PROVE  /\ \A p \in Routes!Menu(navWho) : p \in Routes!Pages => Routes!Admits(navWho, p)
                    /\ Routes!Admits(navWho, Routes!Guarded(Routes!Home))
  BY DEF Routes!MenuLeadsThere
<1>1. ASSUME NEW p \in Routes!Menu(navWho), Routes!ForRoles(p)
      PROVE  RoleOf(navWho) \in Routes!Roles(p)
  <2>1. CASE p \in Routes!VisibleNavItems(navWho)
    <3>1. p \in {"/dashboard", "/calendar"} /\ p \notin Routes!Platform
      BY <1>1, <2>1 DEF Routes!VisibleNavItems, Routes!NavItems, Routes!ForRoles,
         Routes!CompanyFigures, Routes!Platform
    <3> QED BY <2>1, <3>1 DEF Routes!VisibleNavItems, Routes!NavRoles, Routes!Roles
  <2>2. CASE p \in {"/settings", "/profile"}
    BY <1>1, <2>2 DEF Routes!ForRoles, Routes!CompanyFigures, Routes!Platform
  <2>3. CASE p \in Routes!SettingsItems(navWho)
    <3>1. p \in Routes!Platform
      BY <1>1, <2>3 DEF Routes!SettingsItems, Routes!ForRoles, Routes!CompanyFigures,
         Routes!Platform
    <3>2. RoleOf(navWho) = "PLATFORM_ADMIN"
      BY <2>3, <3>1 DEF Routes!SettingsItems, Routes!Platform
    <3> QED BY <3>1, <3>2 DEF Routes!Roles
  <2> QED BY <1>1, <2>1, <2>2, <2>3 DEF Routes!Menu
<1>2. Routes!Admits(navWho, Routes!Guarded(Routes!Home))
  <2>1. "/dashboard" \notin Routes!Settings /\ "/dashboard" \notin Routes!Public
        /\ ~Routes!ForRoles("/clients") /\ Routes!ForRoles("/dashboard")
    BY DEF Routes!Settings, Routes!Platform, Routes!Public, Routes!ForRoles, Routes!CompanyFigures
  <2>2. ~Routes!Refused(Routes!Home)
    BY DEF Routes!Refused, Routes!Home
  <2>3. CASE Routes!Denied(Routes!Home)
    BY <2>1, <2>2, <2>3 DEF Routes!Guarded, Routes!Admits
  <2>4. CASE ~Routes!Denied(Routes!Home)
    BY <2>1, <2>2, <2>4 DEF Routes!Guarded, Routes!Admits, Routes!Denied, Routes!Home
  <2> QED BY <2>3, <2>4
<1> QED BY <1>1, <1>2 DEF Routes!Admits

LEMMA NavInvImplies == NavInv => NavigationIsGuarded
  BY NavMenu DEF NavInv, NavigationIsGuarded, Routes!TrailLeadsHere, NoPageTwice, Routes!Last

\* A page is shown to whom it is for; what a menu offers is not refused, and the link
\* home, which a USER is refused, brings him to a page that is not; the trail ends
\* with the page shown, has no page twice and is its user's own, unless the session
\* was changed in another tab.
THEOREM PagesAreGuarded == ScreensSpec => []NavigationIsGuarded
<1>1. ScreensInit => NavInv
  BY NavInitInv DEF ScreensInit
<1>2. NavInv /\ [ScreensNext]_screensVars => NavInv'
  BY StepOfEach, NavStep
<1> QED BY <1>1, <1>2, NavInvImplies, PTL DEF ScreensSpec
-----------------------------------------------------------------------------
(***************************************************************************)
(* The settings.                                                           *)
(***************************************************************************)
\* What the server has: a discount with its days, and a conclusion in every row
\* with an introduction.
SavedOK(v) ==
    /\ v \in Settings!Values
    /\ v["discount"] \in 0..1 /\ v["days"] \in 0..1
    /\ v["discount"] > 0 <=> v["days"] > 0
    /\ v["name"] \in Settings!Texts /\ v["terms"] \in Settings!Texts
    /\ v["introduction"] \in Settings!Texts \cup {None}
    /\ v["conclusion"] \in Settings!Texts \cup {None}
    /\ v["reminder"] \in Settings!Texts \cup {None}
    /\ v["introduction"] # None => v["conclusion"] # None

\* A value a form may hold in each of its fields, and what it has been loaded with:
\* the discount and its days together.
FormOK(v) == v \in Settings!Values /\ \A f \in Settings!Fields : v[f] \in Settings!ValuesOf(f)
BaseOK(b) ==
    \/ b["discount"] = None /\ b["days"] = None
    \/ b["discount"] \in 0..1 /\ (b["discount"] = 0 => b["days"] = 0)

SettingsPage ==
    [form : Settings!Values, base : Settings!Values, touched : SUBSET Settings!Fields,
     loading : SUBSET {"company", "templates"}, pending : SUBSET Settings!Kinds,
     result : {"none", "success", "error"}]

\* A page holds, in what nobody has touched, what it was loaded with.
PageOK(p) ==
    /\ p \in SettingsPage /\ FormOK(p.form) /\ BaseOK(p.base)
    /\ \A f \in Settings!Fields \ p.touched : p.form[f] = p.base[f] \/ p.base[f] = None

\* What has not been answered of a submit has not failed, and the rest is saved.
PendingOK(s, p) ==
    /\ p.pending \subseteq Settings!Sends(s)
    /\ p.pending # {} => p.result = "none" /\ Settings!Sends(s) \ p.pending \subseteq setApplied
    /\ p.result = "success" => Settings!Sends(s) \subseteq setApplied

RequestOK(kind, r) ==
    /\ r.values = [f \in Settings!Carries(kind) |-> r.values[f]]
    /\ \A f \in Settings!Carries(kind) : r.values[f] \in Settings!ValuesOf(f)
    /\ r.touched \subseteq Settings!Carries(kind)
    /\ \A f \in Settings!Carries(kind) \ r.touched :
          r.values[f] = r.base[f] \/ r.base[f] = None \/ (kind = "block" /\ setRowless)
    /\ kind = "profile" => /\ r.values["discount"] > 0 => r.values["days"] > 0
                           /\ BaseOK(r.base)

SetInv ==
    /\ SavedOK(setSaved)
    /\ setPage \in [Settings!Pages -> SettingsPage]
    /\ \A s \in Settings!Pages : PageOK(setPage[s]) /\ PendingOK(s, setPage[s])
    /\ setDraft \in Settings!Texts \cup {None}
    /\ setRequests = [kind \in Settings!Kinds |-> setRequests[kind]]
    /\ \A kind \in Settings!Kinds : setRequests[kind] # None => RequestOK(kind, setRequests[kind])
    /\ setMoves \in 0..SettingsMoves /\ setApplied \subseteq Settings!Kinds /\ setRowless \in BOOLEAN

LEMMA FieldNames ==
  /\ Settings!Fields = {"name", "discount", "days", "terms", "introduction", "conclusion", "reminder"}
  /\ Settings!ValuesOf("discount") = 0..1 /\ Settings!ValuesOf("days") = 0..1
  /\ \A f \in Settings!Fields : f \notin {"discount", "days"} => Settings!ValuesOf(f) = Settings!Texts
  /\ \A f \in Settings!Fields : Settings!ValuesOf(f) \subseteq Settings!Texts \cup 0..1
  /\ \A f \in Settings!Fields : None \notin Settings!ValuesOf(f)
  BY SettingsAssumption DEF Settings!Fields, Settings!Company, Settings!ValuesOf, Settings!Texts

LEMMA KindNames ==
  /\ Settings!Kinds = {"profile", "terms", "quote", "reminder", "block"}
  /\ Settings!Carries("profile") = {"name", "discount", "days", "terms"}
  /\ Settings!Carries("terms") = {"terms"} /\ Settings!Carries("reminder") = {"reminder"}
  /\ Settings!Carries("quote") = {"introduction", "conclusion"}
  /\ Settings!Carries("block") = {"introduction", "conclusion"}
  /\ \A kind \in Settings!Kinds : Settings!Carries(kind) \subseteq Settings!Fields
  BY DEF Settings!Kinds, Settings!Carries, Settings!Company, Settings!Fields

LEMMA ReadFields ==
  ASSUME NEW v, SavedOK(v)
  PROVE  /\ \A f \in {"name", "discount", "days", "terms"} : Settings!Read(v)[f] = v[f]
         /\ Settings!Read(v)["introduction"] =
               IF v["introduction"] = None THEN Default ELSE v["introduction"]
         /\ Settings!Read(v)["conclusion"] =
               IF v["introduction"] = None THEN Default ELSE v["conclusion"]
         /\ Settings!Read(v)["reminder"] =
               IF v["reminder"] \in {None, NoText} THEN Default ELSE v["reminder"]
  BY FieldNames DEF Settings!Read

LEMMA ReadIsAForm ==
  ASSUME NEW v, SavedOK(v)
  PROVE  FormOK(Settings!Read(v)) /\ BaseOK(Settings!Read(v))
<1> DEFINE r == Settings!Read(v)
<1>1. r = [f \in Settings!Fields |-> r[f]]
  BY DEF Settings!Read
<1>2. Default \in Settings!Texts /\ NoText \in Settings!Texts
  BY DEF Settings!Texts
<1>3. r["discount"] = v["discount"] /\ r["days"] = v["days"] /\ r["name"] = v["name"] /\ r["terms"] = v["terms"]
  BY ReadFields
<1>4. r["introduction"] \in Settings!Texts /\ r["conclusion"] \in Settings!Texts /\ r["reminder"] \in Settings!Texts
  BY <1>2, ReadFields DEF SavedOK
<1> HIDE DEF r
<1>5. \A f \in Settings!Fields : r[f] \in Settings!ValuesOf(f)
  BY <1>3, <1>4, FieldNames DEF SavedOK
<1>6. r \in Settings!Values
  <2>1. \A f \in Settings!Fields : r[f] \in Settings!Texts \cup 0..1 \cup {None}
    BY <1>5, FieldNames
  <2> QED BY <1>1, <2>1 DEF Settings!Values
<1>7. BaseOK(r)
  BY <1>3 DEF SavedOK, BaseOK
<1> QED BY <1>5, <1>6, <1>7 DEF FormOK, r

LEMMA OpenedPage ==
  ASSUME NEW s \in Settings!Pages
  PROVE  PageOK(Settings!Opened(s)) /\ PendingOK(s, Settings!Opened(s))
<1> DEFINE p == Settings!Opened(s)
           none == [f \in Settings!Fields |-> None]
<1>1. NoText \in Settings!Texts
  BY DEF Settings!Texts
<1>2. \A f \in Settings!Fields : Settings!Empty[f] \in Settings!ValuesOf(f)
  BY <1>1, FieldNames DEF Settings!Empty
<1>3. FormOK(Settings!Empty)
  <2>1. \A f \in Settings!Fields : Settings!Empty[f] \in Settings!Texts \cup 0..1 \cup {None}
    BY <1>2, FieldNames
  <2>2. Settings!Empty \in Settings!Values
    BY <2>1 DEF Settings!Values, Settings!Empty
  <2> QED BY <1>2, <2>2 DEF FormOK
<1>4. none \in Settings!Values /\ BaseOK(none) /\ \A f \in Settings!Fields : none[f] = None
  BY FieldNames DEF Settings!Values, BaseOK
<1>5. /\ p.form = Settings!Empty /\ p.base = none /\ p.touched = {}
      /\ p.loading \in SUBSET {"company", "templates"} /\ p.pending = {} /\ p.result = "none"
      /\ p = [form |-> p.form, base |-> p.base, touched |-> p.touched, loading |-> p.loading,
              pending |-> p.pending, result |-> p.result]
  BY DEF Settings!Opened
<1> HIDE DEF p, none
<1>6. p \in SettingsPage
  BY <1>3, <1>4, <1>5 DEF SettingsPage, FormOK
<1> QED BY <1>3, <1>4, <1>5, <1>6 DEF PageOK, PendingOK, p

LEMMA SetInitInv == Settings!Init => SetInv
<1> SUFFICES ASSUME Settings!Init PROVE SetInv
  OBVIOUS
<1>1. SavedOK(setSaved)
  <2>1. Text \in Settings!Texts /\ \A f \in Settings!Fields :
          setSaved[f] = IF f \in {"discount", "days"} THEN 0
                        ELSE IF f \in {"name", "terms"} THEN Text ELSE None
    BY DEF Settings!Init, Settings!Start, Settings!Texts
  <2>2. setSaved \in Settings!Values
    BY <2>1 DEF Settings!Init, Settings!Start, Settings!Values
  <2> QED BY <2>1, <2>2, FieldNames DEF SavedOK
<1>2. \A s \in Settings!Pages : setPage[s] = Settings!Opened(s)
  BY DEF Settings!Init
<1>3. setPage \in [Settings!Pages -> SettingsPage]
  BY <1>2, OpenedPage DEF Settings!Init, PageOK
<1>4. \A kind \in Settings!Kinds : setRequests[kind] = None
  BY DEF Settings!Init
<1>5. setRequests = [kind \in Settings!Kinds |-> setRequests[kind]]
  BY DEF Settings!Init
<1>6. setMoves \in 0..SettingsMoves /\ setApplied = {} /\ setRowless = FALSE /\ setDraft = None
  BY SettingsAssumption DEF Settings!Init
<1> QED BY <1>1, <1>2, <1>3, <1>4, <1>5, <1>6, OpenedPage DEF SetInv

LEMMA SetMoved ==
  ASSUME SetInv, Settings!Move
  PROVE  setMoves' \in 0..SettingsMoves
  BY SettingsAssumption DEF SetInv, Settings!Move

\* One page changes, and nothing is asked of the server.
LEMMA SetPageStep ==
  ASSUME SetInv, NEW s \in Settings!Pages, NEW p, PageOK(p), PendingOK(s, p),
         setPage' = [setPage EXCEPT ![s] = p], setMoves' \in 0..SettingsMoves,
         UNCHANGED <<setSaved, setDraft, setRequests, setApplied, setRowless>>
  PROVE  SetInv'
<1>1. setPage' \in [Settings!Pages -> SettingsPage]
  BY DEF SetInv, PageOK
<1>2. \A t \in Settings!Pages : PageOK(setPage'[t]) /\ PendingOK(t, setPage'[t])
  BY DEF SetInv
<1>3. \A t \in Settings!Pages : PendingOK(t, setPage[t])'
  BY <1>2 DEF PendingOK
<1>4. \A t \in Settings!Pages : PageOK(setPage[t])'
  BY <1>2
<1>5. \A kind \in Settings!Kinds : setRequests'[kind] # None => RequestOK(kind, setRequests[kind])'
  BY DEF SetInv, RequestOK
<1>6. SavedOK(setSaved)'
  BY DEF SetInv
<1> QED BY <1>1, <1>3, <1>4, <1>5, <1>6 DEF SetInv

LEMMA SetOpenKeeps ==
  ASSUME SetInv, NEW s \in Settings!Pages, Settings!Open(s)
  PROVE  SetInv'
  BY OpenedPage, SetPageStep DEF Settings!Open, SetInv

\* What is loaded is known, and touched no more.
LEMMA SetLoadKeeps ==
  ASSUME SetInv, NEW s \in Settings!Pages, NEW what, Settings!Load(s, what)
  PROVE  SetInv'
<1> DEFINE p == setPage[s]
           new == [form |-> Settings!Filled(s, what, p.form), base |-> Settings!Filled(s, what, p.base),
                   touched |-> p.touched \ Settings!Part(s, what), loading |-> p.loading \ {what},
                   pending |-> p.pending, result |-> p.result]
           set == Settings!Part(s, what)
           r == Settings!Read(setSaved)
<1>1. setPage' = [setPage EXCEPT ![s] = new]
  BY DEF Settings!Load
<1>2. p \in SettingsPage /\ PageOK(p) /\ PendingOK(s, p)
  BY DEF SetInv
<1>3. FormOK(r) /\ BaseOK(r)
  BY ReadIsAForm DEF SetInv
<1>4. "discount" \in set <=> "days" \in set
  BY DEF Settings!Part, Settings!Holds, Settings!Sends, Settings!Carries, Settings!Company, Settings!Fields
<1>5. /\ new.form = [f \in Settings!Fields |-> IF f \in set THEN r[f] ELSE p.form[f]]
      /\ new.base = [f \in Settings!Fields |-> IF f \in set THEN r[f] ELSE p.base[f]]
      /\ new.touched = p.touched \ set /\ new.loading = p.loading \ {what}
      /\ new.pending = p.pending /\ new.result = p.result
      /\ new = [form |-> new.form, base |-> new.base, touched |-> new.touched,
                loading |-> new.loading, pending |-> new.pending, result |-> new.result]
  BY DEF Settings!Filled
<1> HIDE DEF p, new, set, r
<1>6. FormOK(new.form)
  <2>1. \A f \in Settings!Fields : new.form[f] \in Settings!ValuesOf(f)
    BY <1>2, <1>3, <1>5 DEF PageOK, FormOK
  <2>2. new.form \in Settings!Values
    BY <1>2, <1>3, <1>5 DEF PageOK, FormOK, Settings!Values
  <2> QED BY <2>1, <2>2 DEF FormOK
<1>7. new.base \in Settings!Values
  BY <1>2, <1>3, <1>5 DEF PageOK, FormOK, SettingsPage, Settings!Values
<1>8. BaseOK(new.base)
  <2>1. "discount" \in Settings!Fields /\ "days" \in Settings!Fields
    BY FieldNames
  <2>2. CASE "discount" \in set
    BY <1>3, <1>4, <1>5, <2>1, <2>2 DEF BaseOK
  <2>3. CASE "discount" \notin set
    BY <1>2, <1>4, <1>5, <2>1, <2>3 DEF BaseOK, PageOK
  <2> QED BY <2>2, <2>3
<1>9. \A f \in Settings!Fields \ new.touched : new.form[f] = new.base[f] \/ new.base[f] = None
  BY <1>2, <1>5 DEF PageOK
<1>10. new \in SettingsPage
  <2>1. /\ p.touched \in SUBSET Settings!Fields /\ p.loading \in SUBSET {"company", "templates"}
        /\ p.pending \in SUBSET Settings!Kinds /\ p.result \in {"none", "success", "error"}
    BY <1>2 DEF SettingsPage
  <2> QED BY <1>5, <1>6, <1>7, <2>1 DEF SettingsPage, FormOK
<1>11. PageOK(new)
  BY <1>6, <1>8, <1>9, <1>10 DEF PageOK
<1>12. PendingOK(s, new)
  BY <1>2, <1>5 DEF PendingOK
<1> QED BY <1>1, <1>11, <1>12, SetPageStep DEF SetInv, Settings!Load

LEMMA SetLoadFailsKeeps ==
  ASSUME SetInv, NEW s \in Settings!Pages, NEW what, Settings!LoadFails(s, what)
  PROVE  SetInv'
<1> DEFINE p == setPage[s]
           new == [p EXCEPT !.loading = @ \ {what}]
<1>1. setPage' = [setPage EXCEPT ![s] = new]
  BY DEF Settings!LoadFails, SetInv
<1>2. p \in SettingsPage /\ PageOK(p) /\ PendingOK(s, p)
  BY DEF SetInv
<1>3. /\ new \in SettingsPage /\ new.form = p.form /\ new.base = p.base /\ new.touched = p.touched
      /\ new.pending = p.pending /\ new.result = p.result
  BY <1>2 DEF SettingsPage
<1> HIDE DEF p, new
<1>4. PageOK(new) /\ PendingOK(s, new)
  BY <1>2, <1>3 DEF PageOK, PendingOK
<1> QED BY <1>1, <1>4, SetPageStep DEF SetInv, Settings!LoadFails

LEMMA SetTypeKeeps ==
  ASSUME SetInv, NEW s \in Settings!Pages, NEW f \in Settings!Fields, NEW v, Settings!Type(s, f, v)
  PROVE  SetInv'
<1> DEFINE p == setPage[s]
           form == [p.form EXCEPT ![f] = v]
           new == [p EXCEPT !.form = form, !.touched = @ \cup {f}]
<1>1. setPage' = [setPage EXCEPT ![s] = new]
  <2>1. setPage' = [setPage EXCEPT ![s] =
                      [setPage[s] EXCEPT !.form = [setPage[s].form EXCEPT ![f] = v],
                                         !.touched = setPage[s].touched \cup {f}]]
    BY Zenon DEF Settings!Type
  <2> QED BY <2>1
<1>2. p \in SettingsPage /\ PageOK(p) /\ PendingOK(s, p)
  BY DEF SetInv
<1>3. v \in Settings!ValuesOf(f)
  BY DEF Settings!Type
<1>4. form \in Settings!Values /\ \A g \in Settings!Fields : form[g] = IF g = f THEN v ELSE p.form[g]
  <2>1. v \in Settings!Texts \cup 0..1 \cup {None}
    BY <1>3, FieldNames
  <2> QED BY <1>2, <2>1 DEF PageOK, FormOK, Settings!Values
<1>5. FormOK(form)
  BY <1>2, <1>3, <1>4 DEF PageOK, FormOK
<1> HIDE DEF form
<1>6. /\ new \in SettingsPage /\ new.form = form /\ new.base = p.base /\ new.touched = p.touched \cup {f}
      /\ new.pending = p.pending /\ new.result = p.result
  BY <1>2, <1>4 DEF SettingsPage
<1> HIDE DEF p, new
<1>7. PageOK(new) /\ PendingOK(s, new)
  BY <1>2, <1>4, <1>5, <1>6 DEF PageOK, PendingOK
<1>8. setMoves' \in 0..SettingsMoves
  BY SetMoved DEF Settings!Type
<1> QED BY <1>1, <1>7, <1>8, SetPageStep DEF Settings!Type

\* A page sends, of what it holds, what each of its requests carries.
LEMMA SetSubmitKeeps ==
  ASSUME SetInv, NEW s \in Settings!Pages, Settings!Submit(s)
  PROVE  SetInv'
<1> DEFINE p == setPage[s]
           new == [p EXCEPT !.pending = Settings!Sends(s), !.result = "none"]
           job(kind) == Settings!Job(kind, p.form, p.base, p.touched)
<1>1. setPage' = [setPage EXCEPT ![s] = new]
  BY DEF Settings!Submit, SetInv
<1>2. p \in SettingsPage /\ PageOK(p) /\ PendingOK(s, p)
  BY DEF SetInv
<1>3. setRequests' = [kind \in Settings!Kinds |->
                        IF kind \in Settings!Sends(s) THEN job(kind) ELSE setRequests[kind]]
  BY DEF Settings!Submit, Settings!Whole
<1>4. /\ Settings!Valid(s) /\ setApplied' = setApplied \ Settings!Sends(s)
      /\ UNCHANGED <<setSaved, setDraft, setRowless>> /\ setMoves' \in 0..SettingsMoves
  BY SetMoved DEF Settings!Submit
<1>5. /\ new \in SettingsPage /\ new.form = p.form /\ new.base = p.base /\ new.touched = p.touched
      /\ new.pending = Settings!Sends(s) /\ new.result = "none"
  BY <1>2, KindNames DEF SettingsPage, Settings!Sends
<1>6. ASSUME NEW kind \in Settings!Sends(s)
      PROVE  RequestOK(kind, job(kind))
  <2> DEFINE r == job(kind)
  <2>1. kind \in Settings!Kinds /\ Settings!Carries(kind) \subseteq Settings!Fields
    BY KindNames DEF Settings!Sends
  <2>2. /\ r.values = [f \in Settings!Carries(kind) |-> p.form[f]]
        /\ r.base = [f \in Settings!Carries(kind) |-> p.base[f]]
        /\ r.touched = p.touched \cap Settings!Carries(kind)
    BY DEF Settings!Job
  <2> HIDE DEF r
  <2>3. \A f \in Settings!Carries(kind) : r.values[f] \in Settings!ValuesOf(f)
    BY <1>2, <2>1, <2>2 DEF PageOK, FormOK
  <2>4. \A f \in Settings!Carries(kind) \ r.touched : r.values[f] = r.base[f] \/ r.base[f] = None
    BY <1>2, <2>1, <2>2 DEF PageOK
  <2>5. kind = "profile" => /\ r.values["discount"] > 0 => r.values["days"] > 0
                            /\ BaseOK(r.base)
    <3> SUFFICES ASSUME kind = "profile"
                 PROVE  /\ r.values["discount"] > 0 => r.values["days"] > 0
                        /\ BaseOK(r.base)
      OBVIOUS
    <3>1. s = "profile" /\ {"discount", "days"} \subseteq Settings!Carries(kind)
      BY KindNames DEF Settings!Sends
    <3>2. p.form["discount"] > 0 => p.form["days"] > 0
      BY <1>4, <3>1 DEF Settings!Valid
    <3> QED BY <1>2, <2>2, <3>1, <3>2 DEF PageOK, BaseOK
  <2> QED BY <2>2, <2>3, <2>4, <2>5 DEF RequestOK, r
<1> HIDE DEF p, new, job
<1>7. \A kind \in Settings!Kinds : setRequests'[kind] # None => RequestOK(kind, setRequests'[kind])
  BY <1>3, <1>6 DEF SetInv
<1>8. \A kind \in Settings!Kinds : setRequests'[kind] # None => RequestOK(kind, setRequests[kind])'
  BY <1>4, <1>7 DEF RequestOK
<1>9. setRequests' = [kind \in Settings!Kinds |-> setRequests'[kind]]
  BY <1>3
<1>10. \A t \in Settings!Pages : PageOK(setPage'[t])
  BY <1>1, <1>2, <1>5 DEF SetInv, PageOK
<1>11. \A t \in Settings!Pages : PendingOK(t, setPage[t])'
  <2>1. \A t \in Settings!Pages : t # s => Settings!Sends(t) \cap Settings!Sends(s) = {}
    BY DEF Settings!Pages, Settings!Sends
  <2>2. PendingOK(s, setPage[s])'
    BY <1>1, <1>4, <1>5 DEF SetInv, PendingOK
  <2>3. \A t \in Settings!Pages : t # s => PendingOK(t, setPage[t])'
    BY <1>1, <1>4, <2>1 DEF SetInv, PendingOK
  <2> QED BY <2>2, <2>3
<1>12. setPage' \in [Settings!Pages -> SettingsPage]
  BY <1>1, <1>5 DEF SetInv
<1>13. SavedOK(setSaved)' /\ setDraft' \in Settings!Texts \cup {None} /\ setRowless' \in BOOLEAN
       /\ setApplied' \subseteq Settings!Kinds
  BY <1>4 DEF SetInv
<1> QED BY <1>4, <1>8, <1>9, <1>10, <1>11, <1>12, <1>13 DEF SetInv

\* The steps of a text block before its write.
LEMMA SetDraftKeeps ==
  ASSUME SetInv, NEW v \in Settings!Texts, Settings!SaveDraft(v)
  PROVE  SetInv'
<1>1. setDraft' = v /\ UNCHANGED <<setSaved, setPage, setRequests, setApplied, setRowless>>
      /\ setMoves' \in 0..SettingsMoves
  BY SetMoved DEF Settings!SaveDraft
<1>2. \A kind \in Settings!Kinds : setRequests'[kind] # None => RequestOK(kind, setRequests[kind])'
  BY <1>1 DEF SetInv, RequestOK
<1>3. \A t \in Settings!Pages : PendingOK(t, setPage[t])' /\ PageOK(setPage[t])'
  BY <1>1 DEF SetInv, PendingOK
<1> QED BY <1>1, <1>2, <1>3 DEF SetInv

LEMMA SetReadRowKeeps ==
  ASSUME SetInv, Settings!ReadRow
  PROVE  SetInv'
<1> DEFINE keeps == Settings!Keeps(setDraft)
<1> PICK r : r = Settings!Job("block", keeps, Settings!Read(setSaved), {"introduction"})
  OBVIOUS
<1>1. /\ setDraft \in Settings!Texts /\ setRequests' = [setRequests EXCEPT !["block"] = r]
      /\ setRowless' = (setRowless \/ setSaved["introduction"] = None)
      /\ UNCHANGED <<setSaved, setPage, setDraft, setMoves, setApplied>>
  BY DEF Settings!ReadRow, SetInv
<1>2. /\ r.values = [f \in {"introduction", "conclusion"} |-> keeps[f]]
      /\ r.base = [f \in {"introduction", "conclusion"} |-> Settings!Read(setSaved)[f]]
      /\ r.touched = {"introduction"}
  BY KindNames DEF Settings!Job
<1>3. /\ keeps["introduction"] = setDraft
      /\ keeps["conclusion"] = IF setSaved["introduction"] = None THEN NoText ELSE setSaved["conclusion"]
  BY FieldNames DEF Settings!Keeps, SetInv, SavedOK, Settings!Values
<1> HIDE DEF keeps
<1>4. r.values["introduction"] \in Settings!Texts /\ r.values["conclusion"] \in Settings!Texts
  <2>1. NoText \in Settings!Texts
    BY DEF Settings!Texts
  <2> QED BY <1>1, <1>2, <1>3, <2>1 DEF SetInv, SavedOK
<1>5. setSaved["introduction"] # None => r.values["conclusion"] = r.base["conclusion"]
  BY <1>2, <1>3, ReadFields DEF SetInv
<1>6. RequestOK("block", r)'
  <2>1. Settings!Carries("block") = {"introduction", "conclusion"}
    BY KindNames
  <2>2. \A f \in Settings!Carries("block") : r.values[f] \in Settings!ValuesOf(f)
    BY <1>4, <2>1, FieldNames
  <2>3. \A f \in Settings!Carries("block") \ r.touched :
           r.values[f] = r.base[f] \/ r.base[f] = None \/ setRowless'
    BY <1>1, <1>2, <1>5, <2>1
  <2>4. r.values = [f \in Settings!Carries("block") |-> r.values[f]] /\ r.touched \subseteq Settings!Carries("block")
    BY <1>2, <2>1
  <2> QED BY <2>2, <2>3, <2>4, <1>1 DEF RequestOK
<1>7. "block" \in Settings!Kinds
  BY KindNames
<1>8. \A kind \in Settings!Kinds : setRequests'[kind] # None => RequestOK(kind, setRequests[kind])'
  <2> SUFFICES ASSUME NEW kind \in Settings!Kinds, setRequests'[kind] # None
               PROVE  RequestOK(kind, setRequests[kind])'
    OBVIOUS
  <2>1. CASE kind = "block"
    <3>1. setRequests'["block"] = r
      BY <1>1, <1>7 DEF SetInv
    <3> QED BY <1>6, <2>1, <3>1 DEF RequestOK
  <2>2. CASE kind # "block"
    <3>1. setRequests'[kind] = setRequests[kind]
      BY <1>1, <2>2 DEF SetInv
    <3> QED BY <2>2, <3>1, <1>1 DEF SetInv, RequestOK
  <2> QED BY <2>1, <2>2
<1>9. \A t \in Settings!Pages : PendingOK(t, setPage[t])' /\ PageOK(setPage[t])'
  BY <1>1 DEF SetInv, PendingOK
<1>10. setRequests' = [kind \in Settings!Kinds |-> setRequests'[kind]] /\ setRowless' \in BOOLEAN
  BY <1>1 DEF SetInv
<1>11. SavedOK(setSaved)'
  BY <1>1 DEF SetInv
<1> QED BY <1>1, <1>8, <1>9, <1>10, <1>11 DEF SetInv

\* What the server writes of a request.
LEMMA SetNormalized ==
  ASSUME SetInv, NEW kind \in Settings!Kinds, setRequests[kind] # None
  PROVE  LET r == setRequests[kind]
             n == Settings!Normalized(r.values)
         IN  /\ \A f \in Settings!Carries(kind) : n[f] \in Settings!ValuesOf(f)
             /\ \A f \in Settings!Carries(kind) :
                   n[f] = r.values[f] \/ (kind = "profile" /\ f = "days" /\ r.values["discount"] = 0 /\ n[f] = 0)
             /\ kind = "profile" => (n["discount"] > 0 <=> n["days"] > 0)
<1> DEFINE r == setRequests[kind]
           n == Settings!Normalized(r.values)
<1>1. RequestOK(kind, r)
  BY DEF SetInv
<1>2. "discount" \in Settings!Carries(kind) <=> kind = "profile"
  BY KindNames
<1>3. DOMAIN r.values = Settings!Carries(kind)
  BY <1>1 DEF RequestOK
<1>4. CASE kind = "profile" /\ r.values["discount"] = 0
  <2>1. n = [r.values EXCEPT !["days"] = 0]
    BY <1>2, <1>3, <1>4 DEF Settings!Normalized
  <2>2. {"discount", "days"} \subseteq Settings!Carries(kind)
    BY <1>4, KindNames
  <2>3. n["days"] = 0 /\ \A f \in Settings!Carries(kind) \ {"days"} : n[f] = r.values[f]
    BY <1>3, <2>1, <2>2
  <2>4. 0 \in Settings!ValuesOf("days") /\ n["discount"] = 0
    BY <1>4, <2>2, <2>3, FieldNames
  <2> HIDE DEF n, r
  <2> QED BY <1>1, <1>4, <2>3, <2>4 DEF RequestOK, n, r
<1>5. CASE ~(kind = "profile" /\ r.values["discount"] = 0)
  <2>1. n = r.values
    BY <1>2, <1>3, <1>5 DEF Settings!Normalized
  <2>2. kind = "profile" => r.values["discount"] \in 0..1 /\ r.values["days"] \in 0..1
    BY <1>1, KindNames, FieldNames DEF RequestOK
  <2>3. kind = "profile" => r.values["discount"] > 0 /\ r.values["days"] > 0
    BY <1>1, <1>5, <2>2 DEF RequestOK
  <2> QED BY <1>1, <2>1, <2>3 DEF RequestOK
<1> QED BY <1>4, <1>5

LEMMA SetWritten ==
  ASSUME SetInv, NEW kind \in Settings!Kinds, Settings!Write(kind)
  PROVE  SavedOK(setSaved')
<1> DEFINE r == setRequests[kind]
           n == Settings!Normalized(r.values)
<1>1. setRequests[kind] # None
      /\ setSaved' = [f \in Settings!Fields |-> IF f \in Settings!Carries(kind) THEN n[f] ELSE setSaved[f]]
  BY DEF Settings!Write
<1>2. /\ \A f \in Settings!Carries(kind) : n[f] \in Settings!ValuesOf(f)
      /\ kind = "profile" => (n["discount"] > 0 <=> n["days"] > 0)
  BY <1>1, SetNormalized
<1> HIDE DEF n
<1>3. SavedOK(setSaved) /\ \A f \in Settings!Fields : setSaved[f] \in Settings!Texts \cup 0..1 \cup {None}
  BY DEF SetInv, SavedOK, Settings!Values
<1>4. \A f \in Settings!Fields : setSaved'[f] = IF f \in Settings!Carries(kind) THEN n[f] ELSE setSaved[f]
  BY <1>1
<1>5. setSaved' \in Settings!Values
  <2>1. \A f \in Settings!Fields :
          (IF f \in Settings!Carries(kind) THEN n[f] ELSE setSaved[f]) \in Settings!Texts \cup 0..1 \cup {None}
    BY <1>2, <1>3, FieldNames
  <2> QED BY <1>1, <2>1 DEF Settings!Values
<1>6. \A f \in {"discount", "days"} : setSaved'[f] \in 0..1
  BY <1>2, <1>3, <1>4, FieldNames DEF SavedOK
<1>7. \A f \in {"name", "terms"} : setSaved'[f] \in Settings!Texts
  BY <1>2, <1>3, <1>4, FieldNames DEF SavedOK
<1>8. \A f \in {"introduction", "conclusion", "reminder"} : setSaved'[f] \in Settings!Texts \cup {None}
  BY <1>2, <1>3, <1>4, FieldNames DEF SavedOK
<1>9. setSaved'["discount"] > 0 <=> setSaved'["days"] > 0
  <2>1. CASE kind = "profile"
    BY <1>2, <1>4, <2>1, FieldNames, KindNames
  <2>2. CASE kind # "profile"
    BY <1>3, <1>4, <2>2, FieldNames, KindNames DEF SavedOK
  <2> QED BY <2>1, <2>2
<1>10. setSaved'["introduction"] # None => setSaved'["conclusion"] # None
  <2>1. CASE "conclusion" \in Settings!Carries(kind)
    BY <1>2, <1>4, <2>1, FieldNames
  <2>2. CASE "conclusion" \notin Settings!Carries(kind)
    <3>1. "introduction" \notin Settings!Carries(kind)
      BY <2>2, KindNames
    <3> QED BY <1>3, <1>4, <2>2, <3>1, FieldNames DEF SavedOK
  <2> QED BY <2>1, <2>2
<1> QED BY <1>5, <1>6, <1>7, <1>8, <1>9, <1>10 DEF SavedOK

\* What the pages make of an answer.
LEMMA SetAnswered ==
  ASSUME SetInv, NEW kind \in Settings!Kinds, NEW well \in BOOLEAN,
         setPage' = Settings!Answered(kind, well),
         setApplied' = IF well THEN setApplied \cup {kind} ELSE setApplied
  PROVE  /\ setPage' \in [Settings!Pages -> SettingsPage]
         /\ \A s \in Settings!Pages : PageOK(setPage'[s]) /\ PendingOK(s, setPage[s])'
<1> SUFFICES ASSUME NEW s \in Settings!Pages
             PROVE  PageOK(setPage'[s]) /\ PendingOK(s, setPage[s])'
  BY DEF PageOK, Settings!Answered
<1> DEFINE p == setPage[s]
<1>1. p \in SettingsPage /\ PageOK(p) /\ PendingOK(s, p)
  BY DEF SetInv
<1>2. CASE kind \notin p.pending
  <2>1. setPage'[s] = p
    BY <1>2 DEF Settings!Answered
  <2> QED BY <1>1, <2>1 DEF PendingOK
<1>3. CASE kind \in p.pending /\ ~well
  <2> DEFINE q == [p EXCEPT !.pending = {}, !.result = "error"]
  <2>1. setPage'[s] = q
    BY <1>3 DEF Settings!Answered
  <2>2. /\ q \in SettingsPage /\ q.form = p.form /\ q.base = p.base /\ q.touched = p.touched
        /\ q.pending = {} /\ q.result = "error"
    BY <1>1 DEF SettingsPage
  <2> HIDE DEF p, q
  <2>3. PageOK(q)
    BY <1>1, <2>2 DEF PageOK
  <2> QED BY <2>1, <2>2, <2>3 DEF PendingOK
<1>4. CASE kind \in p.pending /\ well
  <2> DEFINE q == [p EXCEPT !.pending = @ \ {kind},
                            !.result = IF p.pending = {kind} THEN "success" ELSE @]
  <2>1. setPage'[s] = q
    BY <1>4 DEF Settings!Answered
  <2>2. /\ q \in SettingsPage /\ q.form = p.form /\ q.base = p.base /\ q.touched = p.touched
        /\ q.pending = p.pending \ {kind}
        /\ q.result = IF p.pending = {kind} THEN "success" ELSE p.result
    BY <1>1 DEF SettingsPage
  <2> HIDE DEF p, q
  <2>3. PageOK(q)
    BY <1>1, <2>2 DEF PageOK
  <2>4. /\ q.pending \subseteq Settings!Sends(s)
        /\ p.result = "none" /\ Settings!Sends(s) \ q.pending \subseteq setApplied'
    BY <1>1, <1>4, <2>2 DEF PendingOK
  <2>5. /\ q.pending # {} => q.result = "none"
        /\ q.result = "success" => Settings!Sends(s) \subseteq setApplied'
    BY <1>4, <2>2, <2>4
  <2> QED BY <2>1, <2>3, <2>4, <2>5 DEF PendingOK
<1> QED BY <1>2, <1>3, <1>4

LEMMA SetAnswerKeeps ==
  ASSUME SetInv, NEW kind \in Settings!Kinds, Settings!Write(kind) \/ Settings!Fails(kind)
  PROVE  SetInv'
<1>1. SavedOK(setSaved)'
  BY SetWritten DEF SetInv, Settings!Fails
<1>2. /\ setPage' \in [Settings!Pages -> SettingsPage]
      /\ \A s \in Settings!Pages : PageOK(setPage'[s]) /\ PendingOK(s, setPage[s])'
  BY SetAnswered DEF Settings!Write, Settings!Fails, Settings!Failed
<1>3. /\ setRequests' = [setRequests EXCEPT ![kind] = None] /\ UNCHANGED <<setMoves, setRowless>>
      /\ setApplied' \subseteq Settings!Kinds /\ setDraft' \in Settings!Texts \cup {None}
  BY DEF SetInv, Settings!Write, Settings!Fails
<1>4. /\ setRequests' = [k \in Settings!Kinds |-> setRequests'[k]]
      /\ \A k \in Settings!Kinds : setRequests'[k] # None => setRequests'[k] = setRequests[k]
  BY <1>3 DEF SetInv
<1>5. \A k \in Settings!Kinds : setRequests'[k] # None => RequestOK(k, setRequests[k])'
  BY <1>3, <1>4 DEF SetInv, RequestOK
<1> QED BY <1>1, <1>2, <1>3, <1>4, <1>5 DEF SetInv

LEMMA SetStep == SetInv /\ [Settings!Next]_settingsVars => SetInv'
<1> SUFFICES ASSUME SetInv, [Settings!Next]_settingsVars PROVE SetInv'
  OBVIOUS
<1>1. CASE UNCHANGED settingsVars
  <2>1. \A kind \in Settings!Kinds : setRequests'[kind] # None => RequestOK(kind, setRequests[kind])'
    BY <1>1 DEF settingsVars, SetInv, RequestOK
  <2>2. \A t \in Settings!Pages : PendingOK(t, setPage[t])' /\ PageOK(setPage[t])'
    BY <1>1 DEF settingsVars, SetInv, PendingOK
  <2>3. SavedOK(setSaved)'
    BY <1>1 DEF settingsVars, SetInv
  <2> QED BY <1>1, <2>1, <2>2, <2>3 DEF settingsVars, SetInv
<1>2. ASSUME NEW s \in Settings!Pages, Settings!Screen(s) PROVE SetInv'
  BY <1>2, SetOpenKeeps, SetSubmitKeeps, SetLoadKeeps, SetLoadFailsKeeps, SetTypeKeeps
     DEF Settings!Screen
<1>3. CASE Settings!Next
  BY <1>2, <1>3, SetDraftKeeps, SetReadRowKeeps, SetAnswerKeeps DEF Settings!Next
<1> QED BY <1>1, <1>3

LEMMA SetInvImplies == SetInv => SettingsAreSaved
<1> SUFFICES ASSUME SetInv PROVE Settings!TypeOK /\ Settings!SuccessMeansSaved /\ Settings!DiscountHasDays
  BY DEF SettingsAreSaved
<1>1. \A kind \in Settings!Kinds : setRequests[kind] # None => setRequests[kind].touched \subseteq Settings!Carries(kind)
  BY DEF SetInv, RequestOK
<1>2. Settings!TypeOK
  BY <1>1 DEF SetInv, SavedOK, SettingsPage, Settings!TypeOK
<1>3. Settings!SuccessMeansSaved
  BY DEF SetInv, PendingOK, Settings!SuccessMeansSaved
<1> QED BY <1>2, <1>3 DEF SetInv, SavedOK, Settings!DiscountHasDays

\* A page that says it has saved has saved each of its parts, and a discount has its
\* days, whatever is loaded, typed or refused meanwhile.
THEOREM SettingsSavedWhole == ScreensSpec => []SettingsAreSaved
<1>1. ScreensInit => SetInv
  BY SetInitInv DEF ScreensInit
<1>2. SetInv /\ [ScreensNext]_screensVars => SetInv'
  BY StepOfEach, SetStep
<1> QED BY <1>1, <1>2, SetInvImplies, PTL DEF ScreensSpec

\* The fields a write carries and nobody touched.
FieldsStay ==
    \A kind \in Settings!Kinds, f \in Settings!Fields :
       setRequests[kind] # None /\ f \notin setRequests[kind].touched
         /\ Settings!Read(setSaved')[f] # Settings!Read(setSaved)[f]
         /\ setRequests'[kind] = None /\ f \in Settings!Carries(kind)
           => \/ Settings!Read(setSaved)[f] # setRequests[kind].base[f]
              \/ setRowless
              \/ f = "days" /\ "discount" \in setRequests[kind].touched

\* Written, a field whose value the page knew is read as it was.
LEMMA SetWriteStays ==
  ASSUME SetInv, NEW kind \in Settings!Kinds, Settings!Write(kind)
  PROVE  FieldsStay
<1> DEFINE r == setRequests[kind]
           n == Settings!Normalized(r.values)
           was == Settings!Read(setSaved)
           is == Settings!Read(setSaved')
<1>1. /\ \A k \in Settings!Kinds : setRequests[k] # None /\ setRequests'[k] = None => k = kind
      /\ r # None /\ RequestOK(kind, r)
  BY DEF Settings!Write, SetInv
<1> SUFFICES ASSUME NEW f \in Settings!Carries(kind), f \in Settings!Fields, f \notin r.touched,
                    was[f] = r.base[f], ~setRowless,
                    ~(f = "days" /\ "discount" \in r.touched)
             PROVE  is[f] = was[f]
  BY <1>1 DEF FieldsStay
<1>2. FormOK(was) /\ BaseOK(was) /\ SavedOK(setSaved) /\ SavedOK(setSaved')
  BY ReadIsAForm, SetWritten DEF SetInv
<1>3. was[f] # None /\ was[f] \in Settings!ValuesOf(f)
  BY <1>2, FieldNames DEF FormOK
<1>4. r.values[f] = was[f]
  BY <1>1, <1>3 DEF RequestOK
<1>5. \A g \in Settings!Carries(kind) : g \in Settings!Fields => setSaved'[g] = n[g]
  BY DEF Settings!Write
<1>6. n[f] = r.values[f] \/ (kind = "profile" /\ f = "days" /\ r.values["discount"] = 0 /\ n[f] = 0)
  BY <1>1, SetNormalized
<1>7. setSaved'[f] = was[f]
  <2>1. CASE n[f] = r.values[f]
    BY <1>4, <1>5, <2>1
  <2>2. CASE kind = "profile" /\ f = "days" /\ r.values["discount"] = 0 /\ n[f] = 0
    <3>1. "discount" \in Settings!Carries(kind) \ r.touched
      BY <2>2, KindNames
    <3>2. r.base["discount"] = 0 \/ r.base["discount"] = None
      BY <1>1, <2>2, <3>1 DEF RequestOK
    <3>3. r.base["days"] = 0
      BY <1>1, <1>3, <2>2, <3>2, SettingsAssumption DEF RequestOK, BaseOK
    <3> QED BY <1>5, <2>2, <3>3
  <2> QED BY <1>6, <2>1, <2>2
<1>8. CASE f \in {"name", "discount", "days", "terms"}
  BY <1>2, <1>7, <1>8, ReadFields
<1>9. CASE f \in {"introduction", "conclusion"}
  <2>1. {"introduction", "conclusion"} \subseteq Settings!Carries(kind)
    BY <1>9, KindNames
  <2>2. setSaved'["introduction"] # None
    BY <1>1, <1>5, <2>1, SetNormalized, FieldNames
  <2> QED BY <1>2, <1>7, <1>9, <2>2, ReadFields
<1>10. CASE f = "reminder"
  <2>1. was[f] \notin {None, NoText}
    BY <1>2, <1>10, ReadFields, SettingsAssumption
  <2> QED BY <1>2, <1>7, <1>10, <2>1, ReadFields
<1> QED BY <1>8, <1>9, <1>10, FieldNames

LEMMA SetFieldsStay ==
  ASSUME SetInv, [Settings!Next]_settingsVars
  PROVE  FieldsStay
<1>1. CASE setSaved' = setSaved
  BY <1>1 DEF FieldsStay
<1>2. ASSUME NEW kind \in Settings!Kinds, Settings!Write(kind) PROVE FieldsStay
  BY <1>2, SetWriteStays
<1>3. setSaved' = setSaved \/ \E kind \in Settings!Kinds : Settings!Write(kind)
  BY DEF settingsVars, Settings!Next, Settings!Screen, Settings!Open, Settings!Submit, Settings!Load,
     Settings!LoadFails, Settings!Type, Settings!SaveDraft, Settings!ReadRow, Settings!Fails
<1> QED BY <1>1, <1>2, <1>3

\* A write changes no field nobody touched whose value its page knew, a type's
\* first text block apart.
THEOREM UntouchedFieldsAreKept == ScreensSpec => UntouchedFieldsStay
<1>1. ScreensInit => SetInv
  BY SetInitInv DEF ScreensInit
<1>2. SetInv /\ [ScreensNext]_screensVars => SetInv'
  BY StepOfEach, SetStep
<1>3. SetInv /\ [ScreensNext]_screensVars => [FieldsStay]_settingsVars
  BY StepOfEach, SetFieldsStay
<1>4. [][FieldsStay]_settingsVars => UntouchedFieldsStay
  BY PTL DEF UntouchedFieldsStay, Settings!UntouchedFieldsStay, FieldsStay, settingsVars, Settings!vars
<1> QED BY <1>1, <1>2, <1>3, <1>4, PTL DEF ScreensSpec
-----------------------------------------------------------------------------
(***************************************************************************)
(* The document form.                                                      *)
(***************************************************************************)
FormHeader == [type : Form!Types, client : Clients, billed : BOOLEAN]
FormDraft ==
    [type : Form!Types, editing : Docs \cup {None}, client : Clients \cup {None},
     offered : Clients \cup {None}, linked : BOOLEAN, own : BOOLEAN, works : BOOLEAN,
     terms : Form!Types \cup {None}, locked : BOOLEAN, step : Form!Steps,
     sent : [own : BOOLEAN, works : BOOLEAN], header : FormHeader \cup {None},
     target : Docs \cup {None}, saved : BOOLEAN]

FormType ==
    /\ formDocs \in [Docs -> Form!Doc \cup {None}]
    /\ formForm \in FormDraft
    /\ formPage \in [route : Form!Routes, load : {"loading", "ready", "failed"}, left : BOOLEAN]
    /\ formAsked \subseteq Form!Reads
    /\ formPast \in [moves : 0..FormMoves, created : SUBSET Docs, lost : BOOLEAN, touched : BOOLEAN]
    /\ formDisturbed \in BOOLEAN

ContentSteps == {"content", "newContent"}

\* What the page and its requests speak of exists; and what a page that is not
\* ready has not asked for yet.
FormRefers ==
    /\ Form!Exists(formPage.route)
    /\ \A q \in formAsked : q.what \in {"edit", "copy"} => formDocs[q.arg] # None
    /\ \A q \in formAsked : q.what = "edit" => formPage.route.doc # None
    /\ formForm.editing # None => formDocs[formForm.editing] # None
    /\ formForm.step # "edit" => formForm.header # None /\ ~formForm.saved
    /\ formForm.step \in ContentSteps \cup {"header"} =>
          formForm.target # None /\ formDocs[formForm.target] # None
    /\ formPage.load # "ready" =>
          formForm.terms = None /\ ~formForm.works /\ \A q \in formAsked : q.what = "client"

\* One draft, one document: what has been created is what the draft edits.
FormCreates ==
    ~formPast.lost =>
        /\ formPast.created = {} \/ \E d \in Docs : formPast.created = {d}
        /\ formPast.created = {} \/ formForm.editing # None
             \/ (formPage.left /\ formForm.step # "create")
        /\ formForm.step = "create" => formPast.created = {}

\* What a draft lacks is on its way.
FormFollows ==
    /\ formPage.load = "ready" /\ formPage.route.doc = None =>
          formForm.type = formPage.route.type \/ (formPage.left /\ formAsked = {})
    /\ ~formDisturbed =>
          /\ formForm.offered \in {None, formForm.client}
                \/ Form!Ask("client", formForm.client) \in formAsked
          /\ \/ formForm.terms \in {None, formForm.type}
             \/ Form!Ask("template", formForm.type) \in formAsked
             \/ \E q \in formAsked : q.what \in {"edit", "copy"}
          /\ formForm.works => formForm.linked

\* Where imported work may be: in a document that is no invoice, or that bills it.
MayHold(x) == x.type = "INVOICE" => x.billed
FormBills ==
    ~formDisturbed =>
        /\ \A d \in Docs : formDocs[d] # None /\ formDocs[d].works => MayHold(formDocs[d])
        /\ formForm.works =>
             /\ formForm.step = "create" => MayHold(formForm.header)
             /\ formForm.editing # None => MayHold(formDocs[formForm.editing])
             /\ formForm.step = "header" => MayHold(formDocs[formForm.target])
        /\ formForm.step \in ContentSteps /\ formForm.sent.works => MayHold(formDocs[formForm.target])

\* A save nothing was edited under sends what the page shows.
FormSends ==
    formForm.step # "edit" /\ ~formPast.touched =>
        /\ formForm.client = formForm.header.client
        /\ formForm.step \in ContentSteps =>
              /\ formDocs[formForm.target].client = formForm.header.client
              /\ formForm.sent = Form!Content(formForm)

FormInv == FormType /\ FormRefers /\ FormCreates /\ FormFollows /\ FormBills /\ FormSends

LEMMA RouteShapes ==
  /\ \A t, f : Form!New(t, f) = [doc |-> None, type |-> t, from |-> f, project |-> FALSE]
  /\ Form!FromProject \in [doc : {None}, type : {"INVOICE"}, from : {None}, project : {TRUE}]
  /\ \A d : Form!Edit(d) \in [doc : {d}, type : {"QUOTE"}, from : {None}, project : {FALSE}]
<1>1. \A t, f : Form!New(t, f) = [doc |-> None, type |-> t, from |-> f, project |-> FALSE]
  BY DEF Form!New
<1>2. \A t : \A r \in [doc : {None}, type : {t}, from : {None}, project : {FALSE}] :
        /\ [r EXCEPT !.project = TRUE] \in [doc : {None}, type : {t}, from : {None}, project : {TRUE}]
        /\ \A d : [r EXCEPT !.doc = d] \in [doc : {d}, type : {t}, from : {None}, project : {FALSE}]
  OBVIOUS
<1>3. \A t : Form!New(t, None) \in [doc : {None}, type : {t}, from : {None}, project : {FALSE}]
  BY <1>1
<1> QED BY <1>1, <1>2, <1>3 DEF Form!FromProject, Form!Edit

LEMMA RouteFacts ==
  ASSUME NEW r \in Form!Routes
  PROVE  /\ r.doc \in Docs \cup {None} /\ r.from \in Docs \cup {None}
         /\ r.type \in Form!Types /\ r.project \in BOOLEAN
         /\ r.from # None => r.doc = None
         /\ r.doc # None \/ r.from # None => ~r.project
<1>1. CASE r = Form!FromProject
  <2>1. r \in [doc : {None}, type : {"INVOICE"}, from : {None}, project : {TRUE}]
    BY <1>1, RouteShapes
  <2> QED BY <2>1 DEF Form!Types
<1>2. CASE \E d \in Docs : r = Form!Edit(d)
  <2>1. PICK d \in Docs : r = Form!Edit(d)
    BY <1>2
  <2>2. r \in [doc : {d}, type : {"QUOTE"}, from : {None}, project : {FALSE}]
    BY <2>1, RouteShapes
  <2> QED BY <2>2 DEF Form!Types
<1>3. CASE \E t \in Form!Types, f \in Docs \cup {None} : r = Form!New(t, f)
  <2>1. PICK t \in Form!Types, f \in Docs \cup {None} :
          r = [doc |-> None, type |-> t, from |-> f, project |-> FALSE]
    BY <1>3, RouteShapes
  <2> QED BY <2>1
<1>4. r = Form!FromProject \/ (\E d \in Docs : r = Form!Edit(d))
      \/ \E t \in Form!Types, f \in Docs \cup {None} : r = Form!New(t, f)
  BY DEF Form!Routes
<1> QED BY <1>1, <1>2, <1>3, <1>4

LEMMA EditRoute ==
  ASSUME NEW d \in Docs
  PROVE  Form!Edit(d) \in Form!Routes /\ Form!Edit(d).doc = d /\ Form!Edit(d).from = None
<1>1. Form!Edit(d) \in Form!Routes
  BY DEF Form!Routes
<1> QED BY <1>1, RouteShapes

LEMMA ReadFacts ==
  ASSUME NEW q \in Form!Reads
  PROVE  \/ q.what \in {"chantier", "work"} /\ q.arg = None /\ q = Form!Ask(q.what, q.arg)
         \/ q.what \in {"edit", "copy"} /\ q.arg \in Docs /\ q = Form!Ask(q.what, q.arg)
         \/ q.what = "client" /\ q.arg \in Clients /\ q = Form!Ask(q.what, q.arg)
         \/ q.what = "template" /\ q.arg \in Form!Types /\ q = Form!Ask(q.what, q.arg)
  BY DEF Form!Reads, Form!Ask

LEMMA AskFacts ==
  ASSUME NEW w, NEW a
  PROVE  /\ Form!Ask(w, a).what = w /\ Form!Ask(w, a).arg = a
         /\ w \in {"chantier", "work"} /\ a = None => Form!Ask(w, a) \in Form!Reads
         /\ w \in {"edit", "copy"} /\ a \in Docs => Form!Ask(w, a) \in Form!Reads
         /\ w = "client" /\ a \in Clients => Form!Ask(w, a) \in Form!Reads
         /\ w = "template" /\ a \in Form!Types => Form!Ask(w, a) \in Form!Reads
  BY DEF Form!Reads, Form!Ask

LEMMA ChantierIsAClient == Form!ChantierClient \in Clients
  BY FormAssumption DEF Form!ChantierClient

\* The parts of a draft that its save works with, and the others.
SaveKept ==
    /\ formForm'.editing = formForm.editing /\ formForm'.step = formForm.step
    /\ formForm'.header = formForm.header /\ formForm'.target = formForm.target
    /\ formForm'.sent = formForm.sent /\ formForm'.saved = formForm.saved
DraftKept ==
    /\ formForm'.type = formForm.type /\ formForm'.client = formForm.client
    /\ formForm'.offered = formForm.offered /\ formForm'.linked = formForm.linked
    /\ formForm'.own = formForm.own /\ formForm'.works = formForm.works
    /\ formForm'.terms = formForm.terms
DocsKept ==
    \A d \in Docs : formDocs[d] # None =>
        formDocs'[d] # None /\ formDocs'[d].type = formDocs[d].type /\ formDocs'[d].billed = formDocs[d].billed

\* Whatever happens to the draft alone leaves the save under way as it is.
LEMMA FormDraftStep ==
  ASSUME FormInv, FormType', SaveKept, formDocs' = formDocs, formDisturbed => formDisturbed',
         formPast'.created = formPast.created, formPast'.lost = formPast.lost,
         formPage.left => formPage'.left,
         \/ formPast'.touched
         \/ /\ formPast'.touched = formPast.touched /\ formForm'.client = formForm.client
            /\ formForm'.own = formForm.own /\ formForm'.works = formForm.works,
         formForm'.works => \/ formForm.works \/ formDisturbed'
                            \/ formForm.step = "edit" /\ formForm.editing = None
  PROVE  FormCreates' /\ FormBills' /\ FormSends'
<1>1. FormCreates'
  BY DEF FormInv, FormCreates, SaveKept
<1>2. FormBills'
  <2>1. \A d \in Docs : ~formDisturbed' /\ formDocs'[d] # None /\ formDocs'[d].works => MayHold(formDocs'[d])
    BY DEF FormInv, FormBills
  <2>2. ~formDisturbed' /\ formForm'.works =>
             /\ formForm'.step = "create" => MayHold(formForm'.header)
             /\ formForm'.editing # None => MayHold(formDocs'[formForm'.editing])
             /\ formForm'.step = "header" => MayHold(formDocs'[formForm'.target])
    BY DEF FormInv, FormBills, SaveKept
  <2>3. ~formDisturbed' /\ formForm'.step \in ContentSteps /\ formForm'.sent.works
           => MayHold(formDocs'[formForm'.target])
    BY DEF FormInv, FormBills, SaveKept
  <2> QED BY <2>1, <2>2, <2>3 DEF FormBills, MayHold, ContentSteps
<1>3. FormSends'
  BY DEF FormInv, FormSends, SaveKept, Form!Content, ContentSteps
<1> QED BY <1>1, <1>2, <1>3

\* A step of the save leaves the draft, and what is on its way to it, as they are.
LEMMA FormSaveStep ==
  ASSUME FormInv, FormType', DraftKept, DocsKept, formAsked' = formAsked,
         formDisturbed' = formDisturbed,
         \/ formPage' = formPage
         \/ /\ formPage'.load = formPage.load
            /\ formPage'.route.doc \in Docs /\ formPage'.route.from = None
            /\ formDocs'[formPage'.route.doc] # None
  PROVE  /\ FormFollows' /\ Form!Exists(formPage.route)'
         /\ \A q \in formAsked' : q.what \in {"edit", "copy"} => formDocs'[q.arg] # None
         /\ \A q \in formAsked' : q.what = "edit" => formPage'.route.doc # None
         /\ formPage'.load # "ready" =>
               formForm'.terms = None /\ ~formForm'.works /\ \A q \in formAsked' : q.what = "client"
<1>1. None \notin Docs
  BY FormAssumption
<1>2. FormFollows'
  BY <1>1 DEF FormInv, FormFollows, DraftKept, Form!Ask
<1>3. Form!Exists(formPage.route)'
  <2>1. CASE formPage' = formPage
    <3>1. formPage.route.doc \in Docs \cup {None} /\ formPage.route.from \in Docs \cup {None}
      BY RouteFacts DEF FormInv, FormType
    <3> QED BY <2>1, <3>1 DEF FormInv, FormRefers, DocsKept, Form!Exists
  <2>2. CASE formPage' # formPage
    BY <2>2 DEF Form!Exists
  <2> QED BY <2>1, <2>2
<1>4. \A q \in formAsked' : q.what \in {"edit", "copy"} => formDocs'[q.arg] # None
  BY ReadFacts DEF FormInv, FormType, FormRefers, DocsKept
<1>5. \A q \in formAsked' : q.what = "edit" => formPage'.route.doc # None
  BY <1>1 DEF FormInv, FormRefers
<1>6. formPage'.load # "ready" =>
        formForm'.terms = None /\ ~formForm'.works /\ \A q \in formAsked' : q.what = "client"
  BY DEF FormInv, FormRefers, DraftKept
<1> QED BY <1>2, <1>3, <1>4, <1>5, <1>6

LEMMA BlankDraft == Form!Blank \in FormDraft
  BY DEF Form!Blank, FormDraft, Form!Types, Form!Steps, Form!NoContent

LEMMA FormInitInv == Form!Init => FormInv
<1> SUFFICES ASSUME Form!Init PROVE FormInv
  OBVIOUS
<1>1. formDocs \in [Docs -> Form!Doc \cup {None}]
  <2>1. PICK x \in Form!FirstDocs : formDocs = [d \in Docs |-> IF d = Source THEN x ELSE None]
    BY DEF Form!Init
  <2>2. x \in Form!Doc \cup {None}
    BY DEF Form!FirstDocs
  <2> QED BY <2>1, <2>2
<1>2. \A d \in Docs : formDocs[d] # None => ~formDocs[d].works
  BY DEF Form!Init, Form!FirstDocs
<1>3. formForm = Form!Blank /\ formAsked = {} /\ formPast = Form!Fresh /\ formDisturbed = FALSE
      /\ Form!Exists(formPage.route)
  BY DEF Form!Init
<1>4. formPage \in [route : Form!Routes, load : {"loading", "ready", "failed"}, left : BOOLEAN]
      /\ formPage.load = "loading"
  BY DEF Form!Init
<1>5. formPast \in [moves : 0..FormMoves, created : SUBSET Docs, lost : BOOLEAN, touched : BOOLEAN]
      /\ formPast.created = {} /\ ~formPast.touched
  BY <1>3, FormAssumption DEF Form!Fresh
<1>6. FormType
  BY <1>1, <1>3, <1>4, <1>5, BlankDraft DEF FormType
<1>7. /\ formForm.editing = None /\ formForm.step = "edit" /\ formForm.terms = None
      /\ formForm.offered = None /\ ~formForm.works
  BY <1>3 DEF Form!Blank
<1> QED BY <1>2, <1>3, <1>4, <1>5, <1>6, <1>7
        DEF FormInv, FormRefers, FormCreates, FormFollows, FormBills, FormSends, ContentSteps

\* A step that changes neither the draft, nor its save, nor what was asked.
LEMMA FormIdle ==
  ASSUME FormInv, UNCHANGED <<formDocs, formForm, formAsked, formPast, formDisturbed>>,
         formPage' = formPage
  PROVE  FormInv'
  BY DEF FormInv, FormType, FormRefers, FormCreates, FormFollows, FormBills, FormSends, Form!Exists,
     Form!Content

LEMMA FormLoadFailsKeeps ==
  ASSUME FormInv, Form!LoadFails
  PROVE  FormInv'
<1>1. /\ formPage.load = "loading" /\ formPage'.load = "failed" /\ formPage'.route = formPage.route
      /\ formPage'.left = formPage.left
      /\ formPage' \in [route : Form!Routes, load : {"loading", "ready", "failed"}, left : BOOLEAN]
  BY DEF Form!LoadFails, FormInv, FormType
<1>2. UNCHANGED <<formDocs, formForm, formAsked, formPast, formDisturbed>>
  BY DEF Form!LoadFails
<1>3. FormType'
  BY <1>1, <1>2 DEF FormInv, FormType
<1>4. SaveKept
  BY <1>2 DEF SaveKept
<1>5. FormCreates' /\ FormBills' /\ FormSends'
  BY <1>1, <1>2, <1>3, <1>4, FormDraftStep
<1>6. FormRefers'
  BY <1>1, <1>2 DEF FormInv, FormRefers, Form!Exists
<1>7. FormFollows'
  BY <1>1, <1>2 DEF FormInv, FormFollows
<1> QED BY <1>3, <1>5, <1>6, <1>7 DEF FormInv

LEMMA FormLeaveKeeps ==
  ASSUME FormInv, Form!Leave
  PROVE  FormInv'
<1>1. /\ formPage'.left /\ formPage'.load = formPage.load /\ formPage'.route = formPage.route
      /\ formPage' \in [route : Form!Routes, load : {"loading", "ready", "failed"}, left : BOOLEAN]
      /\ UNCHANGED <<formDocs, formPast, formDisturbed>>
  BY DEF Form!Leave, FormInv, FormType
<1>2. CASE formForm.step = "edit"
  <2>1. formForm' = Form!Blank /\ formAsked' = {}
    BY <1>2 DEF Form!Leave, Form!Gone, Form!At
  <2>2. /\ formForm'.editing = None /\ formForm'.step = "edit" /\ formForm'.terms = None
        /\ formForm'.offered = None /\ ~formForm'.works /\ formForm' \in FormDraft
    BY <2>1, BlankDraft DEF Form!Blank
  <2>3. FormType'
    BY <1>1, <2>1, <2>2 DEF FormInv, FormType
  <2>4. FormRefers'
    BY <1>1, <2>1, <2>2 DEF FormInv, FormRefers, Form!Exists, ContentSteps
  <2>5. FormCreates'
    BY <1>1, <2>2 DEF FormInv, FormCreates
  <2>6. FormFollows' /\ FormBills' /\ FormSends'
    BY <1>1, <2>1, <2>2 DEF FormInv, FormFollows, FormBills, FormSends, ContentSteps
  <2> QED BY <2>3, <2>4, <2>5, <2>6 DEF FormInv
<1>3. CASE formForm.step # "edit"
  <2>1. UNCHANGED <<formForm, formAsked>>
    BY <1>3 DEF Form!Leave, Form!At
  <2>2. FormType' /\ SaveKept
    BY <1>1, <2>1 DEF FormInv, FormType, SaveKept
  <2>3. FormCreates' /\ FormBills' /\ FormSends'
    BY <1>1, <2>1, <2>2, FormDraftStep
  <2>4. FormRefers' /\ FormFollows'
    BY <1>1, <2>1 DEF FormInv, FormRefers, FormFollows, Form!Exists
  <2> QED BY <2>2, <2>3, <2>4 DEF FormInv
<1> QED BY <1>2, <1>3

\* What a route asks for.
LEMMA RouteAsksFacts ==
  ASSUME NEW r \in Form!Routes
  PROVE  /\ Form!RouteAsks(r) \subseteq Form!Reads
         /\ r.doc # None => Form!Ask("edit", r.doc) \in Form!RouteAsks(r)
         /\ r.doc = None /\ r.from # None => Form!Ask("copy", r.from) \in Form!RouteAsks(r)
         /\ r.doc = None /\ r.from = None => Form!Ask("template", r.type) \in Form!RouteAsks(r)
         /\ \A q \in Form!RouteAsks(r) :
               /\ q.what = "edit" => r.doc # None /\ q.arg = r.doc
               /\ q.what = "copy" => r.from # None /\ q.arg = r.from
<1>1. /\ r.doc \in Docs \cup {None} /\ r.from \in Docs \cup {None}
      /\ r.type \in Form!Types /\ r.project \in BOOLEAN
      /\ r.from # None => r.doc = None
      /\ r.doc # None \/ r.from # None => ~r.project
  BY RouteFacts
<1>2. CASE r.doc # None
  <2>1. Form!RouteAsks(r) = {Form!Ask("edit", r.doc)}
    BY <1>1, <1>2 DEF Form!RouteAsks
  <2> QED BY <1>1, <1>2, <2>1, AskFacts
<1>3. CASE r.doc = None /\ r.from # None
  <2>1. Form!RouteAsks(r) = {Form!Ask("copy", r.from)}
    BY <1>1, <1>3 DEF Form!RouteAsks
  <2> QED BY <1>1, <1>3, <2>1, AskFacts
<1>4. CASE r.doc = None /\ r.from = None
  <2>1. \/ Form!RouteAsks(r) = {Form!Ask("template", r.type), Form!Ask("chantier", None)}
        \/ Form!RouteAsks(r) = {Form!Ask("template", r.type)}
    BY <1>1, <1>4 DEF Form!RouteAsks
  <2> QED BY <1>1, <1>4, <2>1, AskFacts
<1> QED BY <1>2, <1>3, <1>4

\* A route followed: its answers are on their way to the draft.
LEMMA FormRouted ==
  ASSUME FormInv, FormType', NEW r \in Form!Routes, Form!Exists(r),
         formPage'.route = r, formPage'.load = "ready", formPage'.left = formPage.left,
         formForm'.type = r.type \/ r.doc # None,
         formForm'.client = formForm.client, formForm'.offered = formForm.offered,
         formForm'.linked = formForm.linked, formForm'.works = formForm.works,
         formAsked' = formAsked \cup Form!RouteAsks(r), formDocs' = formDocs,
         formDisturbed => formDisturbed',
         r.doc = None => formPage.route.doc = None
  PROVE  /\ FormFollows' /\ Form!Exists(formPage.route)'
         /\ \A q \in formAsked' : q.what \in {"edit", "copy"} => formDocs'[q.arg] # None
         /\ \A q \in formAsked' : q.what = "edit" => formPage'.route.doc # None
<1>1. Form!Exists(formPage.route)'
  BY DEF Form!Exists
<1>2. \A q \in formAsked' : q.what \in {"edit", "copy"} => formDocs'[q.arg] # None
  BY RouteAsksFacts DEF FormInv, FormRefers, Form!Exists
<1>3. \A q \in formAsked' : q.what = "edit" => formPage'.route.doc # None
  BY RouteAsksFacts DEF FormInv, FormRefers
<1>4. FormFollows'
  <2>1. formPage'.load = "ready" /\ formPage'.route.doc = None => formForm'.type = formPage'.route.type
    OBVIOUS
  <2>2. ASSUME ~formDisturbed'
        PROVE  \/ Form!Ask("template", formForm'.type) \in formAsked'
               \/ \E q \in formAsked' : q.what \in {"edit", "copy"}
    BY RouteAsksFacts, AskFacts
  <2>3. ASSUME ~formDisturbed'
        PROVE  /\ formForm'.offered \in {None, formForm'.client}
                     \/ Form!Ask("client", formForm'.client) \in formAsked'
               /\ formForm'.works => formForm'.linked
    BY <2>3 DEF FormInv, FormFollows
  <2> QED BY <2>1, <2>2, <2>3 DEF FormFollows, Form!Ask
<1> QED BY <1>1, <1>2, <1>3, <1>4

LEMMA FormBranchKeeps ==
  ASSUME FormInv, Form!Branch
  PROVE  FormInv'
<1> DEFINE r == formPage.route
<1>1. /\ formPage.load = "loading" /\ formPage'.load = "ready" /\ formPage'.route = r
      /\ formPage'.left = formPage.left
      /\ formPage' \in [route : Form!Routes, load : {"loading", "ready", "failed"}, left : BOOLEAN]
      /\ r \in Form!Routes /\ Form!Exists(r)
  BY DEF Form!Branch, FormInv, FormType, FormRefers
<1>2. /\ formAsked' = formAsked \cup Form!RouteAsks(r)
      /\ UNCHANGED <<formDocs, formPast, formDisturbed>>
  BY DEF Form!Branch, Form!Asking
<1>3. formForm.terms = None /\ ~formForm.works /\ \A q \in formAsked : q.what = "client"
  BY <1>1 DEF FormInv, FormRefers
<1>4. r.doc \in Docs \cup {None} /\ r.type \in Form!Types
  BY <1>1, RouteFacts
<1>5. /\ formForm' \in FormDraft
      /\ formForm'.editing = IF r.doc # None THEN r.doc ELSE formForm.editing
      /\ formForm'.type = IF r.doc # None THEN formForm.type ELSE r.type
      /\ formForm'.client = formForm.client /\ formForm'.offered = formForm.offered
      /\ formForm'.linked = formForm.linked /\ formForm'.works = formForm.works
      /\ formForm'.own = formForm.own /\ formForm'.sent = formForm.sent
      /\ formForm'.step = formForm.step /\ formForm'.header = formForm.header
      /\ formForm'.target = formForm.target /\ formForm'.saved = formForm.saved
  <2>1. CASE r.doc # None
    <3>1. formForm' = [formForm EXCEPT !.editing = r.doc]
      BY <2>1 DEF Form!Branch
    <3> QED BY <1>4, <2>1, <3>1 DEF FormInv, FormType, FormDraft
  <2>2. CASE r.doc = None
    <3>1. formForm' = [formForm EXCEPT !.type = r.type]
      BY <2>2 DEF Form!Branch
    <3> QED BY <1>4, <2>2, <3>1 DEF FormInv, FormType, FormDraft
  <2> QED BY <2>1, <2>2
<1> HIDE DEF r
<1>6. FormType'
  BY <1>1, <1>2, <1>5, RouteAsksFacts DEF FormInv, FormType
<1>7. /\ FormFollows' /\ Form!Exists(formPage.route)'
      /\ \A q \in formAsked' : q.what \in {"edit", "copy"} => formDocs'[q.arg] # None
      /\ \A q \in formAsked' : q.what = "edit" => formPage'.route.doc # None
  BY <1>1, <1>2, <1>5, <1>6, FormRouted DEF r
<1>8. FormRefers'
  <2>1. formForm'.editing # None => formDocs'[formForm'.editing] # None
    BY <1>1, <1>2, <1>5 DEF FormInv, FormRefers, Form!Exists
  <2> QED BY <1>1, <1>2, <1>5, <1>7, <2>1 DEF FormInv, FormRefers
<1>9. FormCreates'
  BY <1>1, <1>2, <1>5 DEF FormInv, FormCreates
<1>10. FormBills' /\ FormSends'
  BY <1>2, <1>3, <1>5 DEF FormInv, FormBills, FormSends, MayHold, Form!Content, ContentSteps
<1> QED BY <1>6, <1>7, <1>8, <1>9, <1>10 DEF FormInv

LEMMA FormMoved ==
  ASSUME FormInv, NEW touched \in BOOLEAN, Form!Moving(touched)
  PROVE  /\ formPast' \in [moves : 0..FormMoves, created : SUBSET Docs, lost : BOOLEAN, touched : BOOLEAN]
         /\ formPast'.created = formPast.created /\ formPast'.lost = formPast.lost
         /\ formPast'.touched = touched
<1>1. formPast' = [formPast EXCEPT !.moves = formPast.moves + 1, !.touched = touched]
      /\ formPast.moves < FormMoves
  BY DEF Form!Moving
<1>2. formPast \in [moves : 0..FormMoves, created : SUBSET Docs, lost : BOOLEAN, touched : BOOLEAN]
  BY DEF FormInv, FormType
<1>3. formPast.moves + 1 \in 0..FormMoves
  BY <1>1, <1>2, FormAssumption
<1> QED BY <1>1, <1>2, <1>3

LEMMA FormChangeParamsKeeps ==
  ASSUME FormInv, NEW r \in Form!Routes, Form!ChangeParams(r)
  PROVE  FormInv'
<1>1. /\ formPage.load = "ready" /\ formPage'.load = "ready" /\ formPage'.route = r
      /\ formPage'.left = formPage.left /\ formPage.route.doc = None /\ r.doc = None /\ Form!Exists(r)
      /\ formPage' \in [route : Form!Routes, load : {"loading", "ready", "failed"}, left : BOOLEAN]
  BY DEF Form!ChangeParams, FormInv, FormType
<1>2. /\ formAsked' = formAsked \cup Form!RouteAsks(r) /\ formDocs' = formDocs
      /\ formDisturbed' = (formDisturbed \/ formForm.editing # None)
      /\ formForm' = [formForm EXCEPT !.type = r.type]
  BY DEF Form!ChangeParams, Form!Asking
<1>3. r.type \in Form!Types
  BY RouteFacts
<1>4. /\ formForm' \in FormDraft /\ SaveKept
      /\ formForm'.type = r.type /\ formForm'.terms = formForm.terms
      /\ formForm'.client = formForm.client /\ formForm'.offered = formForm.offered
      /\ formForm'.linked = formForm.linked /\ formForm'.works = formForm.works
      /\ formForm'.own = formForm.own
  BY <1>2, <1>3 DEF FormInv, FormType, FormDraft, SaveKept
<1>5. /\ formPast' \in [moves : 0..FormMoves, created : SUBSET Docs, lost : BOOLEAN, touched : BOOLEAN]
      /\ formPast'.created = formPast.created /\ formPast'.lost = formPast.lost /\ formPast'.touched
  BY FormMoved DEF Form!ChangeParams
<1>6. FormType'
  BY <1>1, <1>2, <1>4, <1>5, RouteAsksFacts DEF FormInv, FormType
<1>7. /\ FormFollows' /\ Form!Exists(formPage.route)'
      /\ \A q \in formAsked' : q.what \in {"edit", "copy"} => formDocs'[q.arg] # None
      /\ \A q \in formAsked' : q.what = "edit" => formPage'.route.doc # None
  BY <1>1, <1>2, <1>4, <1>6, FormRouted
<1>8. FormCreates' /\ FormBills' /\ FormSends'
  BY <1>1, <1>2, <1>4, <1>5, <1>6, FormDraftStep
<1>9. FormRefers'
  BY <1>1, <1>2, <1>4, <1>7 DEF FormInv, FormRefers, SaveKept
<1> QED BY <1>6, <1>7, <1>8, <1>9 DEF FormInv

\* The answers: what each makes of the draft.
LEMMA ClientAsksFacts ==
  ASSUME NEW c \in Clients
  PROVE  Form!ClientAsks(c) = {Form!Ask("client", c)} /\ Form!ClientAsks(c) \subseteq Form!Reads
  BY FormAssumption, AskFacts DEF Form!ClientAsks

LEMMA LinkedFacts ==
  ASSUME NEW f \in FormDraft, NEW yes \in BOOLEAN
  PROVE  LET g == Form!Linked(f, yes)
         IN  /\ g \in FormDraft /\ g.linked = yes /\ ~g.works /\ g.client = f.client
             /\ g.offered = f.offered
             /\ g.type = f.type /\ g.own = f.own /\ g.terms = f.terms /\ g.editing = f.editing
             /\ g.step = f.step /\ g.header = f.header /\ g.target = f.target /\ g.sent = f.sent
             /\ g.saved = f.saved /\ g.locked = f.locked
  BY ZenonT(40) DEF FormDraft, Form!Linked

LEMMA WithClientFacts ==
  ASSUME NEW f \in FormDraft, NEW c \in Clients \cup {None}, NEW keep \in BOOLEAN
  PROVE  LET g == Form!WithClient(f, c, keep)
         IN  /\ g \in FormDraft /\ g.client = c /\ g.offered = (IF c = None THEN None ELSE f.offered)
             /\ g.linked = (IF keep THEN f.linked ELSE FALSE) /\ g.works = (IF keep THEN f.works ELSE FALSE)
             /\ g.type = f.type /\ g.own = f.own /\ g.terms = f.terms /\ g.editing = f.editing
             /\ g.step = f.step /\ g.header = f.header /\ g.target = f.target /\ g.sent = f.sent
             /\ g.saved = f.saved /\ g.locked = f.locked
<1> DEFINE u == IF keep THEN f ELSE Form!Linked(f, FALSE)
           o == IF c = None THEN None ELSE u.offered
<1>1. /\ u \in FormDraft /\ u.offered = f.offered
      /\ u.linked = (IF keep THEN f.linked ELSE FALSE) /\ u.works = (IF keep THEN f.works ELSE FALSE)
      /\ u.type = f.type /\ u.own = f.own /\ u.terms = f.terms /\ u.editing = f.editing
      /\ u.step = f.step /\ u.header = f.header /\ u.target = f.target /\ u.sent = f.sent
      /\ u.saved = f.saved /\ u.locked = f.locked
  <2>1. CASE keep
    BY <2>1
  <2>2. CASE ~keep
    <3>1. u = Form!Linked(f, FALSE)
      BY <2>2
    <3>2. (Form!Linked(f, FALSE)).works = FALSE
      BY DEF FormDraft, Form!Linked
    <3> QED BY <2>2, <3>1, <3>2, LinkedFacts
  <2> QED BY <2>1, <2>2
<1>2. Form!WithClient(f, c, keep) = [u EXCEPT !.client = c, !.offered = o]
  BY DEF Form!WithClient
<1>3. o \in Clients \cup {None} /\ o = IF c = None THEN None ELSE f.offered
  BY <1>1 DEF FormDraft
<1> HIDE DEF u, o
<1>4. LET g == [u EXCEPT !.client = c, !.offered = o]
      IN  /\ g \in FormDraft /\ g.client = c /\ g.offered = o
          /\ g.linked = u.linked /\ g.works = u.works
          /\ g.type = u.type /\ g.own = u.own /\ g.terms = u.terms /\ g.editing = u.editing
          /\ g.step = u.step /\ g.header = u.header /\ g.target = u.target /\ g.sent = u.sent
          /\ g.saved = u.saved /\ g.locked = u.locked
  BY ZenonT(40), <1>1, <1>3 DEF FormDraft
<1> QED BY <1>1, <1>2, <1>3, <1>4

LEMMA ClientPicked ==
  ASSUME NEW f \in FormDraft, NEW c \in Clients \cup {None}
  PROVE  LET g == Form!WithClient(f, c, FALSE)
         IN  /\ g \in FormDraft /\ g.client = c /\ g.offered = (IF c = None THEN None ELSE f.offered)
             /\ ~g.linked /\ ~g.works
             /\ g.type = f.type /\ g.own = f.own /\ g.terms = f.terms /\ g.editing = f.editing
             /\ g.step = f.step /\ g.header = f.header /\ g.target = f.target /\ g.sent = f.sent
             /\ g.saved = f.saved /\ g.locked = f.locked
<1> PICK keep \in BOOLEAN : keep = FALSE
  OBVIOUS
<1> QED BY ZenonT(40), WithClientFacts

LEMMA TakenFacts ==
  ASSUME NEW f \in FormDraft, NEW x \in Form!Doc
  PROVE  LET g == Form!Taken(f, x)
         IN  /\ g \in FormDraft /\ g.terms = x.type /\ g.client = f.client /\ g.works = f.works
             /\ g.type = f.type /\ g.editing = f.editing
             /\ g.step = f.step /\ g.header = f.header /\ g.target = f.target /\ g.sent = f.sent
             /\ g.saved = f.saved /\ g.locked = f.locked
<1> DEFINE g == Form!Taken(f, x)
<1>1. x.type \in Form!Types
  BY DEF Form!Doc
<1>2. g \in FormDraft
  <2> DEFINE a == [f EXCEPT !.own = x.own \/ x.works]
  <2>1. (x.own \/ x.works) \in BOOLEAN
    BY DEF Form!Doc
  <2>2. a \in FormDraft
    BY ZenonT(40), <2>1 DEF FormDraft
  <2> HIDE DEF a
  <2>3. [a EXCEPT !.terms = x.type] \in FormDraft
    BY <1>1, <2>2 DEF FormDraft
  <2> QED BY <2>3 DEF Form!Taken, a
<1>3. g.terms = x.type /\ g.client = f.client /\ g.works = f.works /\ g.type = f.type
      /\ g.editing = f.editing
  BY DEF Form!Taken, FormDraft
<1>4. g.step = f.step /\ g.header = f.header /\ g.target = f.target /\ g.sent = f.sent
      /\ g.saved = f.saved /\ g.locked = f.locked
  BY DEF Form!Taken, FormDraft
<1> QED BY <1>2, <1>3, <1>4

LEMMA FilledFacts ==
  ASSUME NEW f \in FormDraft, NEW x \in Form!Doc
  PROVE  LET g == Form!Filled(f, x)
         IN  /\ g \in FormDraft /\ g.client = x.client /\ ~g.works /\ g.terms = x.type
             /\ g.type = f.type /\ g.editing = f.editing
             /\ g.step = f.step /\ g.header = f.header /\ g.target = f.target /\ g.sent = f.sent
             /\ g.saved = f.saved /\ g.locked = f.locked
<1> DEFINE u == Form!WithClient(f, x.client, FALSE)
           v == Form!Linked(u, x.billed /\ f.type = "INVOICE")
           g == Form!Filled(f, x)
<1>1. x.client \in Clients /\ x.type \in Form!Types /\ x.own \in BOOLEAN /\ x.works \in BOOLEAN
      /\ (x.billed /\ f.type = "INVOICE") \in BOOLEAN
  BY DEF Form!Doc
<1>2. /\ u \in FormDraft /\ u.client = x.client /\ u.type = f.type /\ u.editing = f.editing
      /\ u.step = f.step /\ u.header = f.header /\ u.target = f.target /\ u.sent = f.sent
      /\ u.saved = f.saved /\ u.locked = f.locked
  <2>1. x.client \in Clients \cup {None}
    BY <1>1
  <2> QED BY <2>1, ClientPicked, Zenon
<1> HIDE DEF u
<1>3. /\ v \in FormDraft /\ v.client = u.client /\ ~v.works /\ v.type = u.type /\ v.editing = u.editing
      /\ v.step = u.step /\ v.header = u.header /\ v.target = u.target /\ v.sent = u.sent
      /\ v.saved = u.saved /\ v.locked = u.locked
  BY <1>1, <1>2, LinkedFacts
<1> HIDE DEF v
<1>4. g = Form!Taken(v, x)
  BY DEF Form!Filled, u, v
<1> HIDE DEF g
<1>6. /\ g \in FormDraft /\ g.client = v.client /\ g.works = v.works /\ g.terms = x.type
      /\ g.type = v.type /\ g.editing = v.editing
      /\ g.step = v.step /\ g.header = v.header /\ g.target = v.target /\ g.sent = v.sent
      /\ g.saved = v.saved /\ g.locked = v.locked
  BY <1>3, <1>4, TakenFacts
<1> QED BY <1>2, <1>3, <1>6 DEF g

\* A document that is read for the draft.
LEMMA FormReadsADoc ==
  ASSUME FormInv, NEW q \in formAsked, q.what \in {"edit", "copy"}
  PROVE  q.arg \in Docs /\ formDocs[q.arg] \in Form!Doc
  BY ReadFacts DEF FormInv, FormType, FormRefers

\* What an answer leaves as it is, and what it brings.
LEMMA AnswerFacts ==
  ASSUME FormInv, NEW q \in formAsked
  PROVE  LET g == Form!Answered(q)
             x == formDocs[q.arg]
         IN  /\ g \in FormDraft
             /\ g.editing = formForm.editing /\ g.step = formForm.step /\ g.header = formForm.header
             /\ g.target = formForm.target /\ g.sent = formForm.sent /\ g.saved = formForm.saved
             /\ q.what = "client" => /\ g.offered = q.arg /\ g.client = formForm.client
                                     /\ g.type = formForm.type /\ g.terms = formForm.terms
                                     /\ g.linked = formForm.linked /\ g.works = formForm.works
             /\ q.what = "template" => /\ g.terms = q.arg /\ g.type = formForm.type
                                       /\ g.client = formForm.client /\ g.offered = formForm.offered
                                       /\ g.linked = formForm.linked /\ g.works = formForm.works
             /\ q.what = "edit" => g.type = x.type /\ g.terms = x.type /\ g.client = x.client /\ ~g.works
             /\ q.what = "copy" => /\ g.type = formForm.type /\ g.terms = x.type
                                   /\ g.client = x.client /\ ~g.works
             /\ q.what = "chantier" => /\ g.client = Form!ChantierClient /\ ~g.works
                                       /\ g.type = formForm.type /\ g.terms = formForm.terms
             /\ q.what = "work" => /\ g.works /\ g.linked = formForm.linked /\ g.type = formForm.type
                                   /\ g.client = formForm.client /\ g.offered = formForm.offered
                                   /\ g.terms = formForm.terms
<1> DEFINE g == Form!Answered(q)
           x == formDocs[q.arg]
<1>1. formForm \in FormDraft /\ q \in Form!Reads
  BY DEF FormInv, FormType
<1>2. CASE q.what = "client"
  <2>1. q.arg \in Clients /\ g = [formForm EXCEPT !.offered = q.arg]
    BY <1>1, <1>2, ReadFacts DEF Form!Answered
  <2> QED BY <1>1, <1>2, <2>1 DEF FormDraft
<1>3. CASE q.what = "template"
  <2>1. q.arg \in Form!Types /\ g = [formForm EXCEPT !.terms = q.arg]
    BY <1>1, <1>3, ReadFacts DEF Form!Answered
  <2> QED BY <1>1, <1>3, <2>1 DEF FormDraft
<1>4. CASE q.what = "edit"
  <2> DEFINE u == [formForm EXCEPT !.type = x.type]
             v == Form!Filled(u, x)
  <2>1. x \in Form!Doc /\ x.type \in Form!Types
    BY <1>4, FormReadsADoc DEF Form!Doc
  <2> PICK locked \in BOOLEAN : locked = (x.status # "open")
    OBVIOUS
  <2>2. g = [v EXCEPT !.locked = locked]
    BY <1>4 DEF Form!Answered, Form!Loaded
  <2>3. /\ u \in FormDraft /\ u.type = x.type /\ u.editing = formForm.editing
        /\ u.step = formForm.step /\ u.header = formForm.header
        /\ u.target = formForm.target /\ u.sent = formForm.sent /\ u.saved = formForm.saved
    BY <1>1, <2>1 DEF FormDraft
  <2> HIDE DEF u, g, x
  <2>4. /\ v \in FormDraft /\ v.client = x.client /\ ~v.works /\ v.terms = x.type
        /\ v.type = u.type /\ v.editing = u.editing
        /\ v.step = u.step /\ v.header = u.header /\ v.target = u.target /\ v.sent = u.sent
        /\ v.saved = u.saved
    BY <2>1, <2>3, FilledFacts
  <2> HIDE DEF v
  <2>5. /\ g \in FormDraft /\ g.client = v.client /\ ~g.works /\ g.terms = v.terms
        /\ g.type = v.type /\ g.editing = v.editing
        /\ g.step = v.step /\ g.header = v.header /\ g.target = v.target /\ g.sent = v.sent
        /\ g.saved = v.saved
    BY ZenonT(40), <2>2, <2>4 DEF FormDraft
  <2> QED BY <1>4, <2>3, <2>4, <2>5 DEF g, x
<1>5. CASE q.what = "copy"
  <2>1. x \in Form!Doc /\ g = Form!Filled(formForm, x)
    BY <1>5, FormReadsADoc DEF Form!Answered
  <2> QED BY <1>1, <1>5, <2>1, FilledFacts
<1>6. CASE q.what = "chantier"
  <2> DEFINE u == Form!WithClient(formForm, Form!ChantierClient, FALSE)
  <2>1. g = Form!Linked(u, TRUE)
    BY <1>6 DEF Form!Answered
  <2>2. /\ u \in FormDraft /\ u.client = Form!ChantierClient /\ u.type = formForm.type
        /\ u.terms = formForm.terms /\ u.editing = formForm.editing
        /\ u.step = formForm.step /\ u.header = formForm.header
        /\ u.target = formForm.target /\ u.sent = formForm.sent /\ u.saved = formForm.saved
    <3>1. Form!ChantierClient \in Clients \cup {None}
      BY ChantierIsAClient
    <3> QED BY <1>1, <3>1, ClientPicked, Zenon
  <2> HIDE DEF u, g
  <2>3. /\ g \in FormDraft /\ g.client = u.client /\ ~g.works /\ g.type = u.type /\ g.terms = u.terms
        /\ g.editing = u.editing /\ g.step = u.step /\ g.header = u.header /\ g.target = u.target
        /\ g.sent = u.sent /\ g.saved = u.saved
    BY <2>1, <2>2, LinkedFacts
  <2> QED BY <1>6, <2>2, <2>3 DEF g
<1>7. CASE q.what = "work"
  <2>1. g = [formForm EXCEPT !.works = TRUE]
    BY <1>7 DEF Form!Answered
  <2> QED BY <1>1, <1>7, <2>1 DEF FormDraft
<1> QED BY <1>1, <1>2, <1>3, <1>4, <1>5, <1>6, <1>7, ReadFacts

LEMMA FollowUpsFacts ==
  ASSUME FormInv, NEW q \in formAsked
  PROVE  /\ Form!FollowUps(q) \subseteq Form!Reads
         /\ \A r \in Form!FollowUps(q) : r.what \in {"client", "work"}
         /\ q.what \in {"edit", "copy"} => Form!Ask("client", formDocs[q.arg].client) \in Form!FollowUps(q)
         /\ q.what = "chantier" => Form!Ask("client", Form!ChantierClient) \in Form!FollowUps(q)
         /\ q.what = "client" => Form!FollowUps(q) = {}
<1>1. CASE q.what \in {"edit", "copy"}
  <2>1. formDocs[q.arg].client \in Clients
    BY <1>1, FormReadsADoc DEF Form!Doc
  <2>2. Form!FollowUps(q) = Form!ClientAsks(formDocs[q.arg].client)
    BY <1>1 DEF Form!FollowUps
  <2> QED BY <1>1, <2>1, <2>2, ClientAsksFacts, AskFacts
<1>2. CASE q.what = "chantier"
  <2>1. Form!FollowUps(q) = Form!ClientAsks(Form!ChantierClient) \cup {Form!Ask("work", None)}
    BY <1>2 DEF Form!FollowUps
  <2> QED BY <1>2, <2>1, ChantierIsAClient, ClientAsksFacts, AskFacts
<1>3. CASE q.what \notin {"edit", "copy", "chantier"}
  BY <1>3 DEF Form!FollowUps
<1> QED BY <1>1, <1>2, <1>3

LEMMA FormReceiveFollows ==
  ASSUME FormInv, NEW q \in Form!Reads, Form!Receive(q), ~formDisturbed'
  PROVE  /\ formForm'.offered \in {None, formForm'.client}
              \/ Form!Ask("client", formForm'.client) \in formAsked'
         /\ \/ formForm'.terms \in {None, formForm'.type}
            \/ Form!Ask("template", formForm'.type) \in formAsked'
            \/ \E r \in formAsked' : r.what \in {"edit", "copy"}
         /\ formForm'.works => formForm'.linked
<1> DEFINE x == formDocs[q.arg]
<1>1. /\ q \in formAsked /\ formForm' = Form!Answered(q)
      /\ formAsked' = (formAsked \ {q}) \cup Form!FollowUps(q)
      /\ ~formDisturbed /\ ~Form!Overtaken(q)
      /\ UNCHANGED <<formDocs, formPage>>
  BY DEF Form!Receive, Form!Arrives
<1>2. \A w, a : w # q.what => (Form!Ask(w, a) \in formAsked => Form!Ask(w, a) \in formAsked')
  BY <1>1, AskFacts
<1>3. q.what \notin {"edit", "copy"} /\ (\E r \in formAsked : r.what \in {"edit", "copy"})
         => \E r \in formAsked' : r.what \in {"edit", "copy"}
  BY <1>1
<1>4. /\ formForm.offered \in {None, formForm.client}
              \/ Form!Ask("client", formForm.client) \in formAsked
      /\ \/ formForm.terms \in {None, formForm.type}
         \/ Form!Ask("template", formForm.type) \in formAsked
         \/ \E r \in formAsked : r.what \in {"edit", "copy"}
      /\ formForm.works => formForm.linked
  BY <1>1 DEF FormInv, FormFollows
<1>5. CASE q.what = "client"
  <2>1. q.arg = formForm.client
    BY <1>1, <1>5 DEF Form!Overtaken
  <2>2. /\ formForm'.offered = q.arg /\ formForm'.client = formForm.client
        /\ formForm'.type = formForm.type /\ formForm'.terms = formForm.terms
        /\ formForm'.linked = formForm.linked /\ formForm'.works = formForm.works
    BY <1>1, <1>5, AnswerFacts
  <2> QED BY <1>2, <1>3, <1>4, <1>5, <2>1, <2>2
<1>6. CASE q.what = "template"
  <2>1. q.arg = formForm.type
    BY <1>1, <1>6 DEF Form!Overtaken
  <2>2. /\ formForm'.terms = q.arg /\ formForm'.type = formForm.type
        /\ formForm'.client = formForm.client /\ formForm'.offered = formForm.offered
        /\ formForm'.linked = formForm.linked /\ formForm'.works = formForm.works
    BY <1>1, <1>6, AnswerFacts
  <2> QED BY <1>2, <1>4, <1>6, <2>1, <2>2
<1>7. CASE q.what \in {"edit", "copy"}
  <2>1. /\ formForm'.client = x.client /\ formForm'.terms = x.type /\ ~formForm'.works
        /\ formForm'.type = IF q.what = "edit" THEN x.type ELSE formForm.type
    BY <1>1, <1>7, AnswerFacts
  <2>2. formForm'.type = x.type
    <3>1. CASE q.what = "edit"
      BY <2>1, <3>1
    <3>2. CASE q.what = "copy"
      <4>1. q.arg = formPage.route.from /\ q.arg \in Docs
        BY <1>1, <1>7, <3>2, FormReadsADoc DEF Form!Overtaken
      <4>2. formPage.route \in Form!Routes /\ formPage.route.from # None
        BY <4>1, FormAssumption DEF FormInv, FormType
      <4>3. formPage.route.doc = None /\ x.type = formPage.route.type
        BY <4>1, <4>2, RouteFacts DEF FormInv, FormRefers, Form!Exists
      <4>4. formPage.load = "ready"
        BY <1>1, <1>7 DEF FormInv, FormRefers
      <4>5. formForm.type = formPage.route.type
        BY <1>1, <4>3, <4>4 DEF FormInv, FormFollows
      <4> QED BY <2>1, <3>2, <4>3, <4>5
    <3> QED BY <1>7, <3>1, <3>2
  <2>3. Form!Ask("client", formForm'.client) \in formAsked'
    BY <1>1, <1>7, <2>1, FollowUpsFacts
  <2> QED BY <2>1, <2>2, <2>3
<1>8. CASE q.what = "chantier"
  <2>1. /\ formForm'.client = Form!ChantierClient /\ ~formForm'.works
        /\ formForm'.type = formForm.type /\ formForm'.terms = formForm.terms
    BY <1>1, <1>8, AnswerFacts
  <2>2. Form!Ask("client", formForm'.client) \in formAsked'
    BY <1>1, <1>8, <2>1, FollowUpsFacts
  <2> QED BY <1>2, <1>3, <1>4, <1>8, <2>1, <2>2
<1>9. CASE q.what = "work"
  <2>1. formForm.linked
    BY <1>1, <1>9 DEF Form!Overtaken
  <2>2. /\ formForm'.linked = formForm.linked /\ formForm'.type = formForm.type
        /\ formForm'.client = formForm.client /\ formForm'.offered = formForm.offered
        /\ formForm'.terms = formForm.terms
    BY <1>1, <1>9, AnswerFacts
  <2> QED BY <1>2, <1>3, <1>4, <1>9, <2>1, <2>2
<1> QED BY <1>5, <1>6, <1>7, <1>8, <1>9, ReadFacts

LEMMA FormReceiveKeeps ==
  ASSUME FormInv, NEW q \in Form!Reads, Form!Receive(q)
  PROVE  FormInv'
<1>1. /\ q \in formAsked /\ formForm' = Form!Answered(q)
      /\ formAsked' = (formAsked \ {q}) \cup Form!FollowUps(q)
      /\ formDisturbed' = (formDisturbed \/ Form!Overtaken(q))
      /\ formPast' = [formPast EXCEPT !.touched = TRUE]
      /\ UNCHANGED <<formDocs, formPage>>
  BY DEF Form!Receive, Form!Arrives
<1>2. /\ formForm' \in FormDraft /\ SaveKept
      /\ formForm'.works /\ ~formForm.works => q.what = "work"
      /\ q.what \notin {"edit"} => formForm'.type = formForm.type
      /\ q.what = "client" => formForm'.terms = formForm.terms
  BY <1>1, AnswerFacts, ReadFacts DEF SaveKept
<1>3. /\ formPast' \in [moves : 0..FormMoves, created : SUBSET Docs, lost : BOOLEAN, touched : BOOLEAN]
      /\ formPast'.created = formPast.created /\ formPast'.lost = formPast.lost /\ formPast'.touched
  BY <1>1 DEF FormInv, FormType
<1>4. formDisturbed' \in BOOLEAN /\ (formDisturbed => formDisturbed')
  <2>1. Form!Overtaken(q) \in BOOLEAN
    BY AskFacts, ReadFacts DEF Form!Overtaken, Form!SavedOnce, Form!At
  <2> QED BY <1>1, <2>1 DEF FormInv, FormType
<1>5. FormType'
  BY <1>1, <1>2, <1>3, <1>4, FollowUpsFacts DEF FormInv, FormType
<1>6. formForm'.works => \/ formForm.works \/ formDisturbed'
                         \/ formForm.step = "edit" /\ formForm.editing = None
  <2>1. q.what = "work" /\ ~Form!Overtaken(q) => formForm.step = "edit" /\ formForm.editing = None
    BY DEF Form!Overtaken, Form!SavedOnce, Form!At
  <2> QED BY <1>1, <1>2, <2>1
<1>7. FormCreates' /\ FormBills' /\ FormSends'
  BY <1>1, <1>2, <1>3, <1>4, <1>5, <1>6, FormDraftStep
<1>8. FormRefers'
  <2>1. \A r \in formAsked' : r \in formAsked \/ r.what \in {"client", "work"}
    BY <1>1, FollowUpsFacts
  <2>2. \A r \in formAsked' : r.what \in {"edit", "copy"} => formDocs'[r.arg] # None
    BY <1>1, <2>1 DEF FormInv, FormRefers
  <2>3. \A r \in formAsked' : r.what = "edit" => formPage'.route.doc # None
    BY <1>1, <2>1 DEF FormInv, FormRefers
  <2>4. formPage'.load # "ready" =>
          formForm'.terms = None /\ ~formForm'.works /\ \A r \in formAsked' : r.what = "client"
    <3> SUFFICES ASSUME formPage.load # "ready"
                 PROVE  formForm'.terms = None /\ ~formForm'.works /\ \A r \in formAsked' : r.what = "client"
      BY <1>1
    <3>1. q.what = "client" /\ formForm.terms = None /\ ~formForm.works /\ \A r \in formAsked : r.what = "client"
      BY <1>1 DEF FormInv, FormRefers
    <3>2. Form!FollowUps(q) = {}
      BY <1>1, <3>1, FollowUpsFacts
    <3> QED BY <1>1, <1>2, <3>1, <3>2
  <2> QED BY <1>1, <1>2, <2>2, <2>3, <2>4 DEF FormInv, FormRefers, SaveKept, Form!Exists
<1>9. FormFollows'
  <2>1. formPage'.load = "ready" /\ formPage'.route.doc = None =>
           formForm'.type = formPage'.route.type \/ (formPage'.left /\ formAsked' = {})
    <3> SUFFICES ASSUME formPage.load = "ready", formPage.route.doc = None
                 PROVE  formForm'.type = formPage.route.type
      BY <1>1
    <3>1. q.what # "edit" /\ formAsked # {}
      BY <1>1 DEF FormInv, FormRefers
    <3> QED BY <1>2, <3>1 DEF FormInv, FormFollows
  <2> QED BY <2>1, FormReceiveFollows DEF FormFollows, Form!Ask
<1> QED BY <1>5, <1>7, <1>8, <1>9 DEF FormInv

LEMMA FormReadFailsKeeps ==
  ASSUME FormInv, NEW q \in Form!Reads, Form!ReadFails(q)
  PROVE  FormInv'
<1>1. /\ q \in formAsked /\ q.what = "client" /\ formForm' = [formForm EXCEPT !.offered = None]
      /\ formAsked' = formAsked \ {q} /\ UNCHANGED <<formDocs, formPage, formPast, formDisturbed>>
  BY DEF Form!ReadFails, Form!Arrives
<1>2. /\ formForm' \in FormDraft /\ SaveKept /\ formForm'.offered = None
      /\ formForm'.type = formForm.type /\ formForm'.terms = formForm.terms
      /\ formForm'.client = formForm.client /\ formForm'.own = formForm.own
      /\ formForm'.linked = formForm.linked /\ formForm'.works = formForm.works
  BY <1>1 DEF FormInv, FormType, FormDraft, SaveKept
<1>3. FormType'
  BY <1>1, <1>2 DEF FormInv, FormType
<1>4. FormCreates' /\ FormBills' /\ FormSends'
  BY <1>1, <1>2, <1>3, FormDraftStep
<1>5. FormRefers'
  BY <1>1, <1>2 DEF FormInv, FormRefers, SaveKept, Form!Exists
<1>6. FormFollows'
  <2>1. Form!Ask("template", formForm'.type) \in formAsked => Form!Ask("template", formForm'.type) \in formAsked'
    BY <1>1, AskFacts
  <2>2. (\E r \in formAsked : r.what \in {"edit", "copy"}) => \E r \in formAsked' : r.what \in {"edit", "copy"}
    BY <1>1
  <2> QED BY <1>1, <1>2, <2>1, <2>2 DEF FormInv, FormFollows, Form!Ask
<1> QED BY <1>3, <1>4, <1>5, <1>6 DEF FormInv

\* The user's edits.
LEMMA FormEdited ==
  ASSUME FormInv, formForm' \in FormDraft, SaveKept,
         formForm'.type = formForm.type, formForm'.terms = formForm.terms,
         formForm'.works => formForm.works /\ formForm'.linked = formForm.linked,
         NEW asks \in SUBSET Form!Reads, \A q \in asks : q.what = "client", formAsked' = formAsked \cup asks,
         \/ formForm'.client = formForm.client /\ formForm'.offered = formForm.offered
         \/ formForm'.offered = None
         \/ Form!Ask("client", formForm'.client) \in asks,
         Form!Moving(TRUE), UNCHANGED <<formDocs, formPage, formDisturbed>>, ~formPage.left
  PROVE  FormInv'
<1> PICK yes \in BOOLEAN : yes = TRUE
  OBVIOUS
<1>1. /\ formPast' \in [moves : 0..FormMoves, created : SUBSET Docs, lost : BOOLEAN, touched : BOOLEAN]
      /\ formPast'.created = formPast.created /\ formPast'.lost = formPast.lost /\ formPast'.touched
  BY FormMoved
<1>2. FormType'
  BY <1>1 DEF FormInv, FormType
<1>3. FormCreates' /\ FormBills' /\ FormSends'
  BY <1>1, <1>2, FormDraftStep
<1>4. FormRefers'
  BY DEF FormInv, FormRefers, SaveKept, Form!Exists
<1>5. FormFollows'
  BY DEF FormInv, FormFollows, Form!Ask
<1> QED BY <1>2, <1>3, <1>4, <1>5 DEF FormInv

LEMMA FormEditsKeep ==
  ASSUME FormInv,
         (\E c \in Clients : Form!PickClient(c)) \/ Form!SwitchRecipient \/ Form!EditSections
            \/ Form!RemoveImported
  PROVE  FormInv'
<1>1. formForm \in FormDraft
  BY DEF FormInv, FormType
<1>2. ASSUME NEW c \in Clients, Form!PickClient(c) PROVE FormInv'
  <2>1. /\ formForm' = Form!WithClient(formForm, c, FALSE) /\ formAsked' = formAsked \cup Form!ClientAsks(c)
        /\ Form!Moving(TRUE) /\ UNCHANGED <<formDocs, formPage, formDisturbed>> /\ ~formPage.left
    BY <1>2 DEF Form!PickClient, Form!EditDraft, Form!Asking, Form!Editable, Form!OnPage
  <2>2. c \in Clients \cup {None}
    OBVIOUS
  <2>3. /\ formForm' \in FormDraft /\ SaveKept /\ formForm'.client = c /\ ~formForm'.works
        /\ formForm'.type = formForm.type /\ formForm'.terms = formForm.terms
    BY <1>1, <2>1, <2>2, ClientPicked, Zenon DEF SaveKept
  <2>4. /\ Form!ClientAsks(c) \in SUBSET Form!Reads /\ \A q \in Form!ClientAsks(c) : q.what = "client"
        /\ Form!Ask("client", c) \in Form!ClientAsks(c)
    BY ClientAsksFacts, AskFacts
  <2> QED BY <2>1, <2>3, <2>4, FormEdited
<1>3. CASE Form!SwitchRecipient
  <2> DEFINE c == IF formForm.client = Placeholder THEN None ELSE Placeholder
  <2>1. /\ formForm' = Form!WithClient(formForm, c, TRUE) /\ formAsked' = formAsked \cup Form!ClientAsks(c)
        /\ Form!Moving(TRUE) /\ UNCHANGED <<formDocs, formPage, formDisturbed>> /\ ~formPage.left
    BY <1>3 DEF Form!SwitchRecipient, Form!EditDraft, Form!Asking, Form!Editable, Form!OnPage
  <2>2. c = None \/ c \in Clients
    BY FormAssumption
  <2> HIDE DEF c
  <2>3. formForm' = [formForm EXCEPT !.client = c, !.offered = IF c = None THEN None ELSE formForm.offered]
    BY <2>1 DEF Form!WithClient
  <2>4. c \in Clients \cup {None}
        /\ (IF c = None THEN None ELSE formForm.offered) \in Clients \cup {None}
    BY <1>1, <2>2 DEF FormDraft
  <2>5. /\ formForm' \in FormDraft /\ formForm'.client = c /\ (c = None => formForm'.offered = None)
        /\ formForm'.type = formForm.type /\ formForm'.terms = formForm.terms
    BY ZenonT(40), <1>1, <2>3, <2>4 DEF FormDraft
  <2>6. SaveKept /\ formForm'.works = formForm.works /\ formForm'.linked = formForm.linked
    BY <1>1, <2>3 DEF FormDraft, SaveKept
  <2>7. CASE c = None
    <3>1. Form!ClientAsks(c) = {}
      BY <2>7 DEF Form!ClientAsks
    <3> QED BY <2>1, <2>5, <2>6, <2>7, <3>1, FormEdited
  <2>8. CASE c \in Clients
    <3>1. /\ Form!ClientAsks(c) \in SUBSET Form!Reads /\ \A q \in Form!ClientAsks(c) : q.what = "client"
          /\ Form!Ask("client", c) \in Form!ClientAsks(c)
      BY <2>8, ClientAsksFacts, AskFacts
    <3> QED BY <2>1, <2>5, <2>6, <3>1, FormEdited
  <2> QED BY <2>2, <2>7, <2>8
<1>4. CASE Form!EditSections
  <2>1. /\ formForm' = [formForm EXCEPT !.own = ~@] /\ formAsked' = formAsked \cup {}
        /\ Form!Moving(TRUE) /\ UNCHANGED <<formDocs, formPage, formDisturbed>> /\ ~formPage.left
    BY <1>4 DEF Form!EditSections, Form!EditDraft, Form!Asking, Form!Editable, Form!OnPage
  <2>2. formForm' \in FormDraft
    BY ZenonT(40), <1>1, <2>1 DEF FormDraft
  <2>3. SaveKept
    BY <1>1, <2>1 DEF FormDraft, SaveKept
  <2>4. /\ formForm'.type = formForm.type /\ formForm'.terms = formForm.terms
        /\ formForm'.client = formForm.client /\ formForm'.offered = formForm.offered
        /\ formForm'.linked = formForm.linked /\ formForm'.works = formForm.works
    BY ZenonT(40), <1>1, <2>1 DEF FormDraft
  <2>5. PICK asks \in SUBSET Form!Reads : asks = {}
    OBVIOUS
  <2>6. formAsked' = formAsked \cup asks /\ \A q \in asks : q.what = "client"
    BY <2>1, <2>5
  <2> HIDE <2>5
  <2> QED BY <2>1, <2>2, <2>3, <2>4, <2>6, FormEdited
<1>5. CASE Form!RemoveImported
  <2>1. /\ formForm' = [formForm EXCEPT !.works = FALSE] /\ formAsked' = formAsked \cup {}
        /\ Form!Moving(TRUE) /\ UNCHANGED <<formDocs, formPage, formDisturbed>> /\ ~formPage.left
    BY <1>5 DEF Form!RemoveImported, Form!EditDraft, Form!Asking, Form!Editable, Form!OnPage
  <2>2. /\ formForm' \in FormDraft /\ SaveKept /\ ~formForm'.works
        /\ formForm'.type = formForm.type /\ formForm'.terms = formForm.terms
        /\ formForm'.client = formForm.client /\ formForm'.offered = formForm.offered
    BY <1>1, <2>1 DEF FormDraft, SaveKept
  <2>3. PICK asks \in SUBSET Form!Reads : asks = {}
    OBVIOUS
  <2>4. formAsked' = formAsked \cup asks /\ \A q \in asks : q.what = "client"
    BY <2>1, <2>3
  <2> HIDE <2>3
  <2> QED BY <2>1, <2>2, <2>4, FormEdited
<1> QED BY <1>2, <1>3, <1>4, <1>5

\* The steps of the save.
LEMMA FormSubmitKeeps ==
  ASSUME FormInv, Form!Submit
  PROVE  FormInv'
<1> DEFINE f == formForm
           billed == f.type = "INVOICE" /\ f.linked
           header == [type |-> f.type, client |-> f.client, billed |-> billed]
           step == IF f.editing # None THEN "header" ELSE "create"
<1>1. /\ ~formPage.left /\ f.step = "edit" /\ f.client # None
      /\ formForm' = [f EXCEPT !.saved = FALSE, !.target = f.editing, !.step = step, !.header = header]
      /\ Form!Moving(FALSE) /\ UNCHANGED <<formDocs, formPage, formAsked, formDisturbed>>
  BY DEF Form!Submit, Form!Editable, Form!OnPage, Form!At
<1>2. f \in FormDraft
  BY DEF FormInv, FormType
<1>3. f.type \in Form!Types /\ f.client \in Clients /\ billed \in BOOLEAN
      /\ f.editing \in Docs \cup {None} /\ step \in Form!Steps
  BY <1>1, <1>2 DEF FormDraft, Form!Steps
<1>4. header \in FormHeader /\ header.type = f.type /\ header.client = f.client /\ header.billed = billed
      /\ header # None
  <2>1. header \in FormHeader /\ header.type = f.type /\ header.client = f.client /\ header.billed = billed
    BY <1>3 DEF FormHeader
  <2> QED BY <2>1, FormAssumption DEF FormHeader
<1> HIDE DEF header
<1>5. /\ formForm'.step = step /\ formForm'.header = header /\ formForm'.target = f.editing
      /\ ~formForm'.saved /\ formForm'.editing = f.editing
  BY <1>1, <1>2 DEF FormDraft
<1>6. DraftKept
  BY <1>1, <1>2 DEF FormDraft, DraftKept
<1>7. formForm' \in FormDraft
  <2> DEFINE a == [f EXCEPT !.saved = FALSE]
             b == [a EXCEPT !.target = f.editing]
             c == [b EXCEPT !.step = step]
  <2>1. a \in FormDraft BY <1>2 DEF FormDraft
  <2> HIDE DEF a
  <2>2. b \in FormDraft BY <1>3, <2>1 DEF FormDraft
  <2> HIDE DEF b
  <2>3. c \in FormDraft BY <1>3, <2>2 DEF FormDraft
  <2> HIDE DEF c
  <2>4. [c EXCEPT !.header = header] \in FormDraft BY <1>4, <2>3 DEF FormDraft
  <2>5. formForm' = [c EXCEPT !.header = header] BY <1>1 DEF a, b, c
  <2> QED BY <2>4, <2>5
<1>8. /\ formPast' \in [moves : 0..FormMoves, created : SUBSET Docs, lost : BOOLEAN, touched : BOOLEAN]
      /\ formPast'.created = formPast.created /\ formPast'.lost = formPast.lost
  <2> PICK no \in BOOLEAN : no = FALSE
    OBVIOUS
  <2> QED BY <1>1, FormMoved
<1>9. FormType'
  BY <1>1, <1>7, <1>8 DEF FormInv, FormType
<1>10. /\ FormFollows' /\ Form!Exists(formPage.route)'
       /\ \A q \in formAsked' : q.what \in {"edit", "copy"} => formDocs'[q.arg] # None
       /\ \A q \in formAsked' : q.what = "edit" => formPage'.route.doc # None
       /\ formPage'.load # "ready" =>
             formForm'.terms = None /\ ~formForm'.works /\ \A q \in formAsked' : q.what = "client"
  BY <1>1, <1>6, <1>9, FormSaveStep DEF DocsKept
<1>11. FormRefers'
  BY <1>1, <1>4, <1>5, <1>10 DEF FormInv, FormRefers, ContentSteps
<1>12. FormCreates'
  BY <1>1, <1>5, <1>8 DEF FormInv, FormCreates
<1>13. FormBills'
  <2>1. ~formDisturbed /\ f.works => MayHold(header)
    BY <1>4 DEF FormInv, FormFollows, MayHold
  <2>2. formForm'.works = f.works
    BY <1>6 DEF DraftKept
  <2> QED BY <1>1, <1>5, <2>1, <2>2 DEF FormInv, FormBills, ContentSteps, MayHold
<1>14. FormSends'
  BY <1>4, <1>5, <1>6 DEF FormSends, DraftKept, ContentSteps
<1> QED BY <1>9, <1>10, <1>11, <1>12, <1>13, <1>14 DEF FormInv

\* What the requests of a save do on the server.
LEMMA FormNextId ==
  ASSUME FormInv, Form!NextId \in Docs
  PROVE  formDocs[Form!NextId] = None
<1> DEFINE set == {x \in Docs : formDocs[x] = None}
<1>1. None \notin Docs /\ set \subseteq Nat
  BY FormAssumption
<1>2. CASE set = {}
  <2>1. \A x \in Docs : formDocs[x] # None
    BY <1>2
  <2>2. Form!NextId = None
    BY <2>1 DEF Form!NextId
  <2> QED BY <1>1, <2>2
<1>3. CASE set # {}
  <2>1. PICK n \in set : \A y \in set : <<y, n>> \notin OpToRel(<, Nat)
    BY <1>1, <1>3, WFMin, NatLessThanWellFounded, Zenon
  <2>2. \A y \in set : ~ (y < n)
    BY <1>1, <2>1, Zenon DEF OpToRel
  <2>3. \A y \in set : n <= y
    BY <1>1, <2>2
  <2>4. n \in Docs /\ formDocs[n] = None /\ \A x \in Docs : formDocs[x] = None => n <= x
    BY <2>3
  <2> QED BY <2>4 DEF Form!NextId
<1> QED BY <1>2, <1>3

LEMMA FormHeaderWritten ==
  ASSUME FormInv, formForm.step = "header", formDocs' = Form!WithHeader
  PROVE  /\ formDocs' \in [Docs -> Form!Doc \cup {None}] /\ DocsKept
         /\ \A d \in Docs : /\ formDocs'[d] # None <=> formDocs[d] # None
                            /\ formDocs[d] # None => formDocs'[d].works = formDocs[d].works
         /\ formDocs'[formForm.target].client = formForm.header.client
<1> DEFINE t == formForm.target
           x == formDocs[t]
           c == formForm.header.client
           y == [x EXCEPT !.client = c]
<1>1. t \in Docs /\ x \in Form!Doc /\ c \in Clients
  BY DEF FormInv, FormType, FormDraft, FormRefers, FormHeader
<1>2. y \in Form!Doc /\ y.type = x.type /\ y.billed = x.billed /\ y.works = x.works /\ y.client = c
  BY <1>1 DEF Form!Doc
<1>3. formDocs' = [formDocs EXCEPT ![t] = y]
  BY DEF Form!WithHeader
<1>4. y # None /\ x # None
  BY <1>1, <1>2, FormAssumption
<1>5. formDocs \in [Docs -> Form!Doc \cup {None}]
  BY DEF FormInv, FormType
<1> HIDE DEF t, y
<1>6. /\ formDocs' \in [Docs -> Form!Doc \cup {None}] /\ formDocs'[t] = y
      /\ \A d \in Docs : d # t => formDocs'[d] = formDocs[d]
  BY <1>1, <1>2, <1>3, <1>5
<1>7. \A d \in Docs : /\ formDocs'[d] # None <=> formDocs[d] # None
                      /\ formDocs[d] # None => /\ formDocs'[d].works = formDocs[d].works
                                               /\ formDocs'[d].type = formDocs[d].type
                                               /\ formDocs'[d].billed = formDocs[d].billed
  BY <1>2, <1>4, <1>6
<1> QED BY <1>2, <1>6, <1>7 DEF DocsKept, t

LEMMA FormContentWritten ==
  ASSUME FormInv, formForm.step \in ContentSteps, formDocs' = Form!WithContent
  PROVE  /\ formDocs' \in [Docs -> Form!Doc \cup {None}] /\ DocsKept
         /\ \A d \in Docs : /\ formDocs'[d] # None <=> formDocs[d] # None
                            /\ ~formDisturbed /\ formDocs'[d] # None /\ formDocs'[d].works
                                  => MayHold(formDocs'[d])
         /\ formDocs'[formForm.target].client = formDocs[formForm.target].client
         /\ formDocs'[formForm.target].own = formForm.sent.own
         /\ formDocs'[formForm.target].works = formForm.sent.works
<1> DEFINE t == formForm.target
           x == formDocs[t]
           s == formForm.sent
           a == [x EXCEPT !.own = s.own]
           y == [a EXCEPT !.works = s.works]
<1>1. t \in Docs /\ x \in Form!Doc /\ s \in [own : BOOLEAN, works : BOOLEAN]
  BY DEF FormInv, FormType, FormDraft, FormRefers
<1>2. y \in Form!Doc /\ y.type = x.type /\ y.billed = x.billed /\ y.client = x.client
      /\ y.own = s.own /\ y.works = s.works
  <2>1. a \in Form!Doc /\ a.type = x.type /\ a.billed = x.billed /\ a.client = x.client /\ a.own = s.own
    BY <1>1 DEF Form!Doc
  <2> HIDE DEF a
  <2> QED BY <1>1, <2>1 DEF Form!Doc
<1>3. formDocs' = [formDocs EXCEPT ![t] = y]
  BY DEF Form!WithContent
<1>4. y # None /\ x # None
  BY <1>1, <1>2, FormAssumption
<1>5. formDocs \in [Docs -> Form!Doc \cup {None}]
  BY DEF FormInv, FormType
<1>6. ~formDisturbed /\ s.works => MayHold(x)
  BY DEF FormInv, FormBills
<1>7. \A d \in Docs : ~formDisturbed /\ formDocs[d] # None /\ formDocs[d].works => MayHold(formDocs[d])
  BY DEF FormInv, FormBills
<1> HIDE DEF t, y
<1>8. /\ formDocs' \in [Docs -> Form!Doc \cup {None}] /\ formDocs'[t] = y
      /\ \A d \in Docs : d # t => formDocs'[d] = formDocs[d]
  BY <1>1, <1>2, <1>3, <1>5
<1>9. \A d \in Docs : /\ formDocs'[d] # None <=> formDocs[d] # None
                      /\ formDocs[d] # None => /\ formDocs'[d].type = formDocs[d].type
                                               /\ formDocs'[d].billed = formDocs[d].billed
  BY <1>2, <1>4, <1>8
<1>10. ~formDisturbed /\ y.works => MayHold(y)
  BY <1>2, <1>6 DEF MayHold
<1>11. \A d \in Docs : ~formDisturbed /\ formDocs'[d] # None /\ formDocs'[d].works => MayHold(formDocs'[d])
  BY <1>7, <1>8, <1>10
<1> QED BY <1>2, <1>8, <1>9, <1>11 DEF DocsKept, t

LEMMA FormInserted ==
  ASSUME FormInv, NEW d \in Docs, Form!Insert(d)
  PROVE  /\ formDocs[d] = None /\ formForm.step = "create" /\ formForm.header \in FormHeader
         /\ formDocs' \in [Docs -> Form!Doc \cup {None}] /\ DocsKept
         /\ \A e \in Docs : e # d => formDocs'[e] = formDocs[e]
         /\ formDocs'[d] # None /\ ~formDocs'[d].works /\ formDocs'[d].client = formForm.header.client
         /\ formDocs'[d].type = formForm.header.type /\ formDocs'[d].billed = formForm.header.billed
<1>1. d = Form!NextId /\ formForm.step = "create" /\ formDocs' = [formDocs EXCEPT ![d] = Form!NewDoc]
  BY DEF Form!Insert, Form!At
<1>2. formDocs[d] = None
  BY <1>1, FormNextId
<1>3. formForm.header \in FormHeader
  BY <1>1 DEF FormInv, FormType, FormDraft, FormRefers
<1>4. /\ Form!NewDoc \in Form!Doc /\ ~Form!NewDoc.works /\ Form!NewDoc.client = formForm.header.client
      /\ Form!NewDoc.type = formForm.header.type /\ Form!NewDoc.billed = formForm.header.billed
  BY <1>3 DEF Form!NewDoc, Form!Doc, FormHeader
<1>5. Form!NewDoc # None
  BY <1>4, FormAssumption
<1>6. formDocs \in [Docs -> Form!Doc \cup {None}]
  BY DEF FormInv, FormType
<1>7. /\ formDocs' \in [Docs -> Form!Doc \cup {None}] /\ formDocs'[d] = Form!NewDoc
      /\ \A e \in Docs : e # d => formDocs'[e] = formDocs[e]
  BY <1>1, <1>4, <1>6
<1>8. DocsKept
  BY <1>2, <1>7 DEF DocsKept
<1> QED BY <1>1, <1>2, <1>3, <1>4, <1>5, <1>7, <1>8

LEMMA StopFacts ==
  ASSUME NEW f \in FormDraft
  PROVE  LET g == Form!StopSaving(f)
         IN  /\ g \in FormDraft /\ g.step = "edit" /\ g.editing = f.editing
             /\ g.type = f.type /\ g.client = f.client /\ g.offered = f.offered /\ g.linked = f.linked
             /\ g.own = f.own /\ g.works = f.works /\ g.terms = f.terms
<1> DEFINE a == [f EXCEPT !.step = "edit"]
           b == [a EXCEPT !.target = None]
           c == [b EXCEPT !.header = None]
           g == [c EXCEPT !.sent = Form!NoContent]
           Same(x) == /\ x.editing = f.editing
                      /\ x.type = f.type /\ x.client = f.client /\ x.offered = f.offered
                      /\ x.linked = f.linked /\ x.own = f.own /\ x.works = f.works /\ x.terms = f.terms
<1>1. a \in FormDraft /\ a.step = "edit" BY DEF FormDraft, Form!Steps
<1>2. Same(a) BY DEF FormDraft
<1> HIDE DEF a
<1>3. b \in FormDraft /\ b.step = "edit" BY <1>1 DEF FormDraft
<1>4. Same(b) BY <1>1, <1>2 DEF FormDraft
<1> HIDE DEF b
<1>5. c \in FormDraft /\ c.step = "edit" BY <1>3 DEF FormDraft
<1>6. Same(c) BY <1>3, <1>4 DEF FormDraft
<1> HIDE DEF c
<1>7. g \in FormDraft /\ g.step = "edit"
  <2>1. Form!NoContent \in [own : BOOLEAN, works : BOOLEAN]
    BY DEF Form!NoContent
  <2> QED BY <1>5, <2>1 DEF FormDraft
<1>8. Same(g) BY <1>5, <1>6 DEF FormDraft
<1>9. Form!StopSaving(f) = g BY DEF Form!StopSaving, a, b, c
<1> QED BY <1>7, <1>8, <1>9

\* A save that stops, done or not.
LEMMA FormStopped ==
  ASSUME FormInv, formForm' \in FormDraft, DraftKept, formForm'.step = "edit",
         formForm'.editing = formForm.editing,
         formDocs' \in [Docs -> Form!Doc \cup {None}], DocsKept,
         \A d \in Docs : ~formDisturbed /\ formDocs'[d] # None /\ formDocs'[d].works
            => MayHold(formDocs'[d]),
         formAsked' = formAsked, formDisturbed' = formDisturbed,
         formPast' \in [moves : 0..FormMoves, created : SUBSET Docs, lost : BOOLEAN, touched : BOOLEAN],
         formPast'.lost \/ formPast' = formPast,
         \/ formPage' = formPage
         \/ /\ formPage' \in [route : Form!Routes, load : {"loading", "ready", "failed"}, left : BOOLEAN]
            /\ formPage'.load = formPage.load /\ formPage'.left
            /\ formPage'.route.doc \in Docs /\ formPage'.route.from = None
            /\ formDocs'[formPage'.route.doc] # None
  PROVE  FormInv'
<1>1. FormType'
  BY DEF FormInv, FormType
<1>2. /\ FormFollows' /\ Form!Exists(formPage.route)'
      /\ \A q \in formAsked' : q.what \in {"edit", "copy"} => formDocs'[q.arg] # None
      /\ \A q \in formAsked' : q.what = "edit" => formPage'.route.doc # None
      /\ formPage'.load # "ready" =>
            formForm'.terms = None /\ ~formForm'.works /\ \A q \in formAsked' : q.what = "client"
  BY <1>1, FormSaveStep
<1>3. formForm.editing \in Docs \cup {None}
  BY DEF FormInv, FormType, FormDraft
<1>4. formForm'.editing # None => formDocs'[formForm'.editing] # None
  BY <1>3 DEF FormInv, FormRefers, DocsKept
<1>5. FormRefers'
  BY <1>2, <1>4 DEF FormRefers, ContentSteps
<1>6. FormCreates'
  <2> SUFFICES ASSUME ~formPast'.lost PROVE FormCreates'
    BY DEF FormCreates
  <2>1. formPast' = formPast /\ (formPage.left => formPage'.left)
    OBVIOUS
  <2> QED BY <2>1 DEF FormInv, FormCreates
<1>7. FormBills'
  <2>1. ~formDisturbed /\ formForm'.works /\ formForm'.editing # None => MayHold(formDocs'[formForm'.editing])
    BY <1>3 DEF FormInv, FormBills, FormRefers, DraftKept, DocsKept, MayHold
  <2> QED BY <2>1 DEF FormBills, ContentSteps, MayHold
<1>8. FormSends'
  BY DEF FormSends
<1> QED BY <1>1, <1>2, <1>5, <1>6, <1>7, <1>8 DEF FormInv

LEMMA FormSaveHeaderKeeps ==
  ASSUME FormInv, Form!SaveHeader
  PROVE  FormInv'
<1> DEFINE a == [formForm EXCEPT !.step = "content"]
<1>1. /\ formForm.step = "header" /\ formDocs' = Form!WithHeader
      /\ formForm' = [formForm EXCEPT !.step = "content", !.sent = Form!Content(formForm)]
      /\ UNCHANGED <<formPage, formAsked, formPast, formDisturbed>>
  BY DEF Form!SaveHeader, Form!At, Form!SendContent
<1>2. /\ formDocs' \in [Docs -> Form!Doc \cup {None}] /\ DocsKept
      /\ \A d \in Docs : /\ formDocs'[d] # None <=> formDocs[d] # None
                         /\ formDocs[d] # None => formDocs'[d].works = formDocs[d].works
      /\ formDocs'[formForm.target].client = formForm.header.client
  BY <1>1, FormHeaderWritten
<1>3. formForm \in FormDraft
  BY DEF FormInv, FormType
<1>4. Form!Content(formForm) \in [own : BOOLEAN, works : BOOLEAN]
  BY <1>3 DEF FormDraft, Form!Content
<1>5. formForm' \in FormDraft
  <2>1. a \in FormDraft BY <1>3 DEF FormDraft, Form!Steps
  <2> HIDE DEF a
  <2>2. [a EXCEPT !.sent = Form!Content(formForm)] \in FormDraft BY <1>4, <2>1 DEF FormDraft
  <2> QED BY <1>1, <2>2 DEF a
<1>6. DraftKept
  BY <1>1, <1>3 DEF FormDraft, DraftKept
<1>7. /\ formForm'.step = "content" /\ formForm'.sent = Form!Content(formForm)
      /\ formForm'.header = formForm.header /\ formForm'.target = formForm.target
  BY <1>1, <1>3 DEF FormDraft
<1>8. formForm'.editing = formForm.editing /\ formForm'.saved = formForm.saved
  BY <1>1, <1>3 DEF FormDraft
<1>9. FormType'
  BY <1>1, <1>2, <1>5 DEF FormInv, FormType
<1>10. /\ FormFollows' /\ Form!Exists(formPage.route)'
       /\ \A q \in formAsked' : q.what \in {"edit", "copy"} => formDocs'[q.arg] # None
       /\ \A q \in formAsked' : q.what = "edit" => formPage'.route.doc # None
       /\ formPage'.load # "ready" =>
             formForm'.terms = None /\ ~formForm'.works /\ \A q \in formAsked' : q.what = "client"
  BY <1>1, <1>2, <1>6, <1>9, FormSaveStep
<1>11. /\ formForm.editing \in Docs \cup {None} /\ formForm.target \in Docs
       /\ formDocs[formForm.target] # None
  BY <1>1, <1>3 DEF FormInv, FormRefers, FormDraft
<1>12. FormRefers'
  BY <1>1, <1>2, <1>7, <1>8, <1>10, <1>11 DEF FormInv, FormRefers, ContentSteps
<1>13. FormCreates'
  BY <1>1, <1>7, <1>8 DEF FormInv, FormCreates
<1>14. formForm.works = formForm'.works /\ (formForm'.sent.works <=> formForm.works)
  BY <1>6, <1>7 DEF DraftKept, Form!Content
<1>15. FormBills'
  <2>1. \A d \in Docs : ~formDisturbed /\ formDocs'[d] # None /\ formDocs'[d].works => MayHold(formDocs'[d])
    BY <1>2 DEF FormInv, FormBills, DocsKept, MayHold
  <2>2. ~formDisturbed /\ formForm'.works /\ formForm'.editing # None => MayHold(formDocs'[formForm'.editing])
    BY <1>2, <1>8, <1>11, <1>14 DEF FormInv, FormBills, FormRefers, DocsKept, MayHold
  <2>3. ~formDisturbed /\ formForm.works => MayHold(formDocs'[formForm.target])
    BY <1>1, <1>2, <1>11 DEF FormInv, FormBills, DocsKept, MayHold
  <2> QED BY <1>1, <1>7, <1>14, <2>1, <2>2, <2>3 DEF FormBills, ContentSteps, MayHold
<1>16. FormSends'
  BY <1>1, <1>2, <1>6, <1>7 DEF FormInv, FormSends, DraftKept, ContentSteps, Form!Content
<1> QED BY <1>9, <1>10, <1>12, <1>13, <1>15, <1>16 DEF FormInv

LEMMA FormCreateKeeps ==
  ASSUME FormInv, NEW d \in Docs, Form!Create(d)
  PROVE  FormInv'
<1> DEFINE a == [formForm EXCEPT !.editing = d]
           b == [a EXCEPT !.target = d]
           c == [b EXCEPT !.step = "newContent"]
<1>1. formForm \in FormDraft
  BY DEF FormInv, FormType
<1>2. /\ formDocs[d] = None /\ formForm.step = "create" /\ formForm.header \in FormHeader
      /\ formDocs' \in [Docs -> Form!Doc \cup {None}] /\ DocsKept
      /\ \A e \in Docs : e # d => formDocs'[e] = formDocs[e]
      /\ formDocs'[d] # None /\ ~formDocs'[d].works /\ formDocs'[d].client = formForm.header.client
      /\ formDocs'[d].type = formForm.header.type /\ formDocs'[d].billed = formForm.header.billed
  BY FormInserted DEF Form!Create
<1>3. /\ formForm' = Form!SendContent(b, "newContent")
      /\ formPast' = [formPast EXCEPT !.created = formPast.created \cup {d}]
      /\ UNCHANGED <<formPage, formAsked, formDisturbed>>
  BY DEF Form!Create
<1>4. b \in FormDraft /\ b.own = formForm.own /\ b.works = formForm.works
  <2>1. a \in FormDraft /\ a.own = formForm.own /\ a.works = formForm.works BY <1>1 DEF FormDraft
  <2> HIDE DEF a
  <2> QED BY <2>1 DEF FormDraft
<1>5. b.editing = d /\ b.target = d /\ b.header = formForm.header /\ b.saved = formForm.saved
      /\ b.type = formForm.type /\ b.client = formForm.client
  BY <1>1 DEF FormDraft
<1>6. b.offered = formForm.offered /\ b.linked = formForm.linked /\ b.terms = formForm.terms
  BY <1>1 DEF FormDraft
<1>7. Form!Content(b) \in [own : BOOLEAN, works : BOOLEAN] /\ Form!Content(b) = Form!Content(formForm)
  BY <1>4 DEF FormDraft, Form!Content
<1> HIDE DEF b
<1>8. c \in FormDraft /\ c.step = "newContent"
  BY <1>4 DEF FormDraft, Form!Steps
<1>9. formForm' = [c EXCEPT !.sent = Form!Content(b)]
  BY <1>3 DEF Form!SendContent
<1>10. c.editing = d /\ c.target = d /\ c.header = formForm.header /\ c.saved = formForm.saved
       /\ c.type = formForm.type /\ c.client = formForm.client
  BY <1>4, <1>5 DEF FormDraft
<1>11. c.offered = formForm.offered /\ c.linked = formForm.linked /\ c.terms = formForm.terms
       /\ c.own = formForm.own /\ c.works = formForm.works
  BY <1>4, <1>6 DEF FormDraft
<1> HIDE DEF c
<1>12. formForm' \in FormDraft /\ formForm'.step = "newContent" /\ formForm'.sent = Form!Content(formForm)
  BY <1>7, <1>8, <1>9 DEF FormDraft
<1>13. /\ formForm'.editing = d /\ formForm'.target = d /\ formForm'.header = formForm.header
       /\ formForm'.saved = formForm.saved
  BY <1>8, <1>9, <1>10 DEF FormDraft
<1>14. DraftKept
  BY <1>8, <1>9, <1>10, <1>11 DEF FormDraft, DraftKept
<1>15. /\ formPast' \in [moves : 0..FormMoves, created : SUBSET Docs, lost : BOOLEAN, touched : BOOLEAN]
       /\ formPast'.created = formPast.created \cup {d} /\ formPast'.lost = formPast.lost
       /\ formPast'.touched = formPast.touched
  BY <1>3 DEF FormInv, FormType
<1>16. FormType'
  BY <1>2, <1>3, <1>12, <1>15 DEF FormInv, FormType
<1>17. /\ FormFollows' /\ Form!Exists(formPage.route)'
       /\ \A q \in formAsked' : q.what \in {"edit", "copy"} => formDocs'[q.arg] # None
       /\ \A q \in formAsked' : q.what = "edit" => formPage'.route.doc # None
       /\ formPage'.load # "ready" =>
             formForm'.terms = None /\ ~formForm'.works /\ \A q \in formAsked' : q.what = "client"
  BY <1>2, <1>3, <1>14, <1>16, FormSaveStep
<1>18. FormRefers'
  <2>1. d # None /\ formForm'.header # None
    BY <1>2, <1>13, FormAssumption DEF FormHeader
  <2> QED BY <1>2, <1>3, <1>12, <1>13, <1>17, <2>1 DEF FormInv, FormRefers, ContentSteps
<1>19. FormCreates'
  <2>1. d # None
    BY FormAssumption
  <2> QED BY <1>2, <1>12, <1>13, <1>15, <2>1 DEF FormInv, FormCreates
<1>20. formForm.works = formForm'.works /\ (formForm'.sent.works <=> formForm.works)
  BY <1>12, <1>14 DEF DraftKept, Form!Content
<1>21. FormBills'
  <2>1. \A e \in Docs : ~formDisturbed /\ formDocs'[e] # None /\ formDocs'[e].works => MayHold(formDocs'[e])
    BY <1>2 DEF FormInv, FormBills, MayHold
  <2>2. ~formDisturbed /\ formForm.works => MayHold(formDocs'[d])
    BY <1>2 DEF FormInv, FormBills, MayHold
  <2> QED BY <1>3, <1>12, <1>13, <1>20, <2>1, <2>2 DEF FormBills, MayHold
<1>22. FormSends'
  BY <1>2, <1>12, <1>13, <1>14, <1>15 DEF FormInv, FormSends, DraftKept, ContentSteps, Form!Content
<1> QED BY <1>16, <1>17, <1>18, <1>19, <1>21, <1>22 DEF FormInv

\* The draft once it is saved: the same, and nothing under way.
LEMMA FormSavedFacts ==
  ASSUME NEW f \in FormDraft
  PROVE  LET g == Form!StopSaving([f EXCEPT !.saved = TRUE])
         IN  /\ g \in FormDraft /\ g.step = "edit" /\ g.editing = f.editing
             /\ g.type = f.type /\ g.client = f.client /\ g.offered = f.offered /\ g.linked = f.linked
             /\ g.own = f.own /\ g.works = f.works /\ g.terms = f.terms
<1> DEFINE a == [f EXCEPT !.saved = TRUE]
<1>1. a \in FormDraft /\ a.editing = f.editing BY DEF FormDraft
<1>2. a.type = f.type /\ a.client = f.client /\ a.offered = f.offered /\ a.linked = f.linked
      /\ a.own = f.own /\ a.works = f.works /\ a.terms = f.terms
  BY DEF FormDraft
<1> HIDE DEF a
<1>3. LET g == Form!StopSaving(a)
      IN  /\ g \in FormDraft /\ g.step = "edit" /\ g.editing = a.editing
          /\ g.type = a.type /\ g.client = a.client /\ g.offered = a.offered /\ g.linked = a.linked
          /\ g.own = a.own /\ g.works = a.works /\ g.terms = a.terms
  BY <1>1, StopFacts
<1>4. LET g == Form!StopSaving(a)
      IN  /\ g \in FormDraft /\ g.step = "edit" /\ g.editing = f.editing
          /\ g.type = f.type /\ g.client = f.client /\ g.offered = f.offered /\ g.linked = f.linked
          /\ g.own = f.own /\ g.works = f.works /\ g.terms = f.terms
  BY <1>1, <1>2, <1>3
<1> QED BY <1>4 DEF a

LEMMA FormContentKeeps ==
  ASSUME FormInv, Form!SaveContent \/ Form!SaveNewContent
  PROVE  FormInv'
<1>1. formForm \in FormDraft /\ formForm.step \in ContentSteps /\ formDocs' = Form!WithContent
      /\ UNCHANGED <<formAsked, formPast, formDisturbed>>
  BY DEF FormInv, FormType, Form!SaveContent, Form!SaveNewContent, Form!At, ContentSteps
<1>2. /\ formDocs' \in [Docs -> Form!Doc \cup {None}] /\ DocsKept
      /\ \A d \in Docs : /\ formDocs'[d] # None <=> formDocs[d] # None
                         /\ ~formDisturbed /\ formDocs'[d] # None /\ formDocs'[d].works
                               => MayHold(formDocs'[d])
  BY <1>1, FormContentWritten
<1>3. formForm.target \in Docs /\ formDocs'[formForm.target] # None
  BY <1>1, <1>2 DEF FormInv, FormRefers, FormDraft
<1>4. formPast \in [moves : 0..FormMoves, created : SUBSET Docs, lost : BOOLEAN, touched : BOOLEAN]
  BY DEF FormInv, FormType
<1>5. CASE Form!SaveContent
  <2>1. formForm' = Form!StopSaving([formForm EXCEPT !.saved = TRUE]) /\ formPage' = formPage
    BY <1>5 DEF Form!SaveContent
  <2>2. formForm' \in FormDraft /\ formForm'.step = "edit" /\ formForm'.editing = formForm.editing /\ DraftKept
    BY <1>1, <2>1, FormSavedFacts, Zenon DEF DraftKept
  <2> QED BY <1>1, <1>2, <1>4, <2>1, <2>2, FormStopped
<1>6. CASE Form!SaveNewContent
  <2> DEFINE r == Form!Edit(formForm.target)
  <2>1. formForm' = Form!StopSaving(formForm) /\ formPage' = [formPage EXCEPT !.route = r, !.left = TRUE]
    BY <1>6 DEF Form!SaveNewContent
  <2>2. formForm' \in FormDraft /\ formForm'.step = "edit" /\ formForm'.editing = formForm.editing /\ DraftKept
    BY <1>1, <2>1, StopFacts, Zenon DEF DraftKept
  <2>3. r \in Form!Routes /\ r.doc = formForm.target /\ r.from = None
    BY <1>3, EditRoute
  <2> HIDE DEF r
  <2>4. /\ formPage' \in [route : Form!Routes, load : {"loading", "ready", "failed"}, left : BOOLEAN]
        /\ formPage'.load = formPage.load /\ formPage'.left /\ formPage'.route = r
    BY <2>1, <2>3 DEF FormInv, FormType
  <2> QED BY <1>1, <1>2, <1>3, <1>4, <2>2, <2>3, <2>4, FormStopped
<1> QED BY <1>5, <1>6

LEMMA FormSaveFailsKeeps ==
  ASSUME FormInv, Form!SaveFails
  PROVE  FormInv'
<1>1. formForm \in FormDraft /\ formForm' = Form!StopSaving(formForm)
      /\ UNCHANGED <<formPage, formAsked, formDisturbed>>
  BY DEF FormInv, FormType, Form!SaveFails
<1>2. formForm' \in FormDraft /\ formForm'.step = "edit" /\ formForm'.editing = formForm.editing /\ DraftKept
  BY <1>1, StopFacts, Zenon DEF DraftKept
<1>3. /\ formDocs \in [Docs -> Form!Doc \cup {None}]
      /\ formPast \in [moves : 0..FormMoves, created : SUBSET Docs, lost : BOOLEAN, touched : BOOLEAN]
      /\ \A d \in Docs : ~formDisturbed /\ formDocs[d] # None /\ formDocs[d].works => MayHold(formDocs[d])
  BY DEF FormInv, FormType, FormBills
<1>4. CASE formDocs' = formDocs /\ formPast' = formPast
  <2>1. DocsKept
    BY <1>4 DEF DocsKept
  <2>2. formDocs' \in [Docs -> Form!Doc \cup {None}]
        /\ \A d \in Docs : ~formDisturbed /\ formDocs'[d] # None /\ formDocs'[d].works => MayHold(formDocs'[d])
    BY <1>3, <1>4
  <2> QED BY <1>1, <1>2, <1>3, <1>4, <2>1, <2>2, FormStopped
<1>5. CASE formForm.step = "header" /\ formDocs' = Form!WithHeader /\ formPast' = formPast
  <2>1. /\ formDocs' \in [Docs -> Form!Doc \cup {None}] /\ DocsKept
        /\ \A d \in Docs : /\ formDocs'[d] # None <=> formDocs[d] # None
                           /\ formDocs[d] # None => formDocs'[d].works = formDocs[d].works
    BY <1>5, FormHeaderWritten
  <2>2. \A d \in Docs : ~formDisturbed /\ formDocs'[d] # None /\ formDocs'[d].works => MayHold(formDocs'[d])
    BY <1>3, <2>1 DEF DocsKept, MayHold
  <2> QED BY <1>1, <1>2, <1>3, <1>5, <2>1, <2>2, FormStopped
<1>6. CASE formForm.step \in ContentSteps /\ formDocs' = Form!WithContent /\ formPast' = formPast
  <2>1. /\ formDocs' \in [Docs -> Form!Doc \cup {None}] /\ DocsKept
        /\ \A d \in Docs : ~formDisturbed /\ formDocs'[d] # None /\ formDocs'[d].works => MayHold(formDocs'[d])
    BY <1>6, FormContentWritten
  <2> QED BY <1>1, <1>2, <1>3, <1>6, <2>1, FormStopped
<1>7. ASSUME NEW d \in Docs, Form!Insert(d),
             formPast' = [formPast EXCEPT !.created = formPast.created \cup {d}, !.lost = TRUE]
      PROVE  FormInv'
  <2>1. /\ formDocs' \in [Docs -> Form!Doc \cup {None}] /\ DocsKept
        /\ \A e \in Docs : e # d => formDocs'[e] = formDocs[e]
        /\ ~formDocs'[d].works
    BY <1>7, FormInserted
  <2>2. \A e \in Docs : ~formDisturbed /\ formDocs'[e] # None /\ formDocs'[e].works => MayHold(formDocs'[e])
    BY <1>3, <2>1
  <2>3. /\ formPast' \in [moves : 0..FormMoves, created : SUBSET Docs, lost : BOOLEAN, touched : BOOLEAN]
        /\ formPast'.lost
    BY <1>3, <1>7
  <2> QED BY <1>1, <1>2, <2>1, <2>2, <2>3, FormStopped
<1>8. \/ formDocs' = formDocs /\ formPast' = formPast
      \/ formForm.step = "header" /\ formDocs' = Form!WithHeader /\ formPast' = formPast
      \/ formForm.step \in ContentSteps /\ formDocs' = Form!WithContent /\ formPast' = formPast
      \/ \E d \in Docs : /\ Form!Insert(d)
                         /\ formPast' = [formPast EXCEPT !.created = formPast.created \cup {d}, !.lost = TRUE]
  BY DEF Form!SaveFails, Form!At, ContentSteps
<1> QED BY <1>4, <1>5, <1>6, <1>7, <1>8

LEMMA FormStep ==
  ASSUME FormInv, [Form!Next]_formVars
  PROVE  FormInv'
<1>1. CASE UNCHANGED formVars
  BY <1>1, FormIdle DEF formVars
<1>2. CASE Form!Next
  <2>1. CASE Form!Saving
    BY <2>1, FormSaveHeaderKeeps, FormCreateKeeps, FormContentKeeps, FormSaveFailsKeeps DEF Form!Saving
  <2>2. CASE \/ \E r \in Form!Routes : Form!ChangeParams(r)
             \/ Form!LoadFails \/ Form!Leave \/ Form!Branch
             \/ \E q \in Form!Reads : Form!Receive(q) \/ Form!ReadFails(q)
    BY <2>2, FormChangeParamsKeeps, FormLoadFailsKeeps, FormLeaveKeeps, FormBranchKeeps,
       FormReceiveKeeps, FormReadFailsKeeps
  <2>3. CASE \/ \E c \in Clients : Form!PickClient(c)
             \/ Form!SwitchRecipient \/ Form!EditSections \/ Form!RemoveImported \/ Form!Submit
    BY <2>3, FormEditsKeep, FormSubmitKeeps
  <2> QED BY <1>2, <2>1, <2>2, <2>3 DEF Form!Next
<1> QED BY <1>1, <1>2

LEMMA FormInvImplies == FormInv => OneDocumentPerDraft /\ DraftsHoldTogether
<1> SUFFICES ASSUME FormInv PROVE OneDocumentPerDraft /\ DraftsHoldTogether
  OBVIOUS
<1>1. OneDocumentPerDraft
  <2> SUFFICES ASSUME ~formPast.lost PROVE Cardinality(formPast.created) <= 1
    <3>1. \A set : Form!Cardinality(set) = Cardinality(set)
      BY DEF Form!Cardinality, Cardinality
    <3> QED BY <3>1 DEF OneDocumentPerDraft, Form!OneDocumentPerDraft
  <2>1. formPast.created = {} \/ \E d \in Docs : formPast.created = {d}
    BY DEF FormInv, FormCreates
  <2>2. CASE formPast.created = {}
    BY <2>2, FS_EmptySet
  <2>3. ASSUME NEW d \in Docs, formPast.created = {d} PROVE Cardinality(formPast.created) <= 1
    <3>1. Cardinality({d}) = 1
      BY FS_Singleton
    <3> QED BY <2>3, <3>1
  <2> QED BY <2>1, <2>2, <2>3
<1>2. Form!TypeOK
  BY DEF FormInv, FormType, FormDraft, Form!TypeOK
<1>3. Form!DraftIsItsOwn
  BY DEF FormInv, FormFollows, Form!DraftIsItsOwn
<1>4. Form!ImportedWorkIsBilled
  BY DEF FormInv, FormBills, MayHold, Form!ImportedWorkIsBilled
<1> QED BY <1>1, <1>2, <1>3, <1>4 DEF DraftsHoldTogether

\* However its save is retried, one draft makes one document, unless the answer to
\* the creation itself was lost.
THEOREM OneDraftOneDocument == ScreensSpec => []OneDocumentPerDraft
<1>1. ScreensInit => FormInv
  BY FormInitInv DEF ScreensInit
<1>2. FormInv /\ [ScreensNext]_screensVars => FormInv'
  BY StepOfEach, FormStep
<1> QED BY <1>1, <1>2, FormInvImplies, PTL DEF ScreensSpec

\* A draft ends with the addresses, the terms and the imported work that go with it,
\* and an invoice with the work of a chantier bills it, as long as no answer came
\* after the draft had moved on from what it was asked about.
THEOREM DraftsAreTheirOwn == ScreensSpec => []DraftsHoldTogether
<1>1. ScreensInit => FormInv
  BY FormInitInv DEF ScreensInit
<1>2. FormInv /\ [ScreensNext]_screensVars => FormInv'
  BY StepOfEach, FormStep
<1> QED BY <1>1, <1>2, FormInvImplies, PTL DEF ScreensSpec

\* What a save has left on the server when it ends well.
FormSavesWhole ==
    ~Form!At("edit") /\ formForm'.step = "edit"
      /\ (formForm'.saved \/ formPage'.route # formPage.route) /\ ~formPast.touched
        => Form!Shows(formDocs'[formForm.target], formForm)

\* Nothing but the answer to the content ends a save well.
LEMMA FormEndsWell ==
  ASSUME FormInv, [Form!Next]_formVars,
         formForm.step # "edit", formForm'.step = "edit",
         formForm'.saved \/ formPage'.route # formPage.route
  PROVE  formForm.step \in ContentSteps /\ formDocs' = Form!WithContent
<1>1. formForm \in FormDraft /\ ~formForm.saved
  BY DEF FormInv, FormType, FormRefers
<1>2. ~UNCHANGED formVars
  BY DEF formVars
<1>3. CASE Form!SaveContent \/ Form!SaveNewContent
  BY <1>3 DEF Form!SaveContent, Form!SaveNewContent, Form!At, ContentSteps
<1>4. CASE Form!SaveHeader
  BY <1>1, <1>4 DEF Form!SaveHeader, Form!SendContent, FormDraft
<1>5. ASSUME NEW d \in Docs, Form!Create(d) PROVE FALSE
  <2>1. formForm' = [[formForm EXCEPT !.editing = d, !.target = d] EXCEPT
                        !.step = "newContent", !.sent = Form!Content([formForm EXCEPT !.editing = d, !.target = d])]
    BY <1>5 DEF Form!Create, Form!SendContent
  <2>2. formForm'.step = "newContent"
    BY <1>1, <2>1 DEF FormDraft
  <2> QED BY <2>2
<1>6. CASE Form!SaveFails
  <2>1. formForm' = Form!StopSaving(formForm) /\ formPage' = formPage
    BY <1>6 DEF Form!SaveFails
  <2>2. formForm'.saved = formForm.saved
    BY <1>1, <2>1 DEF Form!StopSaving, FormDraft
  <2> QED BY <1>1, <2>1, <2>2
<1>7. CASE Form!LoadFails \/ Form!Leave
  BY <1>1, <1>7 DEF Form!LoadFails, Form!Leave, Form!At, FormInv, FormType
<1>8. CASE Form!Branch \/ \E r \in Form!Routes : Form!ChangeParams(r)
  <2>1. PICK a, b : \/ formForm' = [formForm EXCEPT !.editing = a]
                    \/ formForm' = [formForm EXCEPT !.type = b]
    BY <1>8 DEF Form!Branch, Form!ChangeParams
  <2>2. formForm'.step = formForm.step
    BY <1>1, <2>1 DEF FormDraft
  <2> QED BY <2>2
<1>9. ASSUME NEW q \in Form!Reads, Form!Receive(q) PROVE FALSE
  <2>1. q \in formAsked /\ formForm' = Form!Answered(q)
    BY <1>9 DEF Form!Receive, Form!Arrives
  <2>2. formForm'.step = formForm.step
    BY <2>1, AnswerFacts
  <2> QED BY <2>2
<1>10. ASSUME NEW q \in Form!Reads, Form!ReadFails(q) PROVE FALSE
  BY <1>1, <1>10 DEF Form!ReadFails, FormDraft
<1>11. ASSUME NEW c \in Clients, Form!PickClient(c) PROVE FALSE
  <2>1. formForm' = Form!WithClient(formForm, c, FALSE) /\ c \in Clients \cup {None}
    BY <1>11 DEF Form!PickClient, Form!EditDraft
  <2>2. formForm'.step = formForm.step
    BY <1>1, <2>1, ClientPicked, Zenon
  <2> QED BY <2>2
<1>12. CASE Form!SwitchRecipient
  <2> DEFINE c == IF formForm.client = Placeholder THEN None ELSE Placeholder
  <2>1. formForm' = Form!WithClient(formForm, c, TRUE)
    BY <1>12 DEF Form!SwitchRecipient, Form!EditDraft
  <2> HIDE DEF c
  <2>2. formForm'.step = formForm.step
    BY <1>1, <2>1 DEF Form!WithClient, FormDraft
  <2> QED BY <2>2
<1>13. CASE Form!EditSections \/ Form!RemoveImported
  BY <1>1, <1>13 DEF Form!EditSections, Form!RemoveImported, Form!EditDraft, FormDraft
<1>14. CASE Form!Submit
  BY <1>14 DEF Form!Submit, Form!At
<1> QED BY <1>2, <1>3, <1>4, <1>5, <1>6, <1>7, <1>8, <1>9, <1>10, <1>11, <1>12, <1>13, <1>14
        DEF Form!Next, Form!Saving

LEMMA FormShowsWhatIsSaved ==
  ASSUME FormInv, [Form!Next]_formVars
  PROVE  FormSavesWhole
<1> SUFFICES ASSUME formForm.step # "edit", formForm'.step = "edit",
                    formForm'.saved \/ formPage'.route # formPage.route, ~formPast.touched
             PROVE  Form!Shows(formDocs'[formForm.target], formForm)
  BY DEF FormSavesWhole, Form!At
<1>1. formForm.step \in ContentSteps /\ formDocs' = Form!WithContent
  BY FormEndsWell
<1>2. /\ formDocs'[formForm.target].client = formDocs[formForm.target].client
      /\ formDocs'[formForm.target].own = formForm.sent.own
      /\ formDocs'[formForm.target].works = formForm.sent.works
  BY <1>1, FormContentWritten
<1>3. /\ formDocs[formForm.target].client = formForm.client
      /\ formForm.sent = Form!Content(formForm)
  BY <1>1 DEF FormInv, FormSends
<1>4. formForm.sent.own = formForm.own /\ formForm.sent.works = formForm.works
  BY <1>3 DEF Form!Content
<1> QED BY <1>2, <1>3, <1>4 DEF Form!Shows, Form!Content

\* A save that ends well leaves on the server what the page shows, its header and
\* its content, when nothing was edited or received in between.
THEOREM SavesShowAll == ScreensSpec => SavesAreWhole
<1>1. ScreensInit => FormInv
  BY FormInitInv DEF ScreensInit
<1>2. FormInv /\ [ScreensNext]_screensVars => FormInv'
  BY StepOfEach, FormStep
<1>3. FormInv /\ [ScreensNext]_screensVars => [FormSavesWhole]_formVars
  BY StepOfEach, FormShowsWhatIsSaved
<1>4. [][FormSavesWhole]_formVars => SavesAreWhole
  BY PTL DEF SavesAreWhole, Form!SavesWhatItShows, FormSavesWhole, formVars, Form!vars
<1> QED BY <1>1, <1>2, <1>3, <1>4, PTL DEF ScreensSpec

-----------------------------------------------------------------------------
(***************************************************************************)
(* The calendar.                                                           *)
(***************************************************************************)
AgendaDialogs == [item : Agenda!Items, draft : Agenda!Item, copy : Agenda!Item \cup {None}]
AgendaItem(x) == x \in Agenda!Item /\ x.at # None

\* Notes have a time; a write is of a kind its item has, and a section that is
\* moved is known.
AgendaType ==
    /\ agendaServer \in [Agenda!Items -> Agenda!Item \cup {None}]
    /\ agendaKnown \in [Agenda!Items -> Agenda!Item \cup {None}]
    /\ agendaShown \in [Agenda!Items -> Agenda!Place \cup {None}]
    /\ agendaSidebar \subseteq Sections /\ agendaLoading \subseteq Agenda!Loads
    /\ agendaFound \in [Agenda!Loads -> Agenda!Timetable \cup {None}]
    /\ agendaDialog = None \/ agendaDialog \in AgendaDialogs
    /\ agendaRequests \subseteq Agenda!Request
    /\ agendaMoves \in 0..AgendaMoves /\ agendaTangled \subseteq Agenda!Items

AgendaKinds ==
    /\ \A s \in Sections : agendaServer[s] # None
    /\ \A n \in Notes : /\ agendaServer[n] # None => agendaServer[n].at # None
                        /\ agendaKnown[n] # None => agendaKnown[n].at # None
    /\ \A w \in Agenda!Loads \ {"sidebar"} : agendaFound[w] # None =>
         \A i \in Agenda!Items : agendaFound[w][i] # None => agendaFound[w][i].at # None
    /\ \A q \in agendaRequests :
         /\ q.kind \in {"schedule", "note"} => q.item \in Sections
         /\ q.kind \in {"save", "delete"} => q.item \in Notes
         /\ q.kind \in {"schedule", "move", "save"} => q.to.at # None
         /\ q.kind = "move" /\ q.item \in Sections => agendaKnown[q.item] # None
    /\ agendaDialog # None =>
         /\ agendaDialog.item \in Sections => agendaDialog.copy # None
         /\ agendaDialog.item \in Notes => agendaDialog.draft.at # None

\* What is saved is what is shown, or it has still to be loaded, as it is now.
LoadOf(i) == IF i \in Sections THEN "sections" ELSE "notes"
Settled(i) ==
    /\ agendaShown[i] = (IF agendaServer[i] = None THEN None ELSE agendaServer[i].at)
    /\ agendaShown[i] # None => agendaKnown[i] = agendaServer[i]
ToCome(i) ==
    /\ LoadOf(i) \in agendaLoading /\ agendaShown[i] = None
    /\ agendaFound[LoadOf(i)] = None \/ agendaFound[LoadOf(i)][i] = agendaServer[i]
Stands(i) == Settled(i) \/ ToCome(i)

\* An event that is being moved: as if it had been already.
Underway(q) ==
    /\ agendaShown[q.item] = q.to.at
    /\ agendaKnown[q.item] # None /\ agendaKnown[q.item] = agendaServer[q.item]
    /\ q.was = agendaServer[q.item].at /\ q.was # None
    /\ q.to.text = agendaKnown[q.item].text

\* One write of an item at a time, from what the page knew of it.
StandsAt(i) ==
    i \notin agendaTangled =>
        /\ \A q \in agendaRequests : q.item = i =>
             /\ \A r \in agendaRequests : r.item = i => r = q
             /\ IF q.kind = "move" THEN Underway(q) ELSE Stands(i)
             /\ q.kind = "schedule" => /\ agendaServer[i].at = None
                                       /\ q.to.text = agendaServer[i].text
             /\ q.kind = "note" => Settled(i) /\ q.to.at = agendaServer[i].at /\ q.to.at # None
        /\ ~Agenda!Busy(i) => Stands(i)
AgendaStands == \A i \in Agenda!Items : StandsAt(i)

\* Before the sidebar has come nothing is dropped: what it will show is what is not
\* scheduled.
AgendaSidebar ==
    /\ "sidebar" \in agendaLoading =>
          agendaSidebar = {} /\ \A q \in agendaRequests : q.kind # "schedule"
    /\ \A s \in Sections : s \notin agendaTangled =>
          IF "sidebar" \notin agendaLoading
          THEN s \in agendaSidebar <=> agendaServer[s].at = None
          ELSE agendaFound["sidebar"] # None =>
                  (agendaFound["sidebar"][s] # None <=> agendaServer[s].at = None)

AgendaOpen ==
    agendaDialog # None /\ agendaDialog.item \notin agendaTangled =>
        /\ ~Agenda!Busy(agendaDialog.item)
        /\ agendaDialog.copy = agendaKnown[agendaDialog.item]
        /\ \/ agendaShown[agendaDialog.item] # None /\ Settled(agendaDialog.item)
           \/ agendaDialog.item \in Notes /\ agendaServer[agendaDialog.item] = None

AgendaInv == AgendaType /\ AgendaKinds /\ AgendaStands /\ AgendaSidebar /\ AgendaOpen

LEMMA ItemsApart ==
  /\ \A i \in Agenda!Items : i \in Sections <=> i \notin Notes
  /\ \A s \in Sections : s \in Agenda!Items
  /\ \A n \in Notes : n \in Agenda!Items
  BY AgendaAssumption DEF Agenda!Items

\* An item a step does not touch.
LEMMA ItemUntouched ==
  ASSUME NEW i \in Agenda!Items, StandsAt(i),
         agendaServer'[i] = agendaServer[i], agendaKnown'[i] = agendaKnown[i],
         agendaShown'[i] = agendaShown[i], agendaLoading' = agendaLoading,
         agendaFound' = agendaFound,
         i \in agendaTangled => i \in agendaTangled',
         \A q : q.item = i => (q \in agendaRequests' <=> q \in agendaRequests)
  PROVE  StandsAt(i)'
<1> SUFFICES ASSUME i \notin agendaTangled' PROVE StandsAt(i)'
  BY DEF StandsAt
<1>1. Stands(i)' <=> Stands(i)
  BY DEF Stands, Settled, ToCome
<1>2. Settled(i)' <=> Settled(i)
  BY DEF Settled
<1>3. Agenda!Busy(i)' <=> Agenda!Busy(i)
  BY DEF Agenda!Busy
<1>4. \A q \in agendaRequests : q.item = i => (Underway(q)' <=> Underway(q))
  BY DEF Underway
<1> QED BY <1>1, <1>2, <1>3, <1>4 DEF StandsAt

LEMMA AgendaInitInv == Agenda!Init => AgendaInv
<1> SUFFICES ASSUME Agenda!Init PROVE AgendaInv
  OBVIOUS
<1>1. /\ agendaServer \in [Agenda!Items -> {Agenda!At(p) : p \in Agenda!Span \cup {None}} \cup {None}]
      /\ \A s \in Sections : agendaServer[s] # None
      /\ \A n \in Notes : agendaServer[n] # Agenda!At(None)
      /\ agendaKnown = [i \in Agenda!Items |-> None] /\ agendaShown = [i \in Agenda!Items |-> None]
      /\ agendaSidebar = {} /\ agendaLoading = Agenda!Loads
      /\ agendaFound = [what \in Agenda!Loads |-> None]
      /\ agendaDialog = None /\ agendaRequests = {} /\ agendaMoves = 0 /\ agendaTangled = {}
  BY DEF Agenda!Init
<1>2. \A p \in Agenda!Span \cup {None} : /\ Agenda!At(p) \in Agenda!Item /\ Agenda!At(p).at = p
  BY AgendaAssumption DEF Agenda!At, Agenda!Item, Agenda!Span, Agenda!FirstText
<1>3. AgendaType
  BY <1>1, <1>2, AgendaAssumption DEF AgendaType, Agenda!Timetable
<1>4. \A n \in Notes : agendaServer[n] # None => agendaServer[n].at # None
  <2> TAKE n \in Notes
  <2> HAVE agendaServer[n] # None
  <2>1. PICK p \in Agenda!Span \cup {None} : agendaServer[n] = Agenda!At(p)
    BY <1>1, ItemsApart
  <2>2. p # None
    BY <1>1, <2>1
  <2> QED BY <1>2, <2>1, <2>2
<1>5. AgendaKinds
  BY <1>1, <1>4, ItemsApart DEF AgendaKinds
<1>6. \A i \in Agenda!Items : Stands(i)
  BY <1>1 DEF Stands, ToCome, LoadOf, Agenda!Loads
<1>7. AgendaStands /\ AgendaSidebar /\ AgendaOpen
  BY <1>1, <1>6 DEF AgendaStands, StandsAt, AgendaSidebar, AgendaOpen, Agenda!Loads
<1> QED BY <1>3, <1>5, <1>7 DEF AgendaInv

LEMMA AgendaIdle ==
  ASSUME AgendaInv, UNCHANGED agendaVars
  PROVE  AgendaInv'
<1>1. AgendaType' /\ AgendaKinds'
  BY DEF AgendaInv, AgendaType, AgendaKinds, agendaVars
<1>2. AgendaStands'
  BY ItemUntouched DEF AgendaInv, AgendaStands, agendaVars
<1>3. AgendaSidebar' /\ AgendaOpen'
  BY DEF AgendaInv, AgendaSidebar, AgendaOpen, Settled, Agenda!Busy, agendaVars
<1> QED BY <1>1, <1>2, <1>3 DEF AgendaInv

\* The loads.
LEMMA FindsKeeps ==
  ASSUME AgendaInv, NEW what \in Agenda!Loads, Agenda!LoadFinds(what)
  PROVE  AgendaInv'
<1> DEFINE rows == [i \in Agenda!Items |-> IF i \in Agenda!Asked(what) THEN agendaServer[i] ELSE None]
<1>1. /\ agendaFound' = [agendaFound EXCEPT ![what] = rows]
      /\ UNCHANGED <<agendaServer, agendaKnown, agendaShown, agendaSidebar, agendaLoading,
                     agendaDialog, agendaRequests, agendaMoves, agendaTangled>>
      /\ agendaFound[what] = None
  BY DEF Agenda!LoadFinds
<1>2. rows \in Agenda!Timetable
  BY DEF AgendaInv, AgendaType, Agenda!Timetable
<1>3. \A i \in Agenda!Items : rows[i] = IF i \in Agenda!Asked(what) THEN agendaServer[i] ELSE None
  OBVIOUS
<1> HIDE DEF rows
<1>4. /\ agendaFound' \in [Agenda!Loads -> Agenda!Timetable \cup {None}] /\ agendaFound'[what] = rows
      /\ \A w \in Agenda!Loads : w # what => agendaFound'[w] = agendaFound[w]
  BY <1>1, <1>2 DEF AgendaInv, AgendaType
<1>5. AgendaType'
  BY <1>1, <1>4 DEF AgendaInv, AgendaType
<1>6. AgendaKinds'
  <2>1. ASSUME what # "sidebar", NEW i \in Agenda!Items, rows[i] # None PROVE rows[i].at # None
    <3>1. i \in Agenda!Asked(what) /\ rows[i] = agendaServer[i]
      BY <1>3, <2>1
    <3>2. i \in Agenda!Scheduled \/ i \in Agenda!Existing
      BY <2>1, <3>1 DEF Agenda!Asked, Agenda!Loads
    <3> QED BY <3>1, <3>2 DEF Agenda!Scheduled, Agenda!Existing, AgendaInv, AgendaKinds
  <2>2. \A w \in Agenda!Loads \ {"sidebar"} : agendaFound'[w] # None =>
           \A i \in Agenda!Items : agendaFound'[w][i] # None => agendaFound'[w][i].at # None
    BY <1>4, <2>1 DEF AgendaInv, AgendaKinds
  <2> QED BY <1>1, <2>2 DEF AgendaInv, AgendaKinds
<1>7. ASSUME NEW i \in Agenda!Items, Stands(i) PROVE Stands(i)'
  <2>1. CASE Settled(i)
    BY <1>1, <2>1 DEF Stands, Settled
  <2>2. CASE ToCome(i) /\ LoadOf(i) # what
    <3>1. LoadOf(i) \in Agenda!Loads
      BY DEF LoadOf, Agenda!Loads
    <3> QED BY <1>1, <1>4, <2>2, <3>1 DEF Stands, ToCome
  <2>3. CASE ToCome(i) /\ LoadOf(i) = what /\ ~Settled(i)
    <3>1. agendaShown[i] = None /\ agendaServer[i] # None /\ agendaServer[i].at # None
      BY <2>3 DEF ToCome, Settled
    <3>2. i \in Agenda!Asked(what)
      <4>1. CASE i \in Sections
        <5>1. what = "sections"
          BY <2>3, <4>1 DEF LoadOf
        <5> QED BY <3>1, <4>1, <5>1 DEF Agenda!Asked, Agenda!Scheduled
      <4>2. CASE i \in Notes
        <5>1. what = "notes"
          BY <2>3, <4>2, ItemsApart DEF LoadOf
        <5> QED BY <3>1, <4>2, <5>1 DEF Agenda!Asked, Agenda!Existing
      <4> QED BY <4>1, <4>2, ItemsApart
    <3>3. agendaFound'[what][i] = agendaServer[i]
      BY <1>3, <1>4, <3>2
    <3> QED BY <1>1, <2>3, <3>3 DEF Stands, ToCome
  <2> QED BY <1>7, <2>1, <2>2, <2>3 DEF Stands
<1>8. ASSUME NEW i \in Agenda!Items PROVE StandsAt(i)'
  <2> SUFFICES ASSUME i \notin agendaTangled PROVE StandsAt(i)'
    BY <1>1 DEF StandsAt
  <2>1. Settled(i)' <=> Settled(i)
    BY <1>1 DEF Settled
  <2>2. Agenda!Busy(i)' <=> Agenda!Busy(i)
    BY <1>1 DEF Agenda!Busy
  <2>3. \A q \in agendaRequests : Underway(q)' <=> Underway(q)
    BY <1>1 DEF Underway
  <2>4. StandsAt(i)
    BY DEF AgendaInv, AgendaStands
  <2> QED BY <1>1, <1>7, <2>1, <2>2, <2>3, <2>4 DEF StandsAt
<1>9. AgendaSidebar'
  <2>1. CASE what # "sidebar"
    <3>1. agendaFound'["sidebar"] = agendaFound["sidebar"]
      BY <1>4, <2>1 DEF Agenda!Loads
    <3> QED BY <1>1, <3>1 DEF AgendaInv, AgendaSidebar
  <2>2. CASE what = "sidebar"
    <3>1. Agenda!Asked(what) = {s \in Sections : agendaServer[s].at = None}
      BY <2>2 DEF Agenda!Asked, Agenda!Scheduled
    <3>2. \A s \in Sections : agendaFound'["sidebar"][s] # None <=> agendaServer[s].at = None
      BY <1>3, <1>4, <2>2, <3>1, ItemsApart DEF AgendaInv, AgendaKinds
    <3>3. "sidebar" \in agendaLoading
      BY <2>2 DEF Agenda!LoadFinds
    <3> QED BY <1>1, <3>2, <3>3 DEF AgendaInv, AgendaSidebar
  <2> QED BY <2>1, <2>2
<1>10. AgendaOpen'
  BY <1>1 DEF AgendaInv, AgendaOpen, Settled, Agenda!Busy
<1> QED BY <1>5, <1>6, <1>8, <1>9, <1>10 DEF AgendaInv, AgendaStands

LEMMA SidebarLoads ==
  ASSUME AgendaInv, Agenda!LoadAnswers("sidebar")
  PROVE  AgendaInv'
<1>1. /\ "sidebar" \in agendaLoading /\ agendaLoading' = agendaLoading \ {"sidebar"}
      /\ agendaFound["sidebar"] # None /\ agendaFound' = [agendaFound EXCEPT !["sidebar"] = None]
      /\ agendaSidebar' = {s \in Sections : agendaFound["sidebar"][s] # None}
      /\ UNCHANGED <<agendaKnown, agendaShown, agendaTangled, agendaServer, agendaDialog,
                     agendaRequests, agendaMoves>>
  BY DEF Agenda!LoadAnswers
<1>2. /\ agendaFound' \in [Agenda!Loads -> Agenda!Timetable \cup {None}]
      /\ \A w \in Agenda!Loads : w # "sidebar" => agendaFound'[w] = agendaFound[w]
  BY <1>1 DEF AgendaInv, AgendaType
<1>3. AgendaType' /\ AgendaKinds'
  BY <1>1, <1>2 DEF AgendaInv, AgendaType, AgendaKinds
<1>4. ASSUME NEW i \in Agenda!Items PROVE StandsAt(i)'
  <2>1. LoadOf(i) # "sidebar" /\ LoadOf(i) \in Agenda!Loads
    BY DEF LoadOf, Agenda!Loads
  <2>2. Stands(i)' <=> Stands(i)
    BY <1>1, <1>2, <2>1 DEF Stands, ToCome, Settled
  <2>3. Settled(i)' <=> Settled(i)
    BY <1>1 DEF Settled
  <2>4. Agenda!Busy(i)' <=> Agenda!Busy(i)
    BY <1>1 DEF Agenda!Busy
  <2>5. \A q \in agendaRequests : Underway(q)' <=> Underway(q)
    BY <1>1 DEF Underway
  <2>6. StandsAt(i)
    BY DEF AgendaInv, AgendaStands
  <2> QED BY <1>1, <2>2, <2>3, <2>4, <2>5, <2>6 DEF StandsAt
<1>5. AgendaSidebar'
  BY <1>1 DEF AgendaInv, AgendaSidebar
<1>6. AgendaOpen'
  BY <1>1 DEF AgendaInv, AgendaOpen, Settled, Agenda!Busy
<1> QED BY <1>3, <1>4, <1>5, <1>6 DEF AgendaInv, AgendaStands

\* An item that comes as it is saved is settled; one that was changed since it was
\* read, or stands there already, is met by its load.
LEMMA EventsLoad ==
  ASSUME AgendaInv, NEW what \in Agenda!Loads, what # "sidebar", Agenda!LoadAnswers(what)
  PROVE  AgendaInv'
<1> DEFINE rows == agendaFound[what]
           items == {i \in Agenda!Items : rows[i] # None}
<1>1. /\ what \in agendaLoading /\ agendaLoading' = agendaLoading \ {what}
      /\ rows # None /\ agendaFound' = [agendaFound EXCEPT ![what] = None]
      /\ agendaKnown' = [i \in Agenda!Items |-> IF i \in items THEN rows[i] ELSE agendaKnown[i]]
      /\ agendaShown' = [i \in Agenda!Items |-> IF i \in items THEN rows[i].at ELSE agendaShown[i]]
      /\ agendaTangled' = agendaTangled \cup
            {i \in items : agendaShown[i] # None \/ Agenda!Busy(i) \/ rows[i] # agendaServer[i]}
      /\ UNCHANGED <<agendaSidebar, agendaServer, agendaDialog, agendaRequests, agendaMoves>>
  BY DEF Agenda!LoadAnswers, Agenda!Adds
<1>2. /\ agendaFound' \in [Agenda!Loads -> Agenda!Timetable \cup {None}]
      /\ \A w \in Agenda!Loads : w # what => agendaFound'[w] = agendaFound[w]
      /\ rows \in Agenda!Timetable
  BY <1>1 DEF AgendaInv, AgendaType
<1>3. AgendaType'
  <2>1. \A i \in items : rows[i] \in Agenda!Item /\ rows[i].at \in Agenda!Place \cup {None}
    BY <1>2 DEF Agenda!Item, Agenda!Timetable
  <2>2. agendaKnown' \in [Agenda!Items -> Agenda!Item \cup {None}]
    BY <1>1, <2>1 DEF AgendaInv, AgendaType
  <2>3. agendaShown' \in [Agenda!Items -> Agenda!Place \cup {None}]
    BY <1>1, <2>1 DEF AgendaInv, AgendaType
  <2>4. agendaTangled' \subseteq Agenda!Items /\ agendaLoading' \subseteq Agenda!Loads
    BY <1>1 DEF AgendaInv, AgendaType
  <2> QED BY <1>1, <1>2, <2>2, <2>3, <2>4 DEF AgendaInv, AgendaType
<1>4. AgendaKinds'
  <2>1. \A n \in Notes : agendaKnown'[n] # None => agendaKnown'[n].at # None
    <3> SUFFICES ASSUME NEW n \in Notes, agendaKnown'[n] # None PROVE agendaKnown'[n].at # None
      OBVIOUS
    <3>1. CASE n \in items
      BY <1>1, <3>1, ItemsApart DEF AgendaInv, AgendaKinds
    <3>2. CASE n \notin items
      BY <1>1, <3>2, ItemsApart DEF AgendaInv, AgendaKinds
    <3> QED BY <3>1, <3>2
  <2>2. \A i \in Agenda!Items : agendaKnown[i] # None => agendaKnown'[i] # None
    BY <1>1
  <2>3. \A q \in agendaRequests : q.item \in Agenda!Items
    BY DEF AgendaInv, AgendaType, Agenda!Request
  <2> QED BY <1>1, <2>1, <2>2, <2>3, ItemsApart DEF AgendaInv, AgendaKinds
<1>5. ASSUME NEW i \in Agenda!Items, i \notin agendaTangled' PROVE StandsAt(i)'
  <2>1. StandsAt(i) /\ i \notin agendaTangled
    BY <1>1, <1>5 DEF AgendaInv, AgendaStands
  <2>2. CASE i \in items
    <3>1. ~Agenda!Busy(i) /\ rows[i] = agendaServer[i] /\ rows[i] # None
      BY <1>1, <1>5, <2>2
    <3>2. agendaShown'[i] = agendaServer[i].at /\ agendaKnown'[i] = agendaServer[i] /\ agendaServer[i] # None
      BY <1>1, <2>2, <3>1
    <3>3. Settled(i)'
      BY <1>1, <3>2 DEF Settled
    <3> QED BY <1>1, <3>1, <3>3 DEF StandsAt, Stands, Agenda!Busy
  <2>3. CASE i \notin items
    <3>1. agendaShown'[i] = agendaShown[i] /\ agendaKnown'[i] = agendaKnown[i] /\ rows[i] = None
      BY <1>1, <2>3
    <3>2. Settled(i)' <=> Settled(i)
      BY <1>1, <3>1 DEF Settled
    <3>3. Stands(i) => Stands(i)'
      <4>1. CASE LoadOf(i) = what
        <5>1. ToCome(i) => Settled(i)
          BY <1>1, <3>1, <4>1 DEF ToCome, Settled
        <5> QED BY <3>2, <5>1 DEF Stands
      <4>2. CASE LoadOf(i) # what
        <5>1. LoadOf(i) \in Agenda!Loads
          BY DEF LoadOf, Agenda!Loads
        <5> QED BY <1>1, <1>2, <3>1, <3>2, <4>2, <5>1 DEF Stands, ToCome
      <4> QED BY <4>1, <4>2
    <3>4. \A q \in agendaRequests : q.item = i => (Underway(q)' <=> Underway(q))
      BY <1>1, <3>1 DEF Underway
    <3>5. Agenda!Busy(i)' <=> Agenda!Busy(i)
      BY <1>1 DEF Agenda!Busy
    <3> QED BY <1>1, <2>1, <3>2, <3>3, <3>4, <3>5 DEF StandsAt
  <2> QED BY <2>2, <2>3
<1>6. AgendaStands'
  BY <1>5 DEF AgendaStands, StandsAt
<1>7. AgendaSidebar'
  <2>1. agendaFound'["sidebar"] = agendaFound["sidebar"]
        /\ ("sidebar" \in agendaLoading' <=> "sidebar" \in agendaLoading)
    BY <1>1, <1>2 DEF Agenda!Loads
  <2> QED BY <1>1, <2>1 DEF AgendaInv, AgendaSidebar
<1>8. AgendaOpen'
  <2> SUFFICES ASSUME agendaDialog # None, agendaDialog.item \notin agendaTangled' PROVE AgendaOpen'
    BY <1>1 DEF AgendaOpen
  <2> DEFINE i == agendaDialog.item
  <2>1. i \in Agenda!Items /\ i \notin agendaTangled
    BY <1>1 DEF AgendaInv, AgendaType, AgendaDialogs
  <2>2. i \notin items
    BY <1>1, <2>1 DEF AgendaInv, AgendaOpen
  <2>3. agendaShown'[i] = agendaShown[i] /\ agendaKnown'[i] = agendaKnown[i]
    BY <1>1, <2>1, <2>2
  <2> QED BY <1>1, <2>1, <2>3 DEF AgendaInv, AgendaOpen, Settled, Agenda!Busy
<1> QED BY <1>3, <1>4, <1>6, <1>7, <1>8 DEF AgendaInv

LEMMA AgendaLoadKeeps ==
  ASSUME AgendaInv, NEW what \in Agenda!Loads, Agenda!LoadFinds(what) \/ Agenda!LoadAnswers(what)
  PROVE  AgendaInv'
  BY FindsKeeps, SidebarLoads, EventsLoad

\* The user: what a write sent leaves as it is.
LEMMA SendsFacts ==
  ASSUME AgendaInv, NEW kind \in Agenda!Kinds, NEW i \in Agenda!Items, NEW to \in Agenda!Item,
         NEW was \in Agenda!Place \cup {None}, Agenda!Sends(kind, i, to, was)
  PROVE  /\ agendaRequests' \subseteq Agenda!Request /\ agendaTangled' \subseteq Agenda!Items
         /\ \A j \in Agenda!Items : j \in agendaTangled => j \in agendaTangled'
         /\ \A q : q.item # i => (q \in agendaRequests' <=> q \in agendaRequests)
         /\ \E n \in agendaRequests' : /\ n.kind = kind /\ n.item = i /\ n.to = to /\ n.was = was
                                       /\ agendaRequests' = agendaRequests \cup {n}
         /\ i \notin agendaTangled' =>
               /\ i \notin agendaTangled /\ ~Agenda!Busy(i)
               /\ \A q \in agendaRequests' : q.item = i =>
                     q.kind = kind /\ q.to = to /\ q.was = was /\ \A r \in agendaRequests' : r.item = i => r = q
<1> DEFINE n == [kind |-> kind, item |-> i, to |-> to, was |-> was]
<1>1. agendaRequests' = agendaRequests \cup {n}
      /\ agendaTangled' = IF Agenda!Busy(i) THEN agendaTangled \cup {i} ELSE agendaTangled
  BY DEF Agenda!Sends
<1>2. n \in Agenda!Request
  BY DEF Agenda!Request
<1>3. n.kind = kind /\ n.item = i /\ n.to = to /\ n.was = was
  OBVIOUS
<1>4. n \in agendaRequests'
  BY <1>1
<1> HIDE DEF n
<1>5. agendaRequests' \subseteq Agenda!Request /\ agendaTangled' \subseteq Agenda!Items
  BY <1>1, <1>2 DEF AgendaInv, AgendaType
<1>6. i \notin agendaTangled' =>
               /\ i \notin agendaTangled /\ ~Agenda!Busy(i)
               /\ \A q \in agendaRequests' : q.item = i => q = n
  BY <1>1 DEF Agenda!Busy
<1> QED BY <1>1, <1>3, <1>4, <1>5, <1>6

LEMMA DropKeeps ==
  ASSUME AgendaInv, NEW s \in Agenda!Items, NEW p \in Agenda!Span, Agenda!Drop(s, p)
  PROVE  AgendaInv'
<1> DEFINE to == [agendaServer[s] EXCEPT !.at = p]
<1>1. /\ agendaMoves' \in 0..AgendaMoves /\ agendaDialog = None /\ s \in agendaSidebar
      /\ Agenda!Sends("schedule", s, to, None)
      /\ UNCHANGED <<agendaServer, agendaKnown, agendaShown, agendaSidebar, agendaLoading, agendaFound, agendaDialog>>
  BY AgendaAssumption DEF Agenda!Drop, Agenda!Move, AgendaInv, AgendaType
<1>2. s \in Sections /\ p \in Agenda!Place /\ p # None /\ agendaServer[s] \in Agenda!Item
  BY <1>1, AgendaAssumption DEF AgendaInv, AgendaType, AgendaKinds, Agenda!Span
<1>3. to \in Agenda!Item /\ to.at = p /\ to.text = agendaServer[s].text
  BY <1>2 DEF Agenda!Item
<1> HIDE DEF to
<1>4. "schedule" \in Agenda!Kinds
  BY DEF Agenda!Kinds
<1>5. /\ agendaRequests' \subseteq Agenda!Request /\ agendaTangled' \subseteq Agenda!Items
      /\ \A j \in Agenda!Items : j \in agendaTangled => j \in agendaTangled'
      /\ \A q : q.item # s => (q \in agendaRequests' <=> q \in agendaRequests)
      /\ \E n \in agendaRequests' : /\ n.kind = "schedule" /\ n.item = s /\ n.to = to /\ n.was = None
                                    /\ agendaRequests' = agendaRequests \cup {n}
      /\ s \notin agendaTangled' =>
            /\ s \notin agendaTangled /\ ~Agenda!Busy(s)
            /\ \A q \in agendaRequests' : q.item = s =>
                  q.kind = "schedule" /\ q.to = to /\ q.was = None
                  /\ \A r \in agendaRequests' : r.item = s => r = q
  BY <1>1, <1>3, <1>4, SendsFacts
<1>6. AgendaType'
  BY <1>1, <1>5 DEF AgendaInv, AgendaType
<1>7. AgendaKinds'
  BY <1>1, <1>2, <1>3, <1>5, ItemsApart DEF AgendaInv, AgendaKinds
<1>8. ASSUME NEW i \in Agenda!Items PROVE StandsAt(i)'
  <2>1. CASE i # s
    BY <1>1, <1>5, <2>1, ItemUntouched DEF AgendaInv, AgendaStands
  <2>2. CASE i = s
    <3> SUFFICES ASSUME s \notin agendaTangled' PROVE StandsAt(s)'
      BY <2>2 DEF StandsAt
    <3>1. Stands(s) /\ agendaServer[s].at = None
      BY <1>1, <1>2, <1>5 DEF AgendaInv, AgendaStands, StandsAt, AgendaSidebar
    <3>2. Stands(s)'
      BY <1>1, <3>1 DEF Stands, ToCome, Settled
    <3> QED BY <1>1, <1>3, <1>5, <3>1, <3>2 DEF StandsAt
  <2> QED BY <2>1, <2>2
<1>9. AgendaSidebar' /\ AgendaOpen'
  BY <1>1, <1>5, ItemsApart DEF AgendaInv, AgendaSidebar, AgendaOpen
<1> QED BY <1>6, <1>7, <1>8, <1>9 DEF AgendaInv, AgendaStands

LEMMA DragKeeps ==
  ASSUME AgendaInv, NEW i \in Agenda!Items, NEW p \in Agenda!Span, Agenda!Drag(i, p)
  PROVE  AgendaInv'
<1> DEFINE to == [agendaKnown[i] EXCEPT !.at = p]
           was == agendaShown[i]
<1>1. /\ agendaMoves' \in 0..AgendaMoves /\ agendaDialog = None
      /\ agendaShown[i] # None /\ agendaKnown[i] # None
      /\ agendaShown' = [agendaShown EXCEPT ![i] = p]
      /\ Agenda!Sends("move", i, to, was)
      /\ UNCHANGED <<agendaServer, agendaKnown, agendaSidebar, agendaLoading, agendaFound, agendaDialog>>
  BY AgendaAssumption DEF Agenda!Drag, Agenda!Move, AgendaInv, AgendaType
<1>2. p \in Agenda!Place /\ p # None /\ agendaKnown[i] \in Agenda!Item
      /\ was \in Agenda!Place \cup {None} /\ was # None
  BY <1>1, AgendaAssumption DEF AgendaInv, AgendaType, Agenda!Span
<1>3. to \in Agenda!Item /\ to.at = p /\ to.text = agendaKnown[i].text
  BY <1>2 DEF Agenda!Item
<1>4. was = agendaShown[i]
  OBVIOUS
<1> HIDE DEF to, was
<1>5. "move" \in Agenda!Kinds
  BY DEF Agenda!Kinds
<1>6. /\ agendaRequests' \subseteq Agenda!Request /\ agendaTangled' \subseteq Agenda!Items
      /\ \A j \in Agenda!Items : j \in agendaTangled => j \in agendaTangled'
      /\ \A q : q.item # i => (q \in agendaRequests' <=> q \in agendaRequests)
      /\ \E n \in agendaRequests' : /\ n.kind = "move" /\ n.item = i /\ n.to = to /\ n.was = was
                                    /\ agendaRequests' = agendaRequests \cup {n}
      /\ i \notin agendaTangled' =>
            /\ i \notin agendaTangled /\ ~Agenda!Busy(i)
            /\ \A q \in agendaRequests' : q.item = i =>
                  q.kind = "move" /\ q.to = to /\ q.was = was
                  /\ \A r \in agendaRequests' : r.item = i => r = q
  BY <1>1, <1>2, <1>3, <1>5, SendsFacts
<1>7. /\ agendaShown' \in [Agenda!Items -> Agenda!Place \cup {None}] /\ agendaShown'[i] = p
      /\ \A j \in Agenda!Items : j # i => agendaShown'[j] = agendaShown[j]
  BY <1>1, <1>2 DEF AgendaInv, AgendaType
<1>8. AgendaType'
  BY <1>1, <1>6, <1>7 DEF AgendaInv, AgendaType
<1>9. AgendaKinds'
  BY <1>1, <1>2, <1>3, <1>6, ItemsApart DEF AgendaInv, AgendaKinds
<1>10. ASSUME NEW j \in Agenda!Items PROVE StandsAt(j)'
  <2>1. CASE j # i
    BY <1>1, <1>6, <1>7, <2>1, ItemUntouched DEF AgendaInv, AgendaStands
  <2>2. CASE j = i
    <3> SUFFICES ASSUME i \notin agendaTangled' PROVE StandsAt(i)'
      BY <2>2 DEF StandsAt
    <3>1. Stands(i)
      BY <1>6 DEF AgendaInv, AgendaStands, StandsAt
    <3>2. Settled(i)
      BY <1>1, <3>1 DEF Stands, ToCome
    <3>3. agendaServer[i].at = was /\ agendaKnown[i] = agendaServer[i]
      BY <1>1, <1>4, <3>2 DEF Settled
    <3>4. \A q \in agendaRequests' : q.item = i => Underway(q)'
      BY <1>1, <1>2, <1>3, <1>6, <1>7, <3>3 DEF Underway
    <3>5. Agenda!Busy(i)'
      BY <1>6 DEF Agenda!Busy
    <3> QED BY <1>6, <3>4, <3>5 DEF StandsAt
  <2> QED BY <2>1, <2>2
<1>11. AgendaSidebar' /\ AgendaOpen'
  BY <1>1, <1>6, ItemsApart DEF AgendaInv, AgendaSidebar, AgendaOpen
<1> QED BY <1>8, <1>9, <1>10, <1>11 DEF AgendaInv, AgendaStands

LEMMA OpensKeeps ==
  ASSUME AgendaInv, NEW i \in Agenda!Items, NEW draft \in Agenda!Item, Agenda!Opens(i, draft), Agenda!Move,
         i \in Sections => agendaKnown[i] # None, i \in Notes => draft.at # None,
         \/ agendaShown[i] # None
         \/ i \in Notes /\ agendaServer[i] = None
  PROVE  AgendaInv'
<1> DEFINE d == [item |-> i, draft |-> draft, copy |-> agendaKnown[i]]
<1>1. /\ agendaDialog' = d
      /\ agendaTangled' = IF Agenda!Busy(i) THEN agendaTangled \cup {i} ELSE agendaTangled
      /\ UNCHANGED <<agendaServer, agendaKnown, agendaShown, agendaSidebar, agendaLoading, agendaFound, agendaRequests>>
  BY DEF Agenda!Opens
<1>2. agendaMoves' \in 0..AgendaMoves
  BY AgendaAssumption DEF Agenda!Move, AgendaInv, AgendaType
<1>3. d \in AgendaDialogs /\ d.item = i /\ d.draft = draft /\ d.copy = agendaKnown[i]
  BY DEF AgendaDialogs, AgendaInv, AgendaType
<1> HIDE DEF d
<1>4. AgendaType'
  BY <1>1, <1>2, <1>3 DEF AgendaInv, AgendaType
<1>5. AgendaKinds'
  BY <1>1, <1>3, ItemsApart DEF AgendaInv, AgendaKinds
<1>6. ASSUME NEW j \in Agenda!Items PROVE StandsAt(j)'
  BY <1>1, ItemUntouched DEF AgendaInv, AgendaStands
<1>7. AgendaSidebar'
  BY <1>1 DEF AgendaInv, AgendaSidebar
<1>8. AgendaOpen'
  <2> SUFFICES ASSUME i \notin agendaTangled' PROVE AgendaOpen'
    BY <1>1, <1>3 DEF AgendaOpen
  <2>1. i \notin agendaTangled /\ ~Agenda!Busy(i)
    BY <1>1
  <2>2. Stands(i)
    BY <2>1 DEF AgendaInv, AgendaStands, StandsAt
  <2>3. agendaShown[i] # None => Settled(i)
    BY <2>2 DEF Stands, ToCome
  <2>4. Settled(i)' <=> Settled(i)
    BY <1>1 DEF Settled
  <2>5. ~Agenda!Busy(i)'
    BY <1>1, <2>1 DEF Agenda!Busy
  <2> QED BY <1>1, <1>3, <2>3, <2>4, <2>5 DEF AgendaOpen
<1> QED BY <1>4, <1>5, <1>6, <1>7, <1>8 DEF AgendaInv, AgendaStands

LEMMA AgendaEventKeeps ==
  ASSUME AgendaInv, NEW i \in Agenda!Items, Agenda!Event(i)
  PROVE  AgendaInv'
<1>1. ASSUME NEW p \in Agenda!Span, Agenda!NewNote(i, p) PROVE AgendaInv'
  <2>1. /\ Agenda!Move /\ i \in Notes /\ agendaServer[i] = None /\ Agenda!Opens(i, Agenda!At(p))
    BY <1>1 DEF Agenda!NewNote
  <2>2. Agenda!At(p) \in Agenda!Item /\ Agenda!At(p).at # None
    BY AgendaAssumption DEF Agenda!At, Agenda!Item, Agenda!Span, Agenda!FirstText
  <2> QED BY <2>1, <2>2, OpensKeeps, ItemsApart
<1>2. CASE Agenda!Open(i)
  <2>1. /\ Agenda!Move /\ agendaShown[i] # None /\ agendaKnown[i] # None /\ Agenda!Opens(i, agendaKnown[i])
    BY <1>2 DEF Agenda!Open
  <2>2. agendaKnown[i] \in Agenda!Item
    BY <2>1 DEF AgendaInv, AgendaType
  <2>3. i \in Notes => agendaKnown[i].at # None
    BY <2>1 DEF AgendaInv, AgendaKinds
  <2> QED BY <2>1, <2>2, <2>3, OpensKeeps
<1> QED BY <1>1, <1>2, DropKeeps, DragKeeps DEF Agenda!Event

\* The dialog.
LEMMA DraftsKeep ==
  ASSUME AgendaInv, agendaDialog # None, NEW draft \in Agenda!Item, Agenda!Drafts(draft),
         agendaDialog.item \in Notes => draft.at # None
  PROVE  AgendaInv'
<1>1. /\ agendaDialog' = [agendaDialog EXCEPT !.draft = draft]
      /\ UNCHANGED <<agendaServer, agendaKnown, agendaShown, agendaSidebar, agendaLoading, agendaFound, agendaRequests,
                     agendaMoves, agendaTangled>>
  BY DEF Agenda!Drafts
<1>2. agendaDialog \in AgendaDialogs
  BY DEF AgendaInv, AgendaType
<1>3. /\ agendaDialog' \in AgendaDialogs /\ agendaDialog'.draft = draft
      /\ agendaDialog'.item = agendaDialog.item /\ agendaDialog'.copy = agendaDialog.copy
  BY <1>1, <1>2 DEF AgendaDialogs
<1>4. AgendaType' /\ AgendaKinds'
  BY <1>1, <1>3 DEF AgendaInv, AgendaType, AgendaKinds
<1>5. ASSUME NEW j \in Agenda!Items PROVE StandsAt(j)'
  BY <1>1, ItemUntouched DEF AgendaInv, AgendaStands
<1>6. AgendaSidebar' /\ AgendaOpen'
  BY <1>1, <1>3 DEF AgendaInv, AgendaSidebar, AgendaOpen, Settled, Agenda!Busy
<1> QED BY <1>4, <1>5, <1>6 DEF AgendaInv, AgendaStands

LEMMA CloseKeeps ==
  ASSUME AgendaInv, Agenda!Close
  PROVE  AgendaInv'
<1>1. /\ agendaDialog' = None
      /\ UNCHANGED <<agendaServer, agendaKnown, agendaShown, agendaSidebar, agendaLoading, agendaFound, agendaRequests,
                     agendaMoves, agendaTangled>>
  BY DEF Agenda!Close
<1>2. AgendaType' /\ AgendaKinds' /\ AgendaSidebar' /\ AgendaOpen'
  BY <1>1 DEF AgendaInv, AgendaType, AgendaKinds, AgendaSidebar, AgendaOpen
<1>3. ASSUME NEW j \in Agenda!Items PROVE StandsAt(j)'
  BY <1>1, ItemUntouched DEF AgendaInv, AgendaStands
<1> QED BY <1>2, <1>3 DEF AgendaInv, AgendaStands

LEMMA SaveDialogKeeps ==
  ASSUME AgendaInv, NEW kind \in Agenda!Kinds, Agenda!SaveDialog(kind)
  PROVE  AgendaInv'
<1> DEFINE i == agendaDialog.item
           to == IF kind = "note" THEN [agendaDialog.copy EXCEPT !.text = agendaDialog.draft.text]
                 ELSE agendaDialog.draft
<1>1. /\ agendaDialog # None /\ agendaDialog' = None /\ Agenda!Sends(kind, i, to, None)
      /\ IF i \in Sections THEN kind = "note" ELSE kind \in {"save", "delete"}
      /\ UNCHANGED <<agendaServer, agendaKnown, agendaShown, agendaSidebar, agendaLoading, agendaFound, agendaMoves>>
  BY DEF Agenda!SaveDialog
<1>2. /\ i \in Agenda!Items /\ agendaDialog.draft \in Agenda!Item
      /\ agendaDialog.copy \in Agenda!Item \cup {None}
      /\ i \in Sections => agendaDialog.copy # None
      /\ i \in Notes => agendaDialog.draft.at # None
  BY <1>1 DEF AgendaInv, AgendaType, AgendaKinds, AgendaDialogs
<1>3. i \in Sections => to \in Agenda!Item /\ to.at = agendaDialog.copy.at
  <2>1. ASSUME i \in Sections PROVE to \in Agenda!Item /\ to.at = agendaDialog.copy.at
    <3>1. agendaDialog.copy \in Agenda!Item /\ kind = "note"
      BY <1>1, <1>2, <2>1
    <3> QED BY <1>2, <3>1 DEF Agenda!Item
  <2> QED BY <2>1
<1>4. i \in Notes => to \in Agenda!Item /\ to.at # None
  BY <1>1, <1>2, ItemsApart
<1>5. to \in Agenda!Item
  BY <1>2, <1>3, <1>4, ItemsApart
<1>6. i \notin agendaTangled =>
         /\ ~Agenda!Busy(i) /\ agendaDialog.copy = agendaKnown[i]
         /\ \/ agendaShown[i] # None /\ Settled(i)
            \/ i \in Notes /\ agendaServer[i] = None
  BY <1>1 DEF AgendaInv, AgendaOpen
<1> HIDE DEF i, to
<1>7. /\ agendaRequests' \subseteq Agenda!Request /\ agendaTangled' \subseteq Agenda!Items
      /\ \A j \in Agenda!Items : j \in agendaTangled => j \in agendaTangled'
      /\ \A q : q.item # i => (q \in agendaRequests' <=> q \in agendaRequests)
      /\ \E n \in agendaRequests' : /\ n.kind = kind /\ n.item = i /\ n.to = to /\ n.was = None
                                    /\ agendaRequests' = agendaRequests \cup {n}
      /\ i \notin agendaTangled' =>
            /\ i \notin agendaTangled /\ ~Agenda!Busy(i)
            /\ \A q \in agendaRequests' : q.item = i =>
                  q.kind = kind /\ q.to = to /\ q.was = None
                  /\ \A r \in agendaRequests' : r.item = i => r = q
  BY <1>1, <1>2, <1>5, SendsFacts
<1>8. AgendaType'
  BY <1>1, <1>7 DEF AgendaInv, AgendaType
<1>9. AgendaKinds'
  BY <1>1, <1>2, <1>4, <1>7, ItemsApart DEF AgendaInv, AgendaKinds
<1>10. ASSUME NEW j \in Agenda!Items PROVE StandsAt(j)'
  <2>1. CASE j # i
    BY <1>1, <1>7, <2>1, ItemUntouched DEF AgendaInv, AgendaStands
  <2>2. CASE j = i
    <3> SUFFICES ASSUME j \notin agendaTangled' PROVE StandsAt(j)'
      BY DEF StandsAt
    <3>1. j \notin agendaTangled /\ ~Agenda!Busy(j)
      BY <1>7, <2>2
    <3>2. Stands(j)
      BY <3>1 DEF AgendaInv, AgendaStands, StandsAt
    <3>3. (Stands(j)' <=> Stands(j)) /\ (Settled(j)' <=> Settled(j))
      BY <1>1 DEF Stands, ToCome, Settled
    <3>4. kind = "note" => Settled(j) /\ to.at = agendaServer[j].at /\ to.at # None
      <4> SUFFICES ASSUME kind = "note" PROVE Settled(j) /\ to.at = agendaServer[j].at /\ to.at # None
        OBVIOUS
      <4>1. i \in Sections /\ i \notin Notes
        BY <1>1, <1>2, ItemsApart
      <4>2. Settled(j) /\ agendaShown[j] # None /\ agendaDialog.copy = agendaKnown[j]
        BY <1>6, <2>2, <3>1, <4>1
      <4> QED BY <1>3, <4>1, <4>2 DEF Settled
    <3>5. kind # "move" /\ kind # "schedule"
      BY <1>1
    <3>6. \A q \in agendaRequests' : q.item = j =>
             /\ q.kind = kind /\ q.to = to
             /\ \A r \in agendaRequests' : r.item = j => r = q
      BY <1>7, <2>2
    <3>7. Agenda!Busy(j)'
      BY <1>7, <2>2 DEF Agenda!Busy
    <3> QED BY <1>1, <3>2, <3>3, <3>4, <3>5, <3>6, <3>7 DEF StandsAt
  <2> QED BY <2>1, <2>2
<1>11. AgendaSidebar' /\ AgendaOpen'
  BY <1>1, <1>7, ItemsApart DEF AgendaInv, AgendaSidebar, AgendaOpen
<1> QED BY <1>8, <1>9, <1>10, <1>11 DEF AgendaInv, AgendaStands

LEMMA AgendaDialogKeeps ==
  ASSUME AgendaInv, Agenda!Dialog
  PROVE  AgendaInv'
<1>1. agendaDialog # None =>
        /\ agendaDialog.item \in Agenda!Items /\ agendaDialog.draft \in Agenda!Item
        /\ agendaDialog.item \in Notes => agendaDialog.draft.at \in Agenda!Place
  <2> SUFFICES ASSUME agendaDialog # None
               PROVE  /\ agendaDialog.item \in Agenda!Items /\ agendaDialog.draft \in Agenda!Item
                      /\ agendaDialog.item \in Notes => agendaDialog.draft.at \in Agenda!Place
    OBVIOUS
  <2>1. agendaDialog.item \in Agenda!Items /\ agendaDialog.draft \in Agenda!Item
    BY DEF AgendaInv, AgendaType, AgendaDialogs
  <2>2. agendaDialog.item \in Notes => agendaDialog.draft.at # None
    BY DEF AgendaInv, AgendaKinds
  <2> QED BY <2>1, <2>2 DEF Agenda!Item
<1>2. ASSUME NEW t \in AgendaTexts, Agenda!SetText(t) PROVE AgendaInv'
  <2>1. agendaDialog # None /\ Agenda!Drafts([agendaDialog.draft EXCEPT !.text = t])
    BY <1>2 DEF Agenda!SetText
  <2>2. /\ [agendaDialog.draft EXCEPT !.text = t] \in Agenda!Item
        /\ [agendaDialog.draft EXCEPT !.text = t].at = agendaDialog.draft.at
    BY <1>1, <2>1 DEF Agenda!Item
  <2>3. agendaDialog.item \in Notes => agendaDialog.draft.at # None
    BY <2>1 DEF AgendaInv, AgendaKinds
  <2> QED BY <2>1, <2>2, <2>3, DraftsKeep
<1>3. ASSUME NEW t \in Slots, Agenda!SetStart(t) PROVE AgendaInv'
  <2> DEFINE at == [from |-> t, to |-> t + Agenda!Length(agendaDialog.draft.at)]
  <2>1. /\ agendaDialog # None /\ t + Agenda!Length(agendaDialog.draft.at) \in Slots
        /\ Agenda!Drafts([agendaDialog.draft EXCEPT !.at = at])
    BY <1>3 DEF Agenda!SetStart
  <2>2. at \in Agenda!Place /\ at # None
    <3>1. at \in Agenda!Place
      BY <2>1 DEF Agenda!Place
    <3> QED BY <3>1, AgendaAssumption
  <2> HIDE DEF at
  <2>3. /\ [agendaDialog.draft EXCEPT !.at = at] \in Agenda!Item
        /\ [agendaDialog.draft EXCEPT !.at = at].at = at
    BY <1>1, <2>1, <2>2 DEF Agenda!Item
  <2> QED BY <2>1, <2>2, <2>3, DraftsKeep
<1>4. ASSUME NEW t \in Slots, Agenda!SetEnd(t) PROVE AgendaInv'
  <2> DEFINE at == [agendaDialog.draft.at EXCEPT !.to = t]
  <2>1. /\ agendaDialog # None /\ agendaDialog.item \in Notes
        /\ Agenda!Drafts([agendaDialog.draft EXCEPT !.at = at])
    BY <1>4 DEF Agenda!SetEnd
  <2>2. at \in Agenda!Place /\ at # None
    <3>1. at \in Agenda!Place
      BY <1>1, <2>1 DEF Agenda!Place
    <3> QED BY <3>1, AgendaAssumption
  <2> HIDE DEF at
  <2>3. /\ [agendaDialog.draft EXCEPT !.at = at] \in Agenda!Item
        /\ [agendaDialog.draft EXCEPT !.at = at].at = at
    BY <1>1, <2>1, <2>2 DEF Agenda!Item
  <2> QED BY <2>1, <2>2, <2>3, DraftsKeep
<1> QED BY <1>2, <1>3, <1>4, CloseKeeps, SaveDialogKeeps DEF Agenda!Dialog

\* The answers.
LEMMA WrittenFacts ==
  ASSUME AgendaInv, NEW q \in agendaRequests, Agenda!Carried(q)
  PROVE  /\ Agenda!Written(q) \in Agenda!Item \cup {None}
         /\ q.kind = "delete" => Agenda!Written(q) = None
         /\ q.kind # "delete" => Agenda!Written(q) # None
         /\ q.kind = "note" => /\ Agenda!Written(q).text = q.to.text
                               /\ Agenda!Written(q).at = agendaServer[q.item].at
         /\ q.kind \in {"move", "schedule"} /\ q.item \in Sections =>
               /\ Agenda!Written(q).at = q.to.at
               /\ Agenda!Written(q).text = agendaServer[q.item].text
         /\ q.kind = "save" \/ (q.kind = "move" /\ q.item \notin Sections) => Agenda!Written(q) = q.to
<1> DEFINE i == q.item
           x == agendaServer[i]
<1>1. /\ i \in Agenda!Items /\ q.to \in Agenda!Item /\ q.kind \in Agenda!Kinds
      /\ q.was \in Agenda!Place \cup {None}
  BY DEF AgendaInv, AgendaType, Agenda!Request
<1>2. i \in Sections => x \in Agenda!Item
  BY <1>1 DEF AgendaInv, AgendaType, AgendaKinds
<1>3. /\ q.kind \in {"schedule", "note"} => i \in Sections
      /\ q.kind \in {"save", "delete"} => i \in Notes /\ i \notin Sections
  BY <1>1, ItemsApart DEF AgendaInv, AgendaKinds
<1>4. None \notin Agenda!Item
  BY AgendaAssumption
<1> HIDE DEF i, x
<1>5. CASE q.kind = "delete"
  BY <1>5 DEF Agenda!Written
<1>6. CASE q.kind = "note"
  <2>1. Agenda!Written(q) = [x EXCEPT !.text = q.to.text]
    BY <1>6 DEF Agenda!Written, x, i
  <2>2. Agenda!Written(q) \in Agenda!Item /\ Agenda!Written(q).text = q.to.text /\ Agenda!Written(q).at = x.at
    BY <1>1, <1>2, <1>3, <1>6, <2>1 DEF Agenda!Item
  <2> QED BY <1>4, <1>6, <2>2 DEF x, i
<1>7. CASE q.kind \in {"move", "schedule"} /\ i \in Sections
  <2>1. Agenda!Written(q) = [x EXCEPT !.at = q.to.at]
    BY <1>7 DEF Agenda!Written, x, i
  <2>2. q.to.at \in Agenda!Place \cup {None}
    BY <1>1 DEF Agenda!Item
  <2>3. Agenda!Written(q) \in Agenda!Item /\ Agenda!Written(q).at = q.to.at /\ Agenda!Written(q).text = x.text
    BY <1>2, <1>7, <2>1, <2>2 DEF Agenda!Item
  <2> QED BY <1>4, <1>7, <2>3 DEF x, i
<1>8. CASE q.kind = "save" \/ (q.kind = "move" /\ i \notin Sections)
  <2>1. Agenda!Written(q) = q.to
    BY <1>3, <1>8 DEF Agenda!Written, i
  <2> QED BY <1>1, <1>4, <1>8, <2>1 DEF i
<1> QED BY <1>1, <1>3, <1>5, <1>6, <1>7, <1>8 DEF Agenda!Kinds, i

LEMMA SameItem ==
  ASSUME NEW x \in Agenda!Item, NEW y \in Agenda!Item, x.text = y.text, x.at = y.at
  PROVE  x = y
  BY DEF Agenda!Item

LEMMA RequestFacts ==
  ASSUME AgendaInv, NEW q \in agendaRequests
  PROVE  /\ q.item \in Agenda!Items /\ q.to \in Agenda!Item /\ q.to # None /\ q.kind \in Agenda!Kinds
         /\ q.to.at \in Agenda!Place \cup {None}
         /\ q.was \in Agenda!Place \cup {None}
         /\ q.kind \in {"schedule", "note"} => q.item \in Sections
         /\ q.kind \in {"save", "delete"} => q.item \notin Sections
         /\ q.kind \in {"schedule", "move", "save"} => q.to.at # None
         /\ q.kind = "move" /\ q.item \in Sections => agendaKnown[q.item] \in Agenda!Item
<1>1. /\ q.item \in Agenda!Items /\ q.to \in Agenda!Item /\ q.kind \in Agenda!Kinds
      /\ q.was \in Agenda!Place \cup {None}
  BY DEF AgendaInv, AgendaType, Agenda!Request
<1>2. q.to # None /\ q.to.at \in Agenda!Place \cup {None}
  BY <1>1, AgendaAssumption DEF Agenda!Item
<1> QED BY <1>1, <1>2, ItemsApart DEF AgendaInv, AgendaType, AgendaKinds

\* What the page makes of an answer.
LEMMA LearnsFacts ==
  ASSUME AgendaInv, NEW q \in agendaRequests, Agenda!Carried(q), Agenda!Learns(q)
  PROVE  /\ agendaKnown' \in [Agenda!Items -> Agenda!Item \cup {None}]
         /\ \A j \in Agenda!Items : j # q.item => agendaKnown'[j] = agendaKnown[j]
         /\ q.kind # "delete" => agendaKnown'[q.item] # None /\ agendaKnown'[q.item].at = q.to.at
         /\ q.kind = "delete" => agendaKnown'[q.item] = None
         /\ q.kind \notin {"delete", "move"} \/ (q.kind = "move" /\ q.item \notin Sections)
               => agendaKnown'[q.item] = q.to
         /\ q.kind = "move" /\ q.item \in Sections =>
               agendaKnown'[q.item].text = agendaKnown[q.item].text
<1> DEFINE i == q.item
           x == CASE q.kind = "delete" -> None
                  [] q.kind = "move" /\ i \in Sections -> [agendaKnown[i] EXCEPT !.at = q.to.at]
                  [] q.kind = "move" /\ i \in Notes -> Agenda!Written(q)
                  [] OTHER -> q.to
<1>1. /\ i \in Agenda!Items /\ q.to \in Agenda!Item /\ q.to # None /\ q.to.at \in Agenda!Place \cup {None}
      /\ q.kind = "move" /\ i \in Sections => agendaKnown[i] \in Agenda!Item
  BY RequestFacts
<1>2. agendaKnown' = [agendaKnown EXCEPT ![i] = x]
  BY DEF Agenda!Learns
<1>3. CASE q.kind = "delete"
  <2>1. x = None
    BY <1>3
  <2> QED BY <1>1, <1>2, <1>3, <2>1 DEF AgendaInv, AgendaType
<1>4. CASE q.kind = "move" /\ i \in Sections
  <2>1. x = [agendaKnown[i] EXCEPT !.at = q.to.at]
    BY <1>1, <1>4, ItemsApart
  <2>2. x \in Agenda!Item /\ x.at = q.to.at /\ x.text = agendaKnown[i].text
    BY <1>1, <1>4, <2>1 DEF Agenda!Item
  <2>3. x # None
    BY <2>2, AgendaAssumption
  <2> HIDE DEF x
  <2> QED BY <1>1, <1>2, <1>4, <2>2, <2>3 DEF AgendaInv, AgendaType
<1>5. CASE q.kind \notin {"delete", "move"} \/ (q.kind = "move" /\ i \notin Sections)
  <2>1. x = q.to
    BY <1>1, <1>5, ItemsApart, WrittenFacts
  <2> HIDE DEF x
  <2> QED BY <1>1, <1>2, <1>5, <2>1 DEF AgendaInv, AgendaType
<1> QED BY <1>3, <1>4, <1>5

LEMMA ShowsFacts ==
  ASSUME AgendaInv, NEW q \in agendaRequests, Agenda!Shows(q)
  PROVE  /\ agendaShown' \in [Agenda!Items -> Agenda!Place \cup {None}]
         /\ \A j \in Agenda!Items : j # q.item => agendaShown'[j] = agendaShown[j]
         /\ q.kind \in {"move", "note"} => agendaShown'[q.item] = agendaShown[q.item]
         /\ q.kind \in {"schedule", "save"} => agendaShown'[q.item] = q.to.at
         /\ q.kind = "delete" => agendaShown'[q.item] = None
         /\ agendaSidebar' = IF q.kind = "schedule" THEN agendaSidebar \ {q.item} ELSE agendaSidebar
<1>1. /\ q.item \in Agenda!Items /\ q.kind \in Agenda!Kinds /\ q.to.at \in Agenda!Place \cup {None}
  BY RequestFacts
<1>2. agendaShown \in [Agenda!Items -> Agenda!Place \cup {None}]
  BY DEF AgendaInv, AgendaType
<1>3. CASE q.kind \in {"move", "note"}
  BY <1>2, <1>3 DEF Agenda!Shows
<1>4. CASE q.kind = "schedule"
  BY <1>1, <1>2, <1>4 DEF Agenda!Shows
<1>5. CASE q.kind = "save"
  BY <1>1, <1>2, <1>5 DEF Agenda!Shows
<1>6. CASE q.kind = "delete"
  BY <1>1, <1>2, <1>6 DEF Agenda!Shows
<1> QED BY <1>1, <1>3, <1>4, <1>5, <1>6 DEF Agenda!Kinds

\* What is written stays well-formed.
LEMMA WritesWell ==
  ASSUME AgendaInv, NEW q \in agendaRequests, Agenda!Carried(q),
         agendaServer' = [agendaServer EXCEPT ![q.item] = Agenda!Written(q)]
  PROVE  /\ agendaServer' \in [Agenda!Items -> Agenda!Item \cup {None}]
         /\ agendaServer'[q.item] = Agenda!Written(q)
         /\ \A j \in Agenda!Items : j # q.item => agendaServer'[j] = agendaServer[j]
         /\ \A s \in Sections : agendaServer'[s] # None
         /\ \A n \in Notes : agendaServer'[n] # None => agendaServer'[n].at # None
<1>1. /\ q.item \in Agenda!Items
      /\ q.kind \in {"save", "delete"} => q.item \notin Sections
      /\ q.kind \in {"schedule", "note"} => q.item \in Sections
      /\ q.kind \in {"schedule", "move", "save"} => q.to.at # None
      /\ q.kind \in Agenda!Kinds
  BY RequestFacts
<1>2. /\ Agenda!Written(q) \in Agenda!Item \cup {None}
      /\ q.kind = "delete" => Agenda!Written(q) = None
      /\ q.kind # "delete" => Agenda!Written(q) # None
      /\ q.kind = "save" \/ (q.kind = "move" /\ q.item \notin Sections) => Agenda!Written(q) = q.to
  BY WrittenFacts
<1>3. /\ agendaServer' \in [Agenda!Items -> Agenda!Item \cup {None}]
      /\ agendaServer'[q.item] = Agenda!Written(q)
      /\ \A j \in Agenda!Items : j # q.item => agendaServer'[j] = agendaServer[j]
  BY <1>1, <1>2 DEF AgendaInv, AgendaType
<1>4. \A s \in Sections : agendaServer'[s] # None
  BY <1>1, <1>2, <1>3, ItemsApart DEF AgendaInv, AgendaKinds
<1>5. \A n \in Notes : agendaServer'[n] # None => agendaServer'[n].at # None
  <2> SUFFICES ASSUME NEW n \in Notes, agendaServer'[n] # None PROVE agendaServer'[n].at # None
    OBVIOUS
  <2>1. CASE n = q.item
    <3>1. n \notin Sections
      BY ItemsApart
    <3>2. q.kind \in {"save", "move"}
      BY <1>1, <1>2, <1>3, <2>1, <3>1 DEF Agenda!Kinds
    <3> QED BY <1>1, <1>2, <1>3, <2>1, <3>1, <3>2
  <2>2. CASE n # q.item
    BY <1>3, <2>2, ItemsApart DEF AgendaInv, AgendaKinds
  <2> QED BY <2>1, <2>2
<1> QED BY <1>3, <1>4, <1>5

LEMMA SucceedsSettles ==
  ASSUME AgendaInv, NEW q \in agendaRequests, Agenda!Carried(q), NEW i \in Agenda!Items, i = q.item,
         agendaServer' = [agendaServer EXCEPT ![q.item] = Agenda!Written(q)],
         Agenda!Learns(q), Agenda!Shows(q), i \notin agendaTangled
  PROVE  Settled(i)'
<1>1. /\ q.to \in Agenda!Item /\ q.to # None /\ q.kind \in Agenda!Kinds
      /\ q.kind \in {"schedule", "note"} => i \in Sections
      /\ q.kind \in {"save", "delete"} => i \notin Sections
      /\ q.kind \in {"schedule", "move", "save"} => q.to.at # None
      /\ q.kind = "move" /\ i \in Sections => agendaKnown[i] \in Agenda!Item
  BY RequestFacts
<1>2. /\ agendaKnown'[i] \in Agenda!Item \cup {None}
      /\ q.kind # "delete" => agendaKnown'[i] # None /\ agendaKnown'[i].at = q.to.at
      /\ q.kind \notin {"delete", "move"} \/ (q.kind = "move" /\ i \notin Sections) => agendaKnown'[i] = q.to
      /\ q.kind = "move" /\ i \in Sections => agendaKnown'[i].text = agendaKnown[i].text
  BY LearnsFacts
<1>3. /\ q.kind \in {"move", "note"} => agendaShown'[i] = agendaShown[i]
      /\ q.kind \in {"schedule", "save"} => agendaShown'[i] = q.to.at
      /\ q.kind = "delete" => agendaShown'[i] = None
  BY ShowsFacts
<1>4. agendaServer'[i] = Agenda!Written(q)
  BY WritesWell
<1>5. /\ Agenda!Written(q) \in Agenda!Item \cup {None}
      /\ q.kind = "delete" => Agenda!Written(q) = None
      /\ q.kind # "delete" => Agenda!Written(q) # None
      /\ q.kind = "note" => /\ Agenda!Written(q).text = q.to.text
                            /\ Agenda!Written(q).at = agendaServer[i].at
      /\ q.kind \in {"move", "schedule"} /\ i \in Sections =>
            /\ Agenda!Written(q).at = q.to.at
            /\ Agenda!Written(q).text = agendaServer[i].text
      /\ q.kind = "save" \/ (q.kind = "move" /\ i \notin Sections) => Agenda!Written(q) = q.to
  BY WrittenFacts
<1>6. /\ q.kind = "move" => Underway(q)
      /\ q.kind = "schedule" => q.to.text = agendaServer[i].text
      /\ q.kind = "note" => Settled(i) /\ q.to.at = agendaServer[i].at /\ q.to.at # None
  BY DEF AgendaInv, AgendaStands, StandsAt
<1>7. CASE q.kind = "delete"
  BY <1>3, <1>4, <1>5, <1>7 DEF Settled
<1>8. CASE q.kind = "save"
  BY <1>1, <1>2, <1>3, <1>4, <1>5, <1>8 DEF Settled
<1>9. CASE q.kind = "note"
  <2>1. Agenda!Written(q) = q.to
    BY <1>1, <1>5, <1>6, <1>9, SameItem
  <2>2. agendaServer[i] # None
    BY <1>1, <1>9 DEF AgendaInv, AgendaKinds
  <2>3. agendaShown'[i] = q.to.at
    BY <1>3, <1>6, <1>9, <2>2 DEF Settled
  <2> QED BY <1>1, <1>2, <1>4, <1>9, <2>1, <2>3 DEF Settled
<1>10. CASE q.kind = "schedule"
  <2>1. Agenda!Written(q) = q.to
    BY <1>1, <1>5, <1>6, <1>10, SameItem
  <2> QED BY <1>1, <1>2, <1>3, <1>4, <1>10, <2>1 DEF Settled
<1>11. CASE q.kind = "move"
  <2>1. agendaShown'[i] = q.to.at
    BY <1>3, <1>6, <1>11 DEF Underway
  <2>2. CASE i \in Sections
    <3>1. /\ agendaKnown'[i].text = q.to.text /\ Agenda!Written(q).text = q.to.text
      BY <1>2, <1>5, <1>6, <1>11, <2>2 DEF Underway
    <3>2. Agenda!Written(q) = q.to
      BY <1>1, <1>5, <1>11, <2>2, <3>1, SameItem
    <3>3. agendaKnown'[i] = q.to
      BY <1>1, <1>2, <1>11, <3>1, SameItem
    <3> QED BY <1>1, <1>4, <2>1, <3>2, <3>3 DEF Settled
  <2>3. CASE i \notin Sections
    BY <1>1, <1>2, <1>4, <1>5, <1>11, <2>1, <2>3 DEF Settled
  <2> QED BY <2>2, <2>3
<1> QED BY <1>1, <1>7, <1>8, <1>9, <1>10, <1>11 DEF Agenda!Kinds

LEMMA SucceedsKeeps ==
  ASSUME AgendaInv, NEW q \in agendaRequests, Agenda!Carried(q), NEW i \in Agenda!Items, i = q.item,
         agendaRequests' = agendaRequests \ {q},
         agendaServer' = [agendaServer EXCEPT ![q.item] = Agenda!Written(q)],
         Agenda!Learns(q), Agenda!Shows(q),
         UNCHANGED <<agendaLoading, agendaFound, agendaDialog, agendaMoves, agendaTangled>>
  PROVE  AgendaInv'
<1>1. /\ agendaServer' \in [Agenda!Items -> Agenda!Item \cup {None}]
      /\ agendaServer'[i] = Agenda!Written(q)
      /\ \A j \in Agenda!Items : j # i => agendaServer'[j] = agendaServer[j]
      /\ \A s \in Sections : agendaServer'[s] # None
      /\ \A n \in Notes : agendaServer'[n] # None => agendaServer'[n].at # None
  BY WritesWell
<1>2. /\ agendaKnown' \in [Agenda!Items -> Agenda!Item \cup {None}]
      /\ \A j \in Agenda!Items : j # i => agendaKnown'[j] = agendaKnown[j]
      /\ q.kind # "delete" => agendaKnown'[i] # None /\ agendaKnown'[i].at = q.to.at
      /\ q.kind = "delete" => agendaKnown'[i] = None
  BY LearnsFacts
<1>3. /\ agendaShown' \in [Agenda!Items -> Agenda!Place \cup {None}]
      /\ \A j \in Agenda!Items : j # i => agendaShown'[j] = agendaShown[j]
      /\ agendaSidebar' = IF q.kind = "schedule" THEN agendaSidebar \ {i} ELSE agendaSidebar
  BY ShowsFacts
<1>4. /\ q.kind \in {"schedule", "note"} => i \in Sections
      /\ q.kind \in {"save", "delete"} => i \notin Sections
      /\ q.kind \in {"schedule", "move", "save"} => q.to.at # None
      /\ q.kind \in Agenda!Kinds
  BY RequestFacts
<1>5. AgendaType'
  BY <1>1, <1>2, <1>3 DEF AgendaInv, AgendaType
<1>6. AgendaKinds'
  <2>1. i \in Notes /\ q.kind # "delete" => agendaKnown'[i].at # None
    BY <1>2, <1>4, ItemsApart DEF Agenda!Kinds
  <2>2. \A n \in Notes : agendaKnown'[n] # None => agendaKnown'[n].at # None
    BY <1>2, <2>1, ItemsApart DEF AgendaInv, AgendaKinds
  <2>3. \A s \in Sections : agendaKnown[s] # None => agendaKnown'[s] # None
    BY <1>2, <1>4, ItemsApart
  <2> QED BY <1>1, <2>2, <2>3 DEF AgendaInv, AgendaKinds
<1>7. i \notin agendaTangled =>
        /\ \A r \in agendaRequests : r.item = i => r = q
        /\ q.kind = "move" => Underway(q)
        /\ q.kind = "note" => q.to.at = agendaServer[i].at
  BY DEF AgendaInv, AgendaStands, StandsAt
<1>8. ASSUME NEW j \in Agenda!Items PROVE StandsAt(j)'
  <2>1. CASE j # i
    BY <1>1, <1>2, <1>3, <2>1, ItemUntouched DEF AgendaInv, AgendaStands
  <2>2. CASE j = i
    <3> SUFFICES ASSUME i \notin agendaTangled' PROVE StandsAt(i)'
      BY <2>2 DEF StandsAt
    <3>1. Settled(i)'
      BY SucceedsSettles
    <3>2. \A r \in agendaRequests' : r.item # i
      BY <1>7
    <3> QED BY <3>1, <3>2 DEF StandsAt, Stands
  <2> QED BY <2>1, <2>2
<1>9. AgendaSidebar'
  <2>1. ASSUME NEW s \in Sections, s \notin agendaTangled, ~(s = i /\ q.kind = "schedule")
        PROVE  /\ agendaServer'[s].at = None <=> agendaServer[s].at = None
               /\ s \in agendaSidebar' <=> s \in agendaSidebar
    <3>1. CASE s # i
      BY <1>1, <1>3, <3>1, ItemsApart
    <3>2. CASE s = i
      <4>1. /\ q.kind = "note" => agendaServer'[i].at = agendaServer[i].at
            /\ q.kind = "move" => agendaServer'[i].at = q.to.at
        BY <1>1, <3>2, WrittenFacts
      <4>2. q.kind = "move" => agendaServer[i].at # None
        BY <1>7, <2>1, <3>2 DEF Underway
      <4> QED BY <1>3, <1>4, <2>1, <3>2, <4>1, <4>2 DEF Agenda!Kinds
    <3> QED BY <3>1, <3>2
  <2>2. CASE "sidebar" \in agendaLoading
    <3>1. q.kind # "schedule"
      BY <2>2 DEF AgendaInv, AgendaSidebar
    <3> QED BY <1>3, <2>1, <2>2, <3>1 DEF AgendaInv, AgendaSidebar
  <2>3. CASE "sidebar" \notin agendaLoading
    <3>1. ASSUME q.kind = "schedule", i \in Sections
          PROVE  i \notin agendaSidebar' /\ agendaServer'[i].at # None
      BY <1>1, <1>3, <1>4, <3>1, WrittenFacts
    <3> QED BY <2>1, <2>3, <3>1 DEF AgendaInv, AgendaSidebar
  <2> QED BY <2>2, <2>3
<1>10. AgendaOpen'
  <2> SUFFICES ASSUME agendaDialog # None, agendaDialog.item \notin agendaTangled PROVE AgendaOpen'
    BY DEF AgendaOpen
  <2>1. ~Agenda!Busy(agendaDialog.item) /\ agendaDialog.item \in Agenda!Items
    BY DEF AgendaInv, AgendaOpen, AgendaType, AgendaDialogs
  <2>2. agendaDialog.item # i
    BY <2>1 DEF Agenda!Busy
  <2> QED BY <1>1, <1>2, <1>3, <2>1, <2>2 DEF AgendaInv, AgendaOpen, Settled, Agenda!Busy
<1> QED BY <1>5, <1>6, <1>8, <1>9, <1>10 DEF AgendaInv, AgendaStands

LEMMA FailsKeeps ==
  ASSUME AgendaInv, NEW q \in agendaRequests, NEW i \in Agenda!Items, i = q.item,
         agendaRequests' = agendaRequests \ {q}, agendaShown' = Agenda!Reverted(q),
         \/ UNCHANGED <<agendaServer, agendaTangled>>
         \/ /\ Agenda!Carried(q) /\ agendaServer' = [agendaServer EXCEPT ![q.item] = Agenda!Written(q)]
            /\ agendaTangled' = agendaTangled \cup {q.item},
         UNCHANGED <<agendaKnown, agendaSidebar, agendaLoading, agendaFound, agendaDialog, agendaMoves>>
  PROVE  AgendaInv'
<1>1. q.was \in Agenda!Place \cup {None}
  BY RequestFacts
<1>2. /\ agendaShown' \in [Agenda!Items -> Agenda!Place \cup {None}]
      /\ \A j \in Agenda!Items : j # i => agendaShown'[j] = agendaShown[j]
      /\ agendaShown'[i] = IF q.kind = "move" THEN q.was ELSE agendaShown[i]
  BY <1>1 DEF Agenda!Reverted, AgendaInv, AgendaType
<1>3. /\ agendaServer' \in [Agenda!Items -> Agenda!Item \cup {None}]
      /\ \A j \in Agenda!Items : j # i => agendaServer'[j] = agendaServer[j]
      /\ \A s \in Sections : agendaServer'[s] # None
      /\ \A n \in Notes : agendaServer'[n] # None => agendaServer'[n].at # None
  <2>1. CASE agendaServer' = agendaServer
    BY <2>1 DEF AgendaInv, AgendaType, AgendaKinds
  <2>2. CASE agendaServer' # agendaServer
    BY <2>2, WritesWell
  <2> QED BY <2>1, <2>2
<1>4. /\ agendaTangled' \subseteq Agenda!Items
      /\ \/ agendaTangled' = agendaTangled /\ agendaServer' = agendaServer
         \/ agendaTangled' = agendaTangled \cup {i}
  BY DEF AgendaInv, AgendaType
<1>5. AgendaType'
  BY <1>2, <1>3, <1>4 DEF AgendaInv, AgendaType
<1>6. AgendaKinds'
  BY <1>3 DEF AgendaInv, AgendaKinds
<1>7. ASSUME NEW j \in Agenda!Items PROVE StandsAt(j)'
  <2>1. CASE j # i
    BY <1>2, <1>3, <1>4, <2>1, ItemUntouched DEF AgendaInv, AgendaStands
  <2>2. CASE j = i
    <3> SUFFICES ASSUME i \notin agendaTangled' PROVE StandsAt(i)'
      BY <2>2 DEF StandsAt
    <3>1. i \notin agendaTangled /\ agendaServer' = agendaServer
      BY <1>4
    <3>2. /\ \A r \in agendaRequests : r.item = i => r = q
          /\ IF q.kind = "move" THEN Underway(q) ELSE Stands(i)
      BY <3>1 DEF AgendaInv, AgendaStands, StandsAt
    <3>3. \A r \in agendaRequests' : r.item # i
      BY <3>2
    <3>4. CASE q.kind = "move"
      BY <1>2, <3>1, <3>2, <3>3, <3>4 DEF Underway, Settled, Stands, StandsAt
    <3>5. CASE q.kind # "move"
      <4>1. Stands(i)'
        BY <1>2, <3>1, <3>2, <3>5 DEF Settled, Stands, ToCome
      <4> QED BY <3>3, <4>1 DEF StandsAt
    <3> QED BY <3>4, <3>5
  <2> QED BY <2>1, <2>2
<1>8. AgendaSidebar'
  BY <1>3, <1>4, ItemsApart DEF AgendaInv, AgendaSidebar
<1>9. AgendaOpen'
  <2> SUFFICES ASSUME agendaDialog # None, agendaDialog.item \notin agendaTangled' PROVE AgendaOpen'
    BY DEF AgendaOpen
  <2>1. ~Agenda!Busy(agendaDialog.item) /\ agendaDialog.item \in Agenda!Items
        /\ agendaDialog.item \notin agendaTangled
    BY <1>4 DEF AgendaInv, AgendaOpen, AgendaType, AgendaDialogs
  <2>2. agendaDialog.item # i
    BY <2>1 DEF Agenda!Busy
  <2> QED BY <1>2, <1>3, <2>1, <2>2 DEF AgendaInv, AgendaOpen, Settled, Agenda!Busy
<1> QED BY <1>5, <1>6, <1>7, <1>8, <1>9 DEF AgendaInv, AgendaStands

LEMMA AgendaStep ==
  ASSUME AgendaInv, [Agenda!Next]_agendaVars
  PROVE  AgendaInv'
<1>1. CASE UNCHANGED agendaVars
  BY <1>1, AgendaIdle
<1>2. ASSUME NEW i \in Agenda!Items, NEW kind \in Agenda!Kinds, Agenda!Succeeds(i, kind) PROVE AgendaInv'
  BY <1>2, SucceedsKeeps DEF Agenda!Succeeds
<1>3. ASSUME NEW i \in Agenda!Items, NEW kind \in Agenda!Kinds, Agenda!Fails(i, kind) PROVE AgendaInv'
  BY <1>3, FailsKeeps DEF Agenda!Fails
<1> QED BY <1>1, <1>2, <1>3, AgendaLoadKeeps, AgendaEventKeeps, AgendaDialogKeeps
        DEF Agenda!Next, Agenda!Writing

LEMMA AgendaInvImplies == AgendaInv => CalendarIsTrue
<1> SUFFICES ASSUME AgendaInv PROVE CalendarIsTrue
  OBVIOUS
<1>1. Agenda!TypeOK
  <2>1. agendaDialog = None \/ (agendaDialog.item \in Agenda!Items /\ agendaDialog.draft \in Agenda!Item)
    BY DEF AgendaInv, AgendaType, AgendaDialogs
  <2> QED BY <2>1 DEF AgendaInv, AgendaType, Agenda!TypeOK, Agenda!Timetable
<1>2. \A i \in Agenda!Items : Agenda!AtRest(i) => Settled(i)
  BY DEF AgendaInv, AgendaStands, StandsAt, Stands, ToCome, Agenda!AtRest
<1>3. Agenda!ShowsTheSchedule
  BY <1>2 DEF Settled, Agenda!ShowsTheSchedule
<1>4. Agenda!SomewhereOnThePage
  <2> SUFFICES ASSUME NEW s \in Sections, Agenda!AtRest(s)
               PROVE  s \in agendaSidebar <=> agendaShown[s] = None
    BY DEF Agenda!SomewhereOnThePage
  <2>1. Settled(s) /\ agendaServer[s] # None
    BY <1>2, ItemsApart DEF AgendaInv, AgendaKinds
  <2>2. s \in agendaSidebar <=> agendaServer[s].at = None
    BY DEF AgendaInv, AgendaSidebar, Agenda!AtRest
  <2> QED BY <2>1, <2>2 DEF Settled
<1> QED BY <1>1, <1>3, <1>4 DEF CalendarIsTrue

\* Whatever was dropped, dragged, edited or refused, an event stands where it is
\* saved, and a section waits in the sidebar or stands on the calendar, once the page
\* has loaded and no write of it is under way: unless two of its writes met, or a
\* write and a load that brought it, or the answer to a write was lost.
THEOREM EventsStandWhereSaved == ScreensSpec => []CalendarIsTrue
<1>1. ScreensInit => AgendaInv
  BY AgendaInitInv DEF ScreensInit
<1>2. AgendaInv /\ [ScreensNext]_screensVars => AgendaInv'
  BY StepOfEach, AgendaStep
<1> QED BY <1>1, <1>2, AgendaInvImplies, PTL DEF ScreensSpec
=============================================================================
