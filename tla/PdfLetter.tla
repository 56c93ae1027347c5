------------------------------ MODULE PdfLetter ------------------------------
(***************************************************************************)
(* The pages of a quote, an invoice and a payment reminder: a writer with  *)
(* a cursor that goes down the page, flowing text that breaks it, blocks   *)
(* placed by hand, and the payment slip that takes the bottom of a page.   *)
(* How long a text is, how many sections and lines there are, is left      *)
(* open: every step may go on or pass to the next.                         *)
(*                                                                         *)
(* Lengths are in hundredths of a point, heights from the bottom edge.     *)
(***************************************************************************)
EXTENDS Integers

CONSTANTS
    Kinds,         \* of document, in {"quote", "invoice", "reminder"}
    MaxAddress,    \* bound: lines of the recipient's address, wrapped ones included
    MaxConditions  \* bound: lines of the block at the bottom, which fits on a page

VARIABLES
    kind,     \* what is being printed
    header,   \* whether the company has a header image
    at,       \* the step the templates have come to
    cursor,   \* cursorY
    mark,     \* the lowest line printed on this page
    onSlip,   \* the page holds the payment slip
    fresh,    \* for the properties: the last step began a page
    split     \* the block being kept together has been broken

vars == <<kind, header, at, cursor, mark, onSlip, fresh, split>>

P(points) == 100 * points
PageHeight == 84189
Margin == P(50)
SlipHeight == 29764           \* 105 mm
Limit == IF kind = "reminder" THEN Margin ELSE P(64)

LowerOf(x, y) == IF x < y THEN x ELSE y

Steps == {"name", "logo", "address", "introduction", "introducing", "title", "reference", "positions",
          "sums", "total", "totalled", "early", "closing", "conclusion", "approval", "approved",
          "bottom", "headed", "conditions", "heading", "details", "titling", "section", "header",
          "ruled", "rows", "totalling", "letter", "body", "slip", "done"}

TypeOK ==
    /\ kind \in Kinds /\ header \in BOOLEAN /\ at.step \in Steps
    /\ at.detailed \in BOOLEAN /\ at.left \in 0..MaxConditions
    /\ cursor \in Int /\ mark \in 0..PageHeight
    /\ {onSlip, fresh, split} \subseteq BOOLEAN

-----------------------------------------------------------------------------
(* The writer.  A page is what has been printed on it last, and the cursor.*)

Page == [cursor |-> cursor, mark |-> mark, broken |-> FALSE]

\* newPage: what setUpLetterPages draws on each lowers the cursor.
NewPage ==
    [cursor |-> PageHeight - Margin - (IF header /\ kind # "reminder" THEN P(25) ELSE 0),
     mark |-> PageHeight, broken |-> TRUE]

Down(page, distance) == [page EXCEPT !.cursor = @ - distance]
LowerTo(page, y) == [page EXCEPT !.cursor = LowerOf(@, y)]
Marked(page, y) == [page EXCEPT !.mark = y]

EnsureSpace(page) == IF page.cursor < Limit THEN NewPage ELSE page

\* A slip: only what is already too low starts a new page.
ReservesNothing(page, height) == IF page.cursor < Limit THEN NewPage ELSE page

Reserve(page, height) == IF page.cursor - height < Limit THEN NewPage ELSE page

\* One line of text(), and what it takes.
Text(page, size) ==
    LET on == EnsureSpace(page) IN Down(Marked(on, on.cursor), P(size + 4))

Row(page, size, height) ==
    LET on == Reserve(page, P(height)) IN Down(Marked(on, on.cursor - P(size)), P(height))

\* What a step printed, and where the templates go next.
Prints(page) ==
    /\ cursor' = page.cursor /\ mark' = page.mark /\ fresh' = page.broken
    /\ UNCHANGED <<kind, header, onSlip>>

Goes(step, page) ==
    /\ at' = [at EXCEPT !.step = step]
    /\ Prints(page) /\ split' = (split \/ page.broken)

\* The block that begins here is to stay on one page.
Starts(step, page) ==
    /\ at' = [at EXCEPT !.step = step]
    /\ Prints(page) /\ split' = FALSE

-----------------------------------------------------------------------------
(* Page 1. *)

Init ==
    /\ kind \in Kinds /\ header \in BOOLEAN
    /\ at = [step |-> IF kind = "reminder" THEN "letter" ELSE "name",
             detailed |-> FALSE, left |-> 0]
    /\ cursor = PageHeight - Margin - (IF header /\ kind # "reminder" THEN P(25) ELSE 0)
    /\ mark = PageHeight /\ onSlip = FALSE /\ fresh = TRUE /\ split = FALSE

At(step) == at.step = step

CompanyName ==
    /\ At("name")
    /\ Goes("logo", IF header THEN Page ELSE Down(Text(Page, 14), P(6)))

Logo ==
    /\ At("logo")
    /\ \E height \in {0, 60} :
         Goes("address", IF height = 0 THEN Page ELSE LowerTo(Page, cursor - P(height + 10)))

\* The address is drawn from its top down, next to the place and the date.
AddressBlock ==
    /\ At("address")
    /\ \E n \in 1..MaxAddress :
         LET top  == cursor - P(10)
             rows == IF n < 3 THEN 3 ELSE n
         IN Goes("introduction",
                 LowerTo(Marked(Page, top - P(16 * (rows - 1))), top - P(16 * rows + 20)))

\* The last line of a text is followed by its marginBottom.
Introduction ==
    /\ At("introduction") \/ At("introducing")
    /\ \/ Goes("introducing", Text(Page, 11))
       \/ Goes("title", Down(Text(Page, 11), P(14)))

NoIntroduction == At("introduction") /\ Goes("title", Page)

\* The title and the line under it are drawn by hand.
Title ==
    /\ At("title")
    /\ LET on == Reserve(Page, P(44))
       IN Goes("reference", Down(Marked(on, on.cursor - P(14)), P(30)))

Reference ==
    /\ At("reference")
    /\ \/ Goes("reference", Down(Text(Page, 10), P(2)))
       \/ Goes("positions", Down(Page, P(10)))

Position ==
    /\ At("positions")
    /\ \/ Goes("positions", Row(Page, 10, 18))
       \/ Goes("sums", Down(Page, P(8)))

-----------------------------------------------------------------------------
(* The totals, on page 1 and again after the details. *)

Sum == At("sums") /\ Goes("sums", Row(Page, 10, 18))

\* Between two rules, which go where the total goes.
TotalRule ==
    /\ At("sums")
    /\ Starts("total", Down(Reserve(Page, P(36)), P(4)))

Total == At("total") /\ Goes("totalled", Row(Page, 14, 24))

EarlyPayment ==
    /\ At("totalled") /\ kind = "invoice" /\ ~at.detailed
    /\ Goes("early", Row(Down(Page, P(6)), 11, 18))

Totalled ==
    /\ At("totalled") \/ At("early")
    /\ Goes(IF at.detailed THEN "slip" ELSE "closing", Down(Page, P(10)))

Conclusion ==
    /\ At("closing") \/ At("conclusion")
    /\ LET on == Text(IF At("closing") THEN Down(Page, P(6)) ELSE Page, 11)
       IN \/ Goes("conclusion", on)
          \/ Goes("approval", Down(on, P(16)))

NoConclusion == At("closing") /\ Goes("approval", Page)

\* drawApproval: a quote's, its label and the two lines to sign on, in the height
\* reserved for them.
Approval ==
    /\ At("approval") /\ kind = "quote"
    /\ LET on    == Reserve(Page, P(70))
           label == Text(Down(on, P(10)), 10)
       IN /\ at' = [at EXCEPT !.step = "approved"]
          /\ Prints(Down(label, P(22)))
          /\ split' = (label.mark # on.cursor - P(10))

SignatureLines ==
    /\ At("approved")
    /\ Goes("bottom", LowerTo(Marked(Page, cursor), cursor - P(15)))

NoApproval == At("approval") /\ kind # "quote" /\ Goes("bottom", Page)

\* The block at the bottom of the page, its heading and n lines.
Height(n) == P(14 + 4 + 14 * n)
BottomTop(n) == P(62) + Height(n)

Anchored(n) ==
    IF cursor - P(10) > BottomTop(n) THEN [Page EXCEPT !.cursor = BottomTop(n)]
    ELSE Reserve(Page, Height(n))

BottomBlock ==
    /\ At("bottom")
    /\ \E n \in 1..MaxConditions :
         LET on == Anchored(n)
         IN /\ at' = [at EXCEPT !.step = "headed", !.left = n]
            /\ Prints(on) /\ split' = FALSE

Heading == At("headed") /\ Goes("conditions", Down(Text(Page, 10), P(4)))

Condition ==
    /\ At("conditions") /\ at.left > 0
    /\ LET on == Text(Page, 10)
       IN /\ at' = [at EXCEPT !.left = @ - 1]
          /\ Prints(on) /\ split' = (split \/ on.broken)

-----------------------------------------------------------------------------
(* The details: always a new page. *)

\* Its heading, of one line or several.
Details ==
    /\ At("bottom") \/ (At("conditions") /\ at.left = 0) \/ At("heading")
    /\ LET on == Text(IF At("heading") THEN Page ELSE NewPage, 11)
       IN \/ /\ at' = [at EXCEPT !.step = "heading", !.detailed = TRUE]
             /\ Prints(on) /\ split' = FALSE
          \/ /\ at' = [at EXCEPT !.step = "details", !.detailed = TRUE]
             /\ Prints(Down(on, P(15))) /\ split' = FALSE

\* A section after another comes a little lower.
SectionTitle ==
    /\ At("details") \/ At("titling")
    /\ \E gap \in IF At("titling") THEN {0} ELSE {10, 22} :
         LET on == Text(Down(Page, P(gap)), 12)
         IN \/ Goes("titling", on)
            \/ Goes("section", Down(on, P(2)))
            \/ Goes("header", Down(on, P(4)))

Description ==
    /\ At("section")
    /\ \/ Goes("section", Text(Page, 10))
       \/ Goes("header", Down(Text(Page, 10), P(4)))

TableHeader ==
    /\ At("header")
    /\ LET on == EnsureSpace(Page)
       IN Goes("ruled", Down(Marked(on, on.cursor), P(16)))

TableRule == At("ruled") /\ Goes("rows", Down(EnsureSpace(Page), P(16)))

TableRow ==
    /\ At("rows")
    /\ LET on == EnsureSpace(Page)
       IN Goes("rows", Down(Marked(on, on.cursor), P(16)))

SectionTotal ==
    /\ At("rows") \/ At("totalling")
    /\ LET on == Text(IF At("rows") THEN Down(Page, P(4)) ELSE Page, 11)
       IN Goes("totalling", on) \/ Goes("details", on)

DetailsEnd == At("details") /\ Goes("sums", Down(Page, P(16)))

-----------------------------------------------------------------------------
(* A payment reminder: one letter, its texts one under the other. *)

LetterHead ==
    /\ At("letter")
    /\ \E margin \in {0, 10, 15, 20, 25} : Goes("letter", Down(Text(Page, 11), P(margin)))

LetterTitle == At("letter") /\ Goes("body", Down(Text(Page, 13), P(15)))

LetterBody ==
    /\ At("body")
    /\ \/ Goes("body", Text(Page, 11))
       \/ Goes("slip", Text(Down(Page, P(25)), 11))

-----------------------------------------------------------------------------
(* The payment slip. *)

SharesPage == kind = "invoice" /\ cursor >= SlipHeight + P(20)

Slip ==
    /\ At("slip")
    /\ LET on == IF kind = "quote" \/ SharesPage THEN Page ELSE NewPage
       IN /\ cursor' = on.cursor /\ mark' = on.mark /\ fresh' = on.broken
          /\ at' = [at EXCEPT !.step = "done"] /\ onSlip' = (kind # "quote")
          /\ UNCHANGED <<kind, header, split>>

Done == At("done") /\ UNCHANGED vars

Next ==
    \/ CompanyName \/ Logo \/ AddressBlock \/ Introduction \/ NoIntroduction \/ Title \/ Reference \/ Position
    \/ Sum \/ TotalRule \/ Total \/ EarlyPayment \/ Totalled
    \/ Conclusion \/ NoConclusion \/ Approval \/ SignatureLines \/ NoApproval
    \/ BottomBlock \/ Heading \/ Condition
    \/ Details \/ SectionTitle \/ Description \/ TableHeader \/ TableRule \/ TableRow
    \/ SectionTotal \/ DetailsEnd
    \/ LetterHead \/ LetterTitle \/ LetterBody
    \/ Slip \/ Done

Spec == Init /\ [][Next]_vars
-----------------------------------------------------------------------------
(* What the pages look like. *)

\* Nothing is printed on the footer, whatever is flowing, reserved or placed by
\* hand before it.
ClearOfTheFooter == mark >= Limit

\* Nothing is printed over what is there: unless a page was begun, a line is lower
\* than the one before by a line's height, the block at the bottom included.
NeverDrawnOver ==
    [][mark' # mark /\ ~fresh' => mark' <= mark - P(14)]_vars

\* The total is between its rules, the lines to sign on are under their label, the
\* conditions stay under their heading.
KeptTogether ==
    At("totalled") \/ At("approved") \/ At("conditions") => ~split

\* The slip has the bottom of its page to itself.
SlipIsClear == onSlip => mark >= SlipHeight
=============================================================================
