------------------------ MODULE SalesInvoice_proofs ------------------------
(***************************************************************************)
(* Credit Notes never exceed the sale, the books agree with the documents,  *)
(* and no unit is refunded that was not paid for, for any number of         *)
(* documents, requests and quantities, when two requests never change one   *)
(* document at the same time and settled documents are not cancelled.  The  *)
(* argument: a request still finds what it has seen, but for what is owed   *)
(* on a submitted invoice; and every paid invoice and every Credit Note of  *)
(* one stands for a part of the units paid for (Worth), which the handlers  *)
(* move between the two but never make more of.                            *)
(***************************************************************************)
EXTENDS SalesInvoice, FiniteSums

\* The quantities of the Credit Notes of an invoice: those that count against it, those
\* that were submitted, and those that take something of what was paid for it.
IsNote(n, d) == row[n].against = d
Live(n)   == row[n].st \in {"Draft", "Submitted"}
Booked(n) == row[n].st = "Submitted"
Taking(n) == row[n].st = "Submitted" \/ (row[n].st = "Draft" /\ row[n].refund # "Credit Available")

LiveAt(n, d)   == IF IsNote(n, d) /\ Live(n) THEN row[n].qty ELSE 0
BookedAt(n, d) == IF IsNote(n, d) /\ Booked(n) THEN row[n].qty ELSE 0
TakenAt(n, d)  == IF IsNote(n, d) /\ Taking(n) THEN row[n].qty ELSE 0

LivePart(d)   == [n \in Docs |-> LiveAt(n, d)]
BookedPart(d) == [n \in Docs |-> BookedAt(n, d)]
TakenPart(d)  == [n \in Docs |-> TakenAt(n, d)]

Credited(d) == SumOver(LivePart(d), Docs)
InBooks(d)  == SumOver(BookedPart(d), Docs)
Taken(d)    == SumOver(TakenPart(d), Docs)

\* What a document stands for of the units paid for: a paid invoice what its Credit Notes
\* leave, a Credit Note of a paid invoice what it pays back.
WorthOf(d) ==
  IF row[d].paid THEN row[d].qty - Taken(d)
  ELSE IF row[d].refund \in {"Pending Refund", "Refunded"} /\ Live(d) THEN row[d].qty ELSE 0
Worth == [d \in Docs |-> WorthOf(d)]

Typed ==
  /\ row \in [Docs -> Rows] /\ posted \in [Docs -> Nat] /\ refunds \in [Docs -> Nat]
  /\ awards \in [Docs -> Nat] /\ paidUnits \in Nat

\* What a row can be.
RowOK(d) ==
  LET r == row[d] IN
  /\ r.st \in {"none", "deleted"} => ~IsReturn(r)
  /\ r.paid => r.st = "Submitted" /\ ~IsReturn(r)
  /\ r.st = "Draft" /\ ~IsReturn(r) => r.outstanding = r.qty
  /\ ~IsReturn(r) => r.refund = "Not Applicable"
  /\ r.refund = "Refunded" => r.st = "Submitted"

\* What a Credit Note can be, and the invoice it was made against.
NoteOK(n) ==
  LET r == row[n]
      s == row[r.against] IN
  IsReturn(r) => /\ r.against \in Docs /\ ~IsReturn(s) /\ s.st \in {"Submitted", "Cancelled"}
                 /\ r.refund # "Not Applicable"
                 /\ r.refund # "Credit Available" => s.paid
                 /\ r.refund = "Credit Available" => r.st # "Cancelled"

AmountsOK(d) ==
  LET r == row[d] IN
  /\ ~IsReturn(r) => Credited(d) <= r.qty
  /\ r.st = "Submitted" /\ ~IsReturn(r) => r.outstanding = IF r.paid THEN 0 ELSE r.qty - InBooks(d)
  /\ posted[d] = IF r.st \in {"Submitted", "Cancelled"} THEN 1 ELSE 0
  /\ refunds[d] = IF r.refund = "Refunded" THEN 1 ELSE 0
  /\ awards[d] <= 1

DocOK(d) == RowOK(d) /\ NoteOK(d) /\ AmountsOK(d)

DocsOK == Typed /\ \A d \in Docs : DocOK(d)

UnitsOK == SumOver(Worth, Docs) <= paidUnits

\* What a request has seen is still so, but for what is owed on a submitted invoice.
Requests == [op : Ops, doc : Docs, seen : Rows, left : 0..MaxQty, award : Nat]

SameCore(r, s) ==
  r.st = s.st /\ r.against = s.against /\ r.qty = s.qty /\ r.paid = s.paid /\ r.refund = s.refund

Seen(q) ==
  LET r == row[q.doc] IN
  /\ SameCore(q.seen, r) /\ r.st \in {"Draft", "Submitted", "Cancelled"}
  /\ r.st = "Draft" => q.seen.outstanding = r.outstanding
  /\ q.award = awards[q.doc]
  /\ q.op \in {"submit", "update"} => r.st = "Draft"
  /\ q.op \in {"award", "cancel", "return", "paid", "refund"} => r.st = "Submitted"
  /\ q.op \in {"award", "update", "return", "paid"} => ~IsReturn(r)
  /\ q.op = "cancel" => ~Settled(r)
  /\ q.op = "return" => q.left <= r.qty - Credited(q.doc)
  /\ q.op = "refund" => IsReturn(r) /\ r.refund = "Pending Refund"

ReqTyped == req \in [Clients -> Requests \cup {None}]

ReqOK(c) == req[c] # None => req[c] \in Requests /\ Seen(req[c])

AloneOK == \A c, e \in Clients : c # e /\ req[c] # None /\ req[e] # None => req[c].doc # req[e].doc

ReqsOK == ReqTyped /\ AloneOK /\ \A c \in Clients : ReqOK(c)

IInv == DocsOK /\ UnitsOK /\ ReqsOK

----------------------------------------------------------------------------
(* The sums of the Credit Notes *)

LEMMA RowFields ==
  Typed => \A d \in Docs :
         /\ row[d] \in Rows /\ row[d].qty \in 0..MaxQty /\ row[d].outstanding \in 0..MaxQty
         /\ row[d].against \in Docs \cup {None} /\ row[d].paid \in BOOLEAN
         /\ row[d].st \in {"none", "Draft", "Submitted", "Cancelled", "deleted"}
         /\ row[d].refund \in {"Not Applicable", "Credit Available", "Pending Refund", "Refunded"}
         /\ row[d].qty \in Nat
  <1> SUFFICES ASSUME Typed, NEW d \in Docs
               PROVE  /\ row[d] \in Rows /\ row[d].qty \in 0..MaxQty /\ row[d].outstanding \in 0..MaxQty
                      /\ row[d].against \in Docs \cup {None} /\ row[d].paid \in BOOLEAN
                      /\ row[d].st \in {"none", "Draft", "Submitted", "Cancelled", "deleted"}
                      /\ row[d].refund \in {"Not Applicable", "Credit Available", "Pending Refund", "Refunded"}
                      /\ row[d].qty \in Nat
    OBVIOUS
  <1>1. row[d] \in Rows
    BY DEF Typed
  <1>2. /\ row[d].qty \in 0..MaxQty /\ row[d].outstanding \in 0..MaxQty
        /\ row[d].against \in Docs \cup {None} /\ row[d].paid \in BOOLEAN
        /\ row[d].st \in {"none", "Draft", "Submitted", "Cancelled", "deleted"}
        /\ row[d].refund \in {"Not Applicable", "Credit Available", "Pending Refund", "Refunded"}
    BY <1>1 DEF Rows
  <1>3. row[d].qty \in Nat
    <2>1. MaxQty \in Nat
      BY InvoiceAssumption
    <2>2. row[d].qty \in 0..MaxQty
      BY <1>2
    <2> QED BY <2>1, <2>2
  <1> QED BY <1>1, <1>2, <1>3

LEMMA PartTypes ==
  Typed => \A n, d \in Docs :
    /\ LiveAt(n, d) \in Nat /\ BookedAt(n, d) \in Nat /\ TakenAt(n, d) \in Nat
    /\ BookedAt(n, d) <= LiveAt(n, d) /\ TakenAt(n, d) <= LiveAt(n, d)
  <1> SUFFICES ASSUME Typed, NEW n \in Docs, NEW d \in Docs
               PROVE  /\ LiveAt(n, d) \in Nat /\ BookedAt(n, d) \in Nat /\ TakenAt(n, d) \in Nat
                      /\ BookedAt(n, d) <= LiveAt(n, d) /\ TakenAt(n, d) <= LiveAt(n, d)
    OBVIOUS
  <1>1. row[n].qty \in Nat
    BY RowFields
  <1>2. LiveAt(n, d) \in Nat
    BY <1>1 DEF LiveAt
  <1>3. BookedAt(n, d) \in Nat
    BY <1>1 DEF BookedAt
  <1>4. TakenAt(n, d) \in Nat
    BY <1>1 DEF TakenAt
  <1>5. BookedAt(n, d) \in {0, LiveAt(n, d)}
    BY DEF BookedAt, LiveAt, Booked, Live
  <1>6. TakenAt(n, d) \in {0, LiveAt(n, d)}
    BY DEF TakenAt, LiveAt, Taking, Live
  <1>7. BookedAt(n, d) <= LiveAt(n, d) /\ TakenAt(n, d) <= LiveAt(n, d)
    BY <1>2, <1>5, <1>6
  <1> QED BY <1>2, <1>3, <1>4, <1>7

LEMMA SumTypes ==
  ASSUME Typed, NEW d \in Docs
  PROVE  /\ Credited(d) \in Nat /\ InBooks(d) \in Nat /\ Taken(d) \in Nat
         /\ InBooks(d) <= Credited(d) /\ Taken(d) <= Credited(d)
         /\ Ints(LivePart(d), Docs) /\ Ints(BookedPart(d), Docs) /\ Ints(TakenPart(d), Docs)
  <1>1. \A n \in Docs : /\ LivePart(d)[n] \in Nat /\ BookedPart(d)[n] \in Nat /\ TakenPart(d)[n] \in Nat
                        /\ BookedPart(d)[n] <= LivePart(d)[n] /\ TakenPart(d)[n] <= LivePart(d)[n]
    BY PartTypes DEF LivePart, BookedPart, TakenPart
  <1>2. Ints(LivePart(d), Docs) /\ Ints(BookedPart(d), Docs) /\ Ints(TakenPart(d), Docs)
    BY <1>1 DEF Ints
  <1>3. Credited(d) \in Nat /\ InBooks(d) \in Nat /\ Taken(d) \in Nat
    BY <1>1, SumNat, InvoiceAssumption DEF Credited, InBooks, Taken
  <1>4. InBooks(d) <= Credited(d) /\ Taken(d) <= Credited(d)
    BY <1>1, <1>2, SumLeq, InvoiceAssumption DEF Credited, InBooks, Taken
  <1> QED BY <1>2, <1>3, <1>4

LEMMA NoNotes ==
  ASSUME Typed, NEW d \in Docs, \A n \in Docs : ~IsNote(n, d)
  PROVE  Credited(d) = 0 /\ InBooks(d) = 0 /\ Taken(d) = 0
  <1>1. \A n \in Docs : LivePart(d)[n] = 0 /\ BookedPart(d)[n] = 0 /\ TakenPart(d)[n] = 0
    BY DEF LivePart, BookedPart, TakenPart, LiveAt, BookedAt, TakenAt
  <1> QED BY <1>1, SumZero, InvoiceAssumption DEF Credited, InBooks, Taken

\* A draft is not in the books yet.
LEMMA DraftFits ==
  ASSUME Typed, NEW d \in Docs, NEW n \in Docs, IsNote(n, d), row[n].st = "Draft"
  PROVE  InBooks(d) + row[n].qty <= Credited(d)
  <1> DEFINE h == [m \in Docs |-> IF m = n THEN row[n].qty ELSE BookedPart(d)[m]]
  <1>1. /\ BookedPart(d)[n] = 0 /\ LivePart(d)[n] = row[n].qty /\ row[n].qty \in Nat
        /\ \A m \in Docs : BookedPart(d)[m] \in Int /\ LivePart(d)[m] \in Int /\ BookedPart(d)[m] <= LivePart(d)[m]
    <2>1. BookedAt(n, d) = 0 /\ LiveAt(n, d) = row[n].qty
      BY DEF BookedAt, LiveAt, Booked, Live
    <2>2. row[n].qty \in Nat
      BY RowFields
    <2>3. \A m \in Docs : BookedAt(m, d) \in Nat /\ LiveAt(m, d) \in Nat /\ BookedAt(m, d) <= LiveAt(m, d)
      BY PartTypes
    <2> QED BY <2>1, <2>2, <2>3 DEF BookedPart, LivePart
  <1>2. /\ Ints(h, Docs) /\ h[n] = row[n].qty /\ \A m \in Docs \ {n} : h[m] = BookedPart(d)[m]
        /\ \A m \in Docs : h[m] <= LivePart(d)[m]
    BY <1>1 DEF Ints
  <1> HIDE DEF h
  <1>3. SumOver(h, Docs) = InBooks(d) - 0 + row[n].qty
    BY <1>1, <1>2, SumTypes, SumChange, InvoiceAssumption DEF InBooks
  <1>4. SumOver(h, Docs) <= Credited(d)
    BY <1>2, SumTypes, SumLeq, InvoiceAssumption DEF Credited
  <1> QED BY <1>1, <1>3, <1>4, SumTypes

\* Of an unpaid invoice nothing is taken but by the credits in the books.
LEMMA UnpaidTaken ==
  ASSUME DocsOK, NEW d \in Docs, ~row[d].paid
  PROVE  Taken(d) = InBooks(d)
  <1>1. \A n \in Docs : TakenAt(n, d) = BookedAt(n, d)
    BY InvoiceAssumption DEF DocsOK, DocOK, NoteOK, IsReturn, IsNote, TakenAt, BookedAt, Taking, Booked
  <1> QED BY <1>1 DEF Taken, InBooks, TakenPart, BookedPart

\* The sums of the model are these.
LEMMA SumsAre ==
  ASSUME Typed, NEW d \in Docs
  PROVE  /\ Sum({n \in Notes(d) : row[n].st \in {"Draft", "Submitted"}}) = Credited(d)
         /\ Sum({n \in Notes(d) : row[n].st = "Submitted"}) = InBooks(d)
         /\ Left(d) = row[d].qty - Credited(d)
  <1>1. Ints(Qty, Docs)
    <2>1. \A n \in Docs : row[n].qty \in Nat
      BY RowFields
    <2> QED BY <2>1 DEF Ints, Qty
  <1>2. ASSUME NEW T \in SUBSET Docs PROVE Sum(T) = SumOver(Qty, T)
    BY DEF Sum, SumOver
  <1> DEFINE L == {n \in Notes(d) : row[n].st \in {"Draft", "Submitted"}}
             B == {n \in Notes(d) : row[n].st = "Submitted"}
  <1>3. L \in SUBSET Docs /\ B \in SUBSET Docs
    BY DEF Notes
  <1>4. Filters(LivePart(d), Qty, L, Docs)
    BY DEF Filters, LivePart, LiveAt, Qty, Notes, IsNote, Live
  <1>5. Filters(BookedPart(d), Qty, B, Docs)
    BY DEF Filters, BookedPart, BookedAt, Qty, Notes, IsNote, Booked
  <1> HIDE DEF L, B
  <1>6. Sum(L) = Credited(d) /\ Sum(B) = InBooks(d)
    BY <1>1, <1>2, <1>3, <1>4, <1>5, SumFilter, InvoiceAssumption DEF Credited, InBooks
  <1> QED BY <1>6 DEF L, B, Left

----------------------------------------------------------------------------
(* What a step leaves alone *)

LEMMA PartTypesNext ==
  Typed' => (\A n, d \in Docs :
    /\ LiveAt(n, d) \in Nat /\ BookedAt(n, d) \in Nat /\ TakenAt(n, d) \in Nat
    /\ BookedAt(n, d) <= LiveAt(n, d) /\ TakenAt(n, d) <= LiveAt(n, d))'
  BY PartTypes, PTL

\* The sums when only one Credit Note changes in what they are made of.
LEMMA SumsStep ==
  ASSUME Typed, Typed', NEW x \in Docs, NEW d \in Docs,
         \A y \in Docs \ {x} : SameCore(row'[y], row[y])
  PROVE  /\ Credited(d)' = Credited(d) - LiveAt(x, d) + LiveAt(x, d)'
         /\ InBooks(d)' = InBooks(d) - BookedAt(x, d) + BookedAt(x, d)'
         /\ Taken(d)' = Taken(d) - TakenAt(x, d) + TakenAt(x, d)'
  <1>1. /\ Ints(LivePart(d), Docs) /\ Ints(BookedPart(d), Docs) /\ Ints(TakenPart(d), Docs)
    BY SumTypes
  <1>2. /\ LivePart(d)[x] = LiveAt(x, d) /\ BookedPart(d)[x] = BookedAt(x, d) /\ TakenPart(d)[x] = TakenAt(x, d)
        /\ LivePart(d)'[x] = LiveAt(x, d)' /\ BookedPart(d)'[x] = BookedAt(x, d)'
        /\ TakenPart(d)'[x] = TakenAt(x, d)'
    BY DEF LivePart, BookedPart, TakenPart
  <1>3. LiveAt(x, d)' \in Nat /\ BookedAt(x, d)' \in Nat /\ TakenAt(x, d)' \in Nat
    BY PartTypesNext
  <1>4. \A y \in Docs \ {x} : /\ LivePart(d)'[y] = LivePart(d)[y] /\ BookedPart(d)'[y] = BookedPart(d)[y]
                              /\ TakenPart(d)'[y] = TakenPart(d)[y]
    BY DEF LivePart, BookedPart, TakenPart, LiveAt, BookedAt, TakenAt, IsNote, Live, Booked, Taking, SameCore
  <1>5. SumOver(LivePart(d)', Docs) = SumOver(LivePart(d), Docs) - LiveAt(x, d) + LiveAt(x, d)'
    BY <1>1, <1>2, <1>3, <1>4, SumChange, InvoiceAssumption
  <1>6. SumOver(BookedPart(d)', Docs) = SumOver(BookedPart(d), Docs) - BookedAt(x, d) + BookedAt(x, d)'
    BY <1>1, <1>2, <1>3, <1>4, SumChange, InvoiceAssumption
  <1>7. SumOver(TakenPart(d)', Docs) = SumOver(TakenPart(d), Docs) - TakenAt(x, d) + TakenAt(x, d)'
    BY <1>1, <1>2, <1>3, <1>4, SumChange, InvoiceAssumption
  <1> QED BY <1>5, <1>6, <1>7 DEF Credited, InBooks, Taken

\* A step writes one document and at most what is owed on another.
Others(x) ==
  \A y \in Docs \ {x} : /\ SameCore(row'[y], row[y])
                        /\ posted'[y] = posted[y] /\ refunds'[y] = refunds[y] /\ awards'[y] = awards[y]
Calm(y) == row'[y].outstanding = row[y].outstanding
Credits(x, d) == row[x].against = d \/ row'[x].against = d

LEMMA SumsFar ==
  ASSUME Typed, Typed', NEW x \in Docs, Others(x), NEW d \in Docs, ~Credits(x, d)
  PROVE  Credited(d)' = Credited(d) /\ InBooks(d)' = InBooks(d) /\ Taken(d)' = Taken(d)
  <1>1. /\ LiveAt(x, d) = 0 /\ BookedAt(x, d) = 0 /\ TakenAt(x, d) = 0
        /\ LiveAt(x, d)' = 0 /\ BookedAt(x, d)' = 0 /\ TakenAt(x, d)' = 0
    BY DEF Credits, LiveAt, BookedAt, TakenAt, IsNote
  <1>2. \A y \in Docs \ {x} : SameCore(row'[y], row[y])
    BY DEF Others
  <1>3. Credited(d) \in Nat /\ InBooks(d) \in Nat /\ Taken(d) \in Nat
    BY SumTypes
  <1> QED BY <1>1, <1>2, <1>3, SumsStep

\* What is left to show for a step that writes the document x.
LEMMA DocsStep ==
  ASSUME DocsOK, Typed', NEW x \in Docs, Others(x), DocOK(x)',
         \A d \in Docs \ {x} : Credits(x, d) => AmountsOK(d)',
         \A n \in Docs \ {x} : IsNote(n, x) => NoteOK(n)',
         \A d \in Docs \ {x} : ~Credits(x, d) \/ row[d].st = "Draft" => Calm(d)
  PROVE  DocsOK'
  <1>0. Typed
    BY DEF DocsOK
  <1> SUFFICES ASSUME NEW y \in Docs \ {x} PROVE DocOK(y)'
    BY DEF DocsOK
  <1>1. SameCore(row'[y], row[y])
    BY DEF Others
  <1>2. RowOK(y) /\ NoteOK(y) /\ AmountsOK(y)
    BY DEF DocsOK, DocOK
  <1>3. RowOK(y)'
    BY <1>1, <1>2 DEF RowOK, SameCore, IsReturn, Calm
  <1>4. NoteOK(y)'
    <2>1. CASE IsNote(y, x)
      BY <2>1
    <2>2. CASE ~IsNote(y, x)
      <3>1. CASE IsReturn(row[y])
        <4>1. row[y].against \in Docs \ {x}
          BY <2>2, <3>1, <1>2 DEF NoteOK, IsNote
        <4>2. SameCore(row'[row[y].against], row[row[y].against])
          BY <4>1 DEF Others
        <4> QED BY <1>1, <1>2, <4>1, <4>2 DEF NoteOK, SameCore, IsReturn
      <3>2. CASE ~IsReturn(row[y])
        BY <1>1, <3>2 DEF NoteOK, SameCore, IsReturn
      <3> QED BY <3>1, <3>2
    <2> QED BY <2>1, <2>2
  <1>5. AmountsOK(y)'
    <2>1. CASE Credits(x, y)
      BY <2>1
    <2>2. CASE ~Credits(x, y)
      <3>1. Credited(y)' = Credited(y) /\ InBooks(y)' = InBooks(y)
        BY <1>0, <2>2, SumsFar
      <3>2. posted'[y] = posted[y] /\ refunds'[y] = refunds[y] /\ awards'[y] = awards[y] /\ Calm(y)
        BY <2>2 DEF Others
      <3> QED BY <1>1, <1>2, <3>1, <3>2 DEF AmountsOK, SameCore, Calm, IsReturn
    <2> QED BY <2>1, <2>2
  <1> QED BY <1>3, <1>4, <1>5 DEF DocOK

LEMMA WorthTypes ==
  Typed => Ints(Worth, Docs)
  <1> SUFFICES ASSUME Typed, NEW d \in Docs PROVE WorthOf(d) \in Int
    BY DEF Ints, Worth
  <1>1. row[d].qty \in Nat /\ Taken(d) \in Nat
    BY SumTypes, RowFields
  <1>2. row[d].qty - Taken(d) \in Int
    BY <1>1
  <1>3. row[d].qty \in Int /\ 0 \in Int
    BY <1>1
  <1> QED BY <1>2, <1>3, Zenon DEF WorthOf

LEMMA WorthTypesNext ==
  Typed' => Ints(Worth, Docs)'
  BY WorthTypes, PTL

\* The units paid for when the step writes an invoice, and when it writes a Credit Note.
LEMMA WorthFar ==
  ASSUME Typed, Typed', NEW x \in Docs, Others(x), NEW y \in Docs \ {x}, ~Credits(x, y)
  PROVE  Worth'[y] = Worth[y]
  <1>1. Taken(y)' = Taken(y)
    BY SumsFar
  <1>2. SameCore(row'[y], row[y])
    BY DEF Others
  <1>3. WorthOf(y)' = WorthOf(y)
    BY <1>1, <1>2 DEF WorthOf, SameCore, Live
  <1> QED BY <1>3 DEF Worth

LEMMA WorthOfOne ==
  ASSUME Typed, Typed', NEW x \in Docs, Others(x), \A y \in Docs \ {x} : ~Credits(x, y)
  PROVE  SumOver(Worth, Docs)' = SumOver(Worth, Docs) - WorthOf(x) + WorthOf(x)'
  <1>1. \A y \in Docs \ {x} : Worth'[y] = Worth[y]
    BY WorthFar
  <1>2. Ints(Worth, Docs) /\ Worth'[x] \in Int /\ Worth[x] = WorthOf(x) /\ Worth'[x] = WorthOf(x)'
    BY WorthTypes, WorthTypesNext DEF Ints, Worth
  <1>3. SumOver(Worth', Docs) = SumOver(Worth, Docs) - Worth[x] + Worth'[x]
    BY <1>1, <1>2, SumChange, InvoiceAssumption
  <1> QED BY <1>2, <1>3

LEMMA WorthOfTwo ==
  ASSUME Typed, Typed', NEW x \in Docs, NEW d \in Docs \ {x}, Others(x),
         \A y \in Docs \ {x, d} : ~Credits(x, y)
  PROVE  SumOver(Worth, Docs)' = SumOver(Worth, Docs) - WorthOf(x) + WorthOf(x)' - WorthOf(d) + WorthOf(d)'
  <1>1. \A y \in Docs \ {x, d} : Worth'[y] = Worth[y]
    BY WorthFar
  <1>2. /\ Ints(Worth, Docs) /\ Worth'[x] \in Int /\ Worth'[d] \in Int
        /\ Worth[x] = WorthOf(x) /\ Worth'[x] = WorthOf(x)' /\ Worth[d] = WorthOf(d) /\ Worth'[d] = WorthOf(d)'
    BY WorthTypes, WorthTypesNext DEF Ints, Worth
  <1>3. SumOver(Worth', Docs) = SumOver(Worth, Docs) - Worth[x] + Worth'[x] - Worth[d] + Worth'[d]
    BY <1>1, <1>2, SumChangeTwo, InvoiceAssumption
  <1> QED BY <1>2, <1>3

\* The requests that remain find what they have seen.
LEMMA ReqsStep ==
  ASSUME ReqsOK, ReqTyped', NEW x \in Docs, Others(x),
         \A e \in Clients : req'[e] = None \/ req'[e] = req[e],
         \A e \in Clients, d \in Docs : req'[e] # None /\ d = req[e].doc =>
           /\ d # x /\ (row[d].st = "Draft" => Calm(d))
           /\ req[e].op = "return" => /\ Credited(d)' \in Int /\ Credited(d) \in Int
                                      /\ Credited(d)' <= Credited(d),
         Typed, Typed'
  PROVE  ReqsOK'
  <1>1. AloneOK'
    BY DEF ReqsOK, AloneOK
  <1>2. ASSUME NEW e \in Clients, req'[e] # None PROVE req'[e] \in Requests /\ Seen(req[e])'
    <2>1. req'[e] = req[e] /\ req[e] # None /\ req[e] \in Requests /\ Seen(req[e])
      BY <1>2 DEF ReqsOK, ReqOK
    <2>0. PICK q : q = req[e]
      OBVIOUS
    <2>9. PICK d : d = q.doc
      OBVIOUS
    <2>2. d \in Docs /\ q.left \in 0..MaxQty
      BY <2>0, <2>9, <2>1 DEF Requests
    <2>3. /\ d # x /\ SameCore(row'[d], row[d]) /\ awards'[d] = awards[d]
          /\ row[d].st = "Draft" => Calm(d)
      BY <1>2, <2>0, <2>2, <2>9 DEF Others
    <2>4. q.op = "return" => q.left <= row'[d].qty - Credited(d)'
      <3> SUFFICES ASSUME q.op = "return" PROVE q.left <= row'[d].qty - Credited(d)'
        OBVIOUS
      <3>1. Credited(d)' \in Int /\ Credited(d) \in Int /\ Credited(d)' <= Credited(d)
        BY <1>2, <2>0, <2>2, <2>9
      <3>2. q.left <= row[d].qty - Credited(d) /\ row'[d].qty = row[d].qty
        BY <2>0, <2>1, <2>3, <2>9 DEF Seen, SameCore
      <3>3. row[d].qty \in Nat
        BY <2>2, RowFields
      <3>4. q.left \in Int
        <4>1. MaxQty \in Nat
          BY InvoiceAssumption
        <4> QED BY <2>2, <4>1
      <3> QED BY <3>1, <3>2, <3>3, <3>4
    <2>5. Seen(q)'
      <3> DEFINE r == row[d]
                 s == row'[d]
      <3>1. /\ SameCore(q.seen, r) /\ r.st \in {"Draft", "Submitted", "Cancelled"}
            /\ r.st = "Draft" => q.seen.outstanding = r.outstanding
            /\ q.award = awards[d]
            /\ q.op \in {"submit", "update"} => r.st = "Draft"
            /\ q.op \in {"award", "cancel", "return", "paid", "refund"} => r.st = "Submitted"
            /\ q.op \in {"award", "update", "return", "paid"} => ~IsReturn(r)
            /\ q.op = "cancel" => ~Settled(r)
            /\ q.op = "refund" => IsReturn(r) /\ r.refund = "Pending Refund"
        BY <2>0, <2>1, <2>9 DEF Seen
      <3>2. SameCore(s, r) /\ (r.st = "Draft" => s.outstanding = r.outstanding) /\ awards'[d] = awards[d]
        BY <2>3 DEF Calm
      <3> HIDE DEF r, s
      <3>3. /\ SameCore(q.seen, s) /\ s.st = r.st /\ s.refund = r.refund
            /\ (IsReturn(s) <=> IsReturn(r)) /\ (Settled(s) <=> Settled(r))
        BY <3>1, <3>2 DEF SameCore, IsReturn, Settled
      <3> QED BY <2>4, <2>9, <3>1, <3>2, <3>3 DEF Seen, s
    <2> QED BY <2>0, <2>1, <2>5
  <1> QED BY <1>1, <1>2 DEF ReqsOK, ReqOK

\* What a step that writes x may do to the other documents, p aside, while requests
\* that have read them are under way.
Quiet(x, p) ==
  \A d \in Docs \ {x, p} : /\ row[d].st = "Draft" => Calm(d)
                           /\ Credited(d)' \in Int /\ Credited(d) \in Int
                           /\ Credited(d)' <= Credited(d)

\* A request ends.
LEMMA ReqsCommit ==
  ASSUME ReqsOK, Typed, Typed', NEW c \in Clients, req[c] # None, req' = [req EXCEPT ![c] = None],
         NEW x \in Docs, Others(x), Quiet(x, req[c].doc), x = req[c].doc \/ row[x].st = "none"
  PROVE  ReqsOK'
  <1>1. ReqTyped' /\ \A e \in Clients : req'[e] = IF e = c THEN None ELSE req[e]
    BY DEF ReqsOK, ReqTyped
  <1>2. ASSUME NEW e \in Clients, NEW d \in Docs, req'[e] # None, d = req[e].doc
        PROVE  /\ d # x /\ (row[d].st = "Draft" => Calm(d))
               /\ req[e].op = "return" => /\ Credited(d)' \in Int /\ Credited(d) \in Int
                                          /\ Credited(d)' <= Credited(d)
    <2>1. e # c /\ req[e] # None /\ req[e] \in Requests /\ Seen(req[e])
      BY <1>1, <1>2 DEF ReqsOK, ReqOK
    <2>2. d # req[c].doc
      BY <1>2, <2>1 DEF ReqsOK, AloneOK
    <2>3. d # x
      BY <1>2, <2>1, <2>2 DEF Seen
    <2> QED BY <2>2, <2>3 DEF Quiet
  <1> QED BY <1>1, <1>2, ReqsStep

\* No request is about the document.
LEMMA ReqsAside ==
  ASSUME ReqsOK, Typed, Typed', req' = req, NEW x \in Docs, Others(x), Quiet(x, x),
         \A e \in Clients : req[e] # None => req[e].doc # x
  PROVE  ReqsOK'
  <1>1. ReqTyped' /\ \A e \in Clients : req'[e] = req[e]
    BY DEF ReqsOK, ReqTyped
  <1>2. ASSUME NEW e \in Clients, NEW d \in Docs, req'[e] # None, d = req[e].doc
        PROVE  /\ d # x /\ (row[d].st = "Draft" => Calm(d))
               /\ req[e].op = "return" => /\ Credited(d)' \in Int /\ Credited(d) \in Int
                                          /\ Credited(d)' <= Credited(d)
    <2>1. req[e] # None /\ d # x
      BY <1>1, <1>2
    <2> QED BY <2>1 DEF Quiet
  <1> QED BY <1>1, <1>2, ReqsStep

LEMMA UnusedIsAside ==
  ASSUME ReqsOK, NEW x \in Docs, row[x].st = "none"
  PROVE  \A e \in Clients : req[e] # None => req[e].doc # x
  BY DEF ReqsOK, ReqOK, Seen

\* The documents stay as they are.
LEMMA RowsSame ==
  ASSUME row' = row, posted' = posted, refunds' = refunds, paidUnits' = paidUnits, awards' \in [Docs -> Nat],
         \A d \in Docs : awards'[d] <= 1, DocsOK, UnitsOK
  PROVE  /\ DocsOK' /\ UnitsOK' /\ Typed /\ Typed'
         /\ \A d \in Docs : Credited(d)' = Credited(d) /\ Credited(d) \in Int
         /\ \A x, p \in Docs : Quiet(x, p)
  <1>1. Typed /\ Typed'
    BY DEF DocsOK, Typed
  <1>2. ASSUME NEW d \in Docs
        PROVE  /\ Credited(d)' = Credited(d) /\ InBooks(d)' = InBooks(d) /\ Taken(d)' = Taken(d)
               /\ Credited(d) \in Int
    <2>1. LivePart(d)' = LivePart(d) /\ BookedPart(d)' = BookedPart(d) /\ TakenPart(d)' = TakenPart(d)
      BY DEF LivePart, LiveAt, BookedPart, BookedAt, TakenPart, TakenAt, IsNote, Live, Booked, Taking
    <2>2. Credited(d) \in Nat
      BY <1>1, SumTypes
    <2>3. Credited(d)' = Credited(d) /\ InBooks(d)' = InBooks(d) /\ Taken(d)' = Taken(d)
      BY <2>1 DEF Credited, InBooks, Taken
    <2> QED BY <2>2, <2>3
  <1>3. \A d \in Docs : DocOK(d)'
    <2> SUFFICES ASSUME NEW d \in Docs PROVE DocOK(d)'
      OBVIOUS
    <2>1. RowOK(d) /\ NoteOK(d) /\ AmountsOK(d)
      BY DEF DocsOK, DocOK
    <2>2. RowOK(d)'
      BY <2>1 DEF RowOK
    <2>3. NoteOK(d)'
      BY <2>1 DEF NoteOK
    <2>4. AmountsOK(d)'
      BY <1>2, <2>1 DEF AmountsOK
    <2> QED BY <2>2, <2>3, <2>4 DEF DocOK
  <1>4. UnitsOK'
    <2>1. \A d \in Docs : WorthOf(d)' = WorthOf(d)
      BY <1>2 DEF WorthOf, Live
    <2>2. Worth' = Worth
      BY <2>1 DEF Worth
    <2> QED BY <2>2 DEF UnitsOK
  <1>5. \A x, p \in Docs : Quiet(x, p)
    <2>1. ASSUME NEW d \in Docs PROVE Credited(d)' \in Int /\ Credited(d) \in Int /\ Credited(d)' <= Credited(d)
      BY <1>2
    <2> QED BY <2>1 DEF Quiet, Calm
  <1> QED BY <1>1, <1>2, <1>3, <1>4, <1>5 DEF DocsOK

\* What the checks of a handler have found.
Loads(c, op, d) ==
  /\ Load(c, op, d, TRUE)
  /\ op \in {"submit", "update"} => row[d].st = "Draft"
  /\ op \in {"award", "cancel", "return", "paid", "refund"} => row[d].st = "Submitted"
  /\ op \in {"award", "update", "return", "paid"} => ~IsReturn(row[d])
  /\ op = "cancel" => ~Settled(row[d])
  /\ op = "refund" => IsReturn(row[d]) /\ row[d].refund = "Pending Refund"

LEMMA LoadKeeps ==
  ASSUME IInv, ~Overlap, NEW c \in Clients, NEW d \in Docs, NEW op \in Ops, Loads(c, op, d)
  PROVE  IInv'
  <1>0. PICK q : q = [op |-> op, doc |-> d, seen |-> row[d], left |-> Left(d), award |-> awards[d]]
    OBVIOUS
  <1>1. /\ req[c] = None /\ Free(d) /\ row[d].st \in {"Draft", "Submitted", "Cancelled"}
        /\ req' = [req EXCEPT ![c] = q] /\ UNCHANGED <<row, books, paidUnits>>
    BY <1>0 DEF Loads, Load
  <1>2. /\ row' = row /\ posted' = posted /\ refunds' = refunds /\ awards' = awards /\ paidUnits' = paidUnits
    BY <1>1 DEF books
  <1>3. Typed /\ awards \in [Docs -> Nat] /\ \A e \in Docs : awards[e] <= 1
    BY DEF IInv, DocsOK, Typed, DocOK, AmountsOK
  <1>4. /\ DocsOK' /\ UnitsOK' /\ \A e \in Docs : Credited(e)' = Credited(e) /\ Credited(e) \in Int
        /\ \A x, p \in Docs : Quiet(x, p)
    BY <1>2, <1>3, RowsSame DEF IInv
  <1>5. \A e \in Clients : req'[e] = IF e = c THEN q ELSE req[e]
    BY <1>1 DEF IInv, ReqsOK, ReqTyped
  <1>6. Left(d) \in 0..MaxQty /\ Left(d) = row[d].qty - Credited(d)
    <2>1. Left(d) = row[d].qty - Credited(d) /\ Credited(d) \in Nat
      BY <1>3, SumsAre, SumTypes
    <2>2. Credited(d) <= row[d].qty
      <3>1. CASE IsReturn(row[d])
        <4>1. \A n \in Docs : ~IsNote(n, d)
          <5> SUFFICES ASSUME NEW n \in Docs, row[n].against = d PROVE FALSE
            BY DEF IsNote
          <5>1. NoteOK(n) /\ IsReturn(row[n])
            BY InvoiceAssumption DEF IInv, DocsOK, DocOK, IsReturn
          <5> QED BY <3>1, <5>1 DEF NoteOK
        <4>2. Credited(d) = 0 /\ row[d].qty \in Nat
          BY <1>3, <4>1, NoNotes, RowFields
        <4> QED BY <4>2
      <3>2. CASE ~IsReturn(row[d])
        BY <3>2 DEF IInv, DocsOK, DocOK, AmountsOK
      <3> QED BY <3>1, <3>2
    <2>3. row[d].qty \in 0..MaxQty /\ MaxQty \in Nat
      BY <1>3, RowFields, InvoiceAssumption
    <2>4. row[d].qty - Credited(d) \in 0..MaxQty
      BY <2>1, <2>2, <2>3
    <2> QED BY <2>1, <2>4
  <1>7. /\ q \in Requests /\ q.op = op /\ q.doc = d /\ q.seen = row[d] /\ q.left = Left(d)
        /\ q.award = awards[d]
    <2>1. row[d] \in Rows /\ awards[d] \in Nat
      BY <1>3, RowFields
    <2>2. [op |-> op, doc |-> d, seen |-> row[d], left |-> Left(d), award |-> awards[d]] \in Requests
      BY <1>6, <2>1 DEF Requests
    <2> QED BY <1>0, <2>2
  <1>8. Seen(q)'
    <2>1. row'[d].qty - Credited(d)' = Left(d) /\ Left(d) \in Int
      <3>1. MaxQty \in Nat
        BY InvoiceAssumption
      <3>2. Left(d) \in Int
        BY <1>6, <3>1
      <3> QED BY <1>2, <1>4, <1>6, <3>2
    <2>2. Left(d) <= row'[d].qty - Credited(d)'
      BY <2>1
    <2>3. SameCore(q.seen, row'[d])
      BY <1>2, <1>7 DEF SameCore
    <2> QED BY <1>1, <1>2, <1>7, <2>2, <2>3 DEF Loads, Seen, Settled, IsReturn
  <1>9. ReqsOK'
    <2>1. ReqTyped'
      BY <1>1, <1>7 DEF IInv, ReqsOK, ReqTyped
    <2>2. AloneOK'
      <3>1. q.doc = d
        BY <1>7
      <3>2. \A e \in Clients : req[e] # None => req[e].doc # d
        BY <1>1 DEF Free
      <3> QED BY <1>5, <3>1, <3>2 DEF IInv, ReqsOK, AloneOK
    <2>3. ASSUME NEW e \in Clients PROVE ReqOK(e)'
      <3>1. CASE e = c
        BY <1>5, <1>7, <1>8, <3>1 DEF ReqOK
      <3>2. CASE e # c
        <4>1. req'[e] = req[e] /\ ReqOK(e)
          BY <1>5, <3>2 DEF IInv, ReqsOK
        <4>2. CASE req[e] # None
          <5>1. PICK p : p = req[e]
            OBVIOUS
          <5>2. p \in Requests /\ Seen(p)
            BY <4>1, <4>2, <5>1 DEF ReqOK
          <5>3. Credited(p.doc)' = Credited(p.doc)
            BY <1>4, <5>2 DEF Requests
          <5>4. Seen(p)'
            BY <1>2, <5>2, <5>3 DEF Seen, SameCore, IsReturn, Settled
          <5> QED BY <4>1, <5>1, <5>2, <5>4 DEF ReqOK
        <4>3. CASE req[e] = None
          BY <4>1, <4>3 DEF ReqOK
        <4> QED BY <4>2, <4>3
      <3> QED BY <3>1, <3>2
    <2> QED BY <2>1, <2>2, <2>3 DEF ReqsOK
  <1> QED BY <1>4, <1>9 DEF IInv

LEMMA LoadsKeep ==
  ASSUME IInv, ~Overlap, ~CancelSettled, NEW c \in Clients, NEW d \in Docs, LoadAny(c, d)
  PROVE  IInv'
  <1>1. CASE LoadSubmit(c, d)
    BY <1>1, LoadKeeps DEF LoadSubmit, Loads, Load, Ops
  <1>2. CASE LoadAward(c, d)
    BY <1>2, LoadKeeps DEF LoadAward, Loads, Load, Ops
  <1>3. CASE LoadUpdate(c, d)
    BY <1>3, LoadKeeps DEF LoadUpdate, Loads, Load, Ops
  <1>4. CASE LoadCancel(c, d)
    BY <1>4, LoadKeeps DEF LoadCancel, Loads, Load, Ops
  <1>5. CASE LoadReturn(c, d)
    BY <1>5, LoadKeeps DEF LoadReturn, Loads, Load, Ops
  <1>6. CASE LoadMarkPaid(c, d)
    BY <1>6, LoadKeeps DEF LoadMarkPaid, Loads, Load, Ops
  <1>7. CASE LoadRefund(c, d)
    BY <1>7, LoadKeeps DEF LoadRefund, Loads, Load, Refundable, Ops
  <1> QED BY <1>1, <1>2, <1>3, <1>4, <1>5, <1>6, <1>7 DEF LoadAny

LEMMA FailKeeps ==
  ASSUME IInv, NEW c \in Clients, Fail(c)
  PROVE  IInv'
  <1>1. /\ row' = row /\ posted' = posted /\ refunds' = refunds /\ awards' = awards /\ paidUnits' = paidUnits
        /\ req[c] # None /\ req' = [req EXCEPT ![c] = None]
    BY DEF Fail, books
  <1>2. awards \in [Docs -> Nat] /\ \A e \in Docs : awards[e] <= 1
    BY DEF IInv, DocsOK, Typed, DocOK, AmountsOK
  <1>3. DocsOK' /\ UnitsOK' /\ Typed /\ Typed' /\ \A x, p \in Docs : Quiet(x, p)
    BY <1>1, <1>2, RowsSame DEF IInv
  <1>4. req[c].doc \in Docs
    BY <1>1 DEF IInv, ReqsOK, ReqOK, Requests
  <1>5. Others(req[c].doc)
    BY <1>1 DEF Others, SameCore
  <1>6. ReqsOK'
    BY <1>1, <1>3, <1>4, <1>5, ReqsCommit DEF IInv
  <1> QED BY <1>3, <1>6 DEF IInv

LEMMA AwardKeeps ==
  ASSUME IInv, NEW c \in Clients, CommitAward(c)
  PROVE  IInv'
  <1> DEFINE d == req[c].doc
  <1>1. /\ row' = row /\ posted' = posted /\ refunds' = refunds /\ paidUnits' = paidUnits
        /\ req[c] # None /\ req' = [req EXCEPT ![c] = None] /\ Award(d, req[c].award)
    BY DEF CommitAward, Done
  <1>2. awards \in [Docs -> Nat] /\ \A e \in Docs : awards[e] <= 1
    BY DEF IInv, DocsOK, Typed, DocOK, AmountsOK
  <1>3. d \in Docs /\ req[c].award = awards[d]
    BY <1>1 DEF IInv, ReqsOK, ReqOK, Requests, Seen
  <1>4. /\ awards' \in [Docs -> Nat] /\ \A e \in Docs : awards'[e] <= 1
        /\ \A e \in Docs \ {d} : awards'[e] = awards[e]
    <2>1. CASE UNCHANGED awards
      BY <1>2, <2>1
    <2>2. CASE awards[d] = 0 /\ awards' = [awards EXCEPT ![d] = @ + 1]
      BY <1>2, <1>3, <2>2
    <2> QED BY <1>1, <1>3, <2>1, <2>2 DEF Award
  <1>5. DocsOK' /\ UnitsOK' /\ Typed /\ Typed' /\ \A x, p \in Docs : Quiet(x, p)
    BY <1>1, <1>4, RowsSame DEF IInv
  <1>6. Others(d)
    BY <1>1, <1>4 DEF Others, SameCore
  <1>7. ReqsOK'
    BY <1>1, <1>3, <1>5, <1>6, ReqsCommit DEF IInv
  <1> QED BY <1>5, <1>7 DEF IInv

----------------------------------------------------------------------------
(* Invoices *)

SameElse(x) ==
  \A y \in Docs \ {x} : /\ row'[y] = row[y]
                        /\ posted'[y] = posted[y] /\ refunds'[y] = refunds[y] /\ awards'[y] = awards[y]

LEMMA InvoiceWritten ==
  ASSUME Typed, Typed', NEW x \in Docs, ~IsReturn(row[x]), ~IsReturn(row'[x]), SameElse(x)
  PROVE  /\ Others(x) /\ \A d \in Docs : ~Credits(x, d)
         /\ \A d \in Docs : /\ Credited(d)' = Credited(d) /\ InBooks(d)' = InBooks(d) /\ Taken(d)' = Taken(d)
                            /\ Credited(d) \in Nat /\ InBooks(d) \in Nat /\ Taken(d) \in Nat
         /\ \A d \in Docs \ {x} : Calm(d)
         /\ \A p \in Docs : Quiet(x, p)
  <1>1. Others(x)
    BY DEF SameElse, Others, SameCore
  <1>2. \A d \in Docs : ~Credits(x, d)
    BY InvoiceAssumption DEF Credits, IsReturn
  <1>3. \A d \in Docs : Credited(d) \in Nat /\ InBooks(d) \in Nat /\ Taken(d) \in Nat
    BY SumTypes
  <1>4. \A d \in Docs : Credited(d)' = Credited(d) /\ InBooks(d)' = InBooks(d) /\ Taken(d)' = Taken(d)
    BY <1>1, <1>2, SumsFar
  <1>5. \A d \in Docs \ {x} : Calm(d)
    BY DEF SameElse, Calm
  <1>6. \A d \in Docs : Credited(d) \in Int /\ Credited(d)' \in Int /\ Credited(d)' <= Credited(d)
    BY <1>3, <1>4
  <1> QED BY <1>1, <1>2, <1>3, <1>4, <1>5, <1>6 DEF Quiet

\* An invoice that nothing has been made of yet, or one that is being made.
LEMMA NoNotesYet ==
  ASSUME DocsOK, NEW x \in Docs, row[x].st \in {"none", "Draft", "deleted"} \/ IsReturn(row[x])
  PROVE  /\ \A n \in Docs : ~IsNote(n, x)
         /\ Credited(x) = 0 /\ InBooks(x) = 0 /\ Taken(x) = 0
  <1>1. \A n \in Docs : ~IsNote(n, x)
    <2> SUFFICES ASSUME NEW n \in Docs, row[n].against = x PROVE FALSE
      BY DEF IsNote
    <2>1. NoteOK(n) /\ IsReturn(row[n])
      BY InvoiceAssumption DEF DocsOK, DocOK, IsReturn
    <2> QED BY <2>1 DEF NoteOK
  <1> QED BY <1>1, NoNotes DEF DocsOK

Unpaid(r) ==
  /\ ~IsReturn(r) /\ r.paid = FALSE /\ r.refund = "Not Applicable"
  /\ r.st \in {"Draft", "Submitted", "deleted"}
  /\ r.st \in {"Draft", "Submitted"} => r.outstanding = r.qty

LEMMA InvoiceKept ==
  ASSUME DocsOK, UnitsOK, Typed', NEW x \in Docs, row[x].st \in {"none", "Draft"}, ~IsReturn(row[x]),
         SameElse(x), Unpaid(row'[x]), paidUnits' = paidUnits,
         posted'[x] = IF row'[x].st = "Submitted" THEN 1 ELSE 0, refunds'[x] = 0, awards'[x] <= 1
  PROVE  DocsOK' /\ UnitsOK' /\ Typed /\ Others(x) /\ \A p \in Docs : Quiet(x, p)
  <1>1. Typed /\ ~IsReturn(row'[x])
    BY DEF DocsOK, Unpaid
  <1>2. /\ Others(x) /\ \A d \in Docs : ~Credits(x, d)
        /\ \A d \in Docs : /\ Credited(d)' = Credited(d) /\ InBooks(d)' = InBooks(d)
                           /\ Credited(d) \in Nat /\ InBooks(d) \in Nat
        /\ \A d \in Docs \ {x} : Calm(d)
        /\ \A p \in Docs : Quiet(x, p)
    BY <1>1, InvoiceWritten
  <1>3. (\A n \in Docs : ~IsNote(n, x)) /\ Credited(x)' = 0 /\ InBooks(x)' = 0
    BY <1>2, NoNotesYet
  <1>4. row'[x].qty \in Nat /\ row'[x].qty - 0 = row'[x].qty /\ 0 <= row'[x].qty
    <2>1. row'[x].qty \in 0..MaxQty
      BY DEF Typed, Rows
    <2>2. MaxQty \in Nat
      BY InvoiceAssumption
    <2> QED BY <2>1, <2>2
  <1>5. DocOK(x)'
    <2>1. RowOK(x)'
      BY DEF Unpaid, RowOK
    <2>2. NoteOK(x)'
      BY DEF Unpaid, NoteOK
    <2>3. AmountsOK(x)'
      BY <1>3, <1>4 DEF Unpaid, AmountsOK
    <2> QED BY <2>1, <2>2, <2>3 DEF DocOK
  <1>6. DocsOK'
    BY <1>2, <1>3, <1>5, DocsStep
  <1>7. UnitsOK'
    <2>1. WorthOf(x) = 0
      <3>1. row[x].paid = FALSE /\ row[x].refund = "Not Applicable"
        <4>1. row[x].paid \in BOOLEAN
          BY <1>1, RowFields
        <4> QED BY <4>1 DEF DocsOK, DocOK, RowOK
      <3> QED BY <3>1 DEF WorthOf
    <2>2. WorthOf(x)' = 0
      BY DEF Unpaid, WorthOf
    <2>3. SumOver(Worth, Docs)' = SumOver(Worth, Docs) - WorthOf(x) + WorthOf(x)'
      BY <1>1, <1>2, WorthOfOne
    <2>4. SumOver(Worth, Docs) \in Int
      BY <1>1, WorthTypes, SumType, InvoiceAssumption
    <2>5. SumOver(Worth, Docs)' = SumOver(Worth, Docs)
      BY <2>1, <2>2, <2>3, <2>4
    <2> QED BY <2>5 DEF UnitsOK
  <1> QED BY <1>1, <1>2, <1>6, <1>7

LEMMA CalculatedInvoice ==
  ASSUME NEW r \in Rows, ~IsReturn(r), r.paid = FALSE
  PROVE  /\ Calculated(r) \in Rows /\ Calculated(r).st = r.st /\ Calculated(r).against = r.against
         /\ Calculated(r).qty = r.qty /\ Calculated(r).paid = r.paid /\ Calculated(r).refund = r.refund
         /\ Calculated(r).outstanding = r.qty
  <1>1. Calculated(r) = [r EXCEPT !.outstanding = r.qty]
    BY Zenon DEF Calculated
  <1>2. r.qty \in 0..MaxQty
    BY DEF Rows
  <1> HIDE DEF Calculated
  <1> QED BY <1>1, <1>2 DEF Rows

\* A new invoice.
LEMMA InvoiceMade ==
  ASSUME IInv, NEW x \in Docs, NEW r \in Rows, New(x, r), ~IsReturn(r), r.paid = FALSE,
         r.refund = "Not Applicable", r.st = "Draft", UNCHANGED <<books, req, paidUnits>>
  PROVE  IInv'
  <1> DEFINE s == Calculated(r)
  <1>1. /\ s \in Rows /\ ~IsReturn(s) /\ s.paid = FALSE /\ s.refund = "Not Applicable" /\ s.st = "Draft"
        /\ s.outstanding = s.qty
    BY CalculatedInvoice DEF IsReturn
  <1>2. row[x].st = "none" /\ row' = [row EXCEPT ![x] = s]
    BY DEF New, Unused
  <1> HIDE DEF s
  <1>3. posted' = posted /\ refunds' = refunds /\ awards' = awards /\ paidUnits' = paidUnits /\ req' = req
    BY DEF books
  <1>4. Typed /\ RowOK(x) /\ AmountsOK(x)
    BY DEF IInv, DocsOK, DocOK
  <1>5. ~IsReturn(row[x]) /\ posted[x] = 0 /\ refunds[x] = 0 /\ awards[x] <= 1
    BY <1>2, <1>4 DEF RowOK, AmountsOK
  <1>6. Typed' /\ SameElse(x) /\ row'[x] = s
    BY <1>1, <1>2, <1>3, <1>4 DEF Typed, SameElse
  <1>7. Unpaid(row'[x])
    BY <1>1, <1>6 DEF Unpaid
  <1>8. DocsOK' /\ UnitsOK' /\ Typed /\ Others(x) /\ \A p \in Docs : Quiet(x, p)
    BY <1>1, <1>2, <1>3, <1>5, <1>6, <1>7, InvoiceKept DEF IInv
  <1>9. ReqsOK'
    BY <1>2, <1>3, <1>6, <1>8, ReqsAside, UnusedIsAside DEF IInv
  <1> QED BY <1>8, <1>9 DEF IInv

LEMMA CreateKeeps ==
  ASSUME IInv, NEW d \in Docs, NEW qty \in 1..MaxQty, Create(d, qty)
  PROVE  IInv'
  <1> DEFINE r == [NoRow EXCEPT !.st = "Draft", !.qty = qty]
  <1>1. r \in Rows /\ ~IsReturn(r) /\ r.paid = FALSE /\ r.refund = "Not Applicable" /\ r.st = "Draft"
    <2>1. qty \in 0..MaxQty /\ 0 \in 0..MaxQty
      BY InvoiceAssumption
    <2> QED BY <2>1 DEF NoRow, Rows, IsReturn
  <1>2. New(d, r) /\ UNCHANGED <<books, req, paidUnits>>
    BY DEF Create
  <1> HIDE DEF r
  <1> QED BY <1>1, <1>2, InvoiceMade

LEMMA AmendKeeps ==
  ASSUME IInv, NEW d \in Docs, NEW new \in Docs, Amend(d, new)
  PROVE  IInv'
  <1> DEFINE r == [row[d] EXCEPT !.st = "Draft"]
  <1>1. Typed /\ RowOK(d) /\ row[d].st = "Cancelled" /\ ~IsReturn(row[d])
    BY DEF IInv, DocsOK, DocOK, Amend
  <1>2. row[d].paid = FALSE /\ row[d].refund = "Not Applicable" /\ row[d] \in Rows
    BY <1>1, RowFields DEF RowOK
  <1>3. r \in Rows /\ ~IsReturn(r) /\ r.paid = FALSE /\ r.refund = "Not Applicable" /\ r.st = "Draft"
    BY <1>1, <1>2 DEF Rows, IsReturn
  <1>4. New(new, r) /\ UNCHANGED <<books, req, paidUnits>>
    BY DEF Amend
  <1> HIDE DEF r
  <1> QED BY <1>3, <1>4, InvoiceMade

LEMMA DeleteInvoiceKeeps ==
  ASSUME IInv, ~Overlap, NEW d \in Docs, ~IsReturn(row[d]), Free(d), Delete(d)
  PROVE  IInv'
  <1> DEFINE s == [NoRow EXCEPT !.st = "deleted"]
  <1>1. s \in Rows /\ Unpaid(s) /\ s.st = "deleted"
    <2>1. 0 \in 0..MaxQty
      BY InvoiceAssumption
    <2> QED BY <2>1 DEF NoRow, Rows, Unpaid, IsReturn
  <1>2. row[d].st = "Draft" /\ row' = [row EXCEPT ![d] = s]
    BY DEF Delete
  <1> HIDE DEF s
  <1>3. posted' = posted /\ refunds' = refunds /\ awards' = awards /\ paidUnits' = paidUnits /\ req' = req
    BY DEF Delete, books
  <1>4. Typed /\ RowOK(d) /\ AmountsOK(d)
    BY DEF IInv, DocsOK, DocOK
  <1>5. posted[d] = 0 /\ refunds[d] = 0 /\ awards[d] <= 1
    BY <1>2, <1>4 DEF RowOK, AmountsOK
  <1>6. Typed' /\ SameElse(d) /\ row'[d] = s
    BY <1>1, <1>2, <1>3, <1>4 DEF Typed, SameElse
  <1>7. DocsOK' /\ UnitsOK' /\ Typed /\ Others(d) /\ \A p \in Docs : Quiet(d, p)
    BY <1>1, <1>2, <1>3, <1>5, <1>6, InvoiceKept DEF IInv
  <1>8. \A e \in Clients : req[e] # None => req[e].doc # d
    BY DEF Free
  <1>9. ReqsOK'
    BY <1>3, <1>6, <1>7, <1>8, ReqsAside DEF IInv
  <1> QED BY <1>7, <1>9 DEF IInv

\* What a request knows when it commits.
LEMMA Knows ==
  ASSUME IInv, NEW c \in Clients, NEW op \in Ops, Done(c, op)
  PROVE  /\ req[c] # None /\ req' = [req EXCEPT ![c] = None] /\ req[c].op = op
         /\ req[c] \in Requests /\ req[c].doc \in Docs /\ req[c].seen \in Rows /\ Seen(req[c])
         /\ SameCore(req[c].seen, row[req[c].doc])
         /\ Typed /\ DocOK(req[c].doc)
  <1>1. req[c] # None /\ req' = [req EXCEPT ![c] = None] /\ req[c].op = op
    BY DEF Done
  <1>2. req[c] \in Requests /\ Seen(req[c])
    BY <1>1 DEF IInv, ReqsOK, ReqOK
  <1>3. req[c].doc \in Docs /\ req[c].seen \in Rows /\ SameCore(req[c].seen, row[req[c].doc])
    BY <1>2 DEF Requests, Seen
  <1> QED BY <1>1, <1>2, <1>3 DEF IInv, DocsOK

LEMMA UpdateKeeps ==
  ASSUME IInv, NEW c \in Clients, NEW qty \in 1..MaxQty, CommitUpdate(c, qty)
  PROVE  IInv'
  <1>0. PICK q, d : q = req[c] /\ d = req[c].doc
    OBVIOUS
  <1> DEFINE r == [q.seen EXCEPT !.qty = qty]
             s == Calculated(r)
  <1>1. /\ req[c] # None /\ req' = [req EXCEPT ![c] = None] /\ q.op = "update"
        /\ q \in Requests /\ d \in Docs /\ q.doc = d /\ q.seen \in Rows /\ Seen(q)
        /\ SameCore(q.seen, row[d]) /\ Typed /\ DocOK(d)
    BY <1>0, Knows DEF CommitUpdate, Ops
  <1>2. row' = [row EXCEPT ![d] = s]
    BY <1>0 DEF CommitUpdate
  <1>3. posted' = posted /\ refunds' = refunds /\ awards' = awards /\ paidUnits' = paidUnits
    BY DEF CommitUpdate, books
  <1>4. row[d].st = "Draft" /\ ~IsReturn(row[d]) /\ RowOK(d) /\ AmountsOK(d)
    BY <1>1 DEF Seen, DocOK
  <1>5. /\ posted[d] = 0 /\ refunds[d] = 0 /\ awards[d] <= 1
        /\ row[d].refund = "Not Applicable" /\ ~row[d].paid
    BY <1>4 DEF RowOK, AmountsOK
  <1>6. /\ r \in Rows /\ ~IsReturn(r) /\ r.paid = FALSE /\ r.refund = "Not Applicable" /\ r.st = "Draft"
    <2>1. qty \in 0..MaxQty
      BY InvoiceAssumption
    <2>2. q.seen.paid \in BOOLEAN
      BY <1>1 DEF Rows
    <2>3. /\ r \in Rows /\ r.against = q.seen.against /\ r.paid = q.seen.paid /\ r.refund = q.seen.refund
          /\ r.st = q.seen.st
      BY <1>1, <2>1 DEF Rows
    <2> HIDE DEF r
    <2> QED BY <1>1, <1>4, <1>5, <2>2, <2>3 DEF SameCore, IsReturn
  <1> HIDE DEF r
  <1>7. s \in Rows /\ Unpaid(s) /\ s.st = "Draft"
    BY <1>6, CalculatedInvoice DEF Unpaid, IsReturn
  <1> HIDE DEF s
  <1>8. Typed' /\ SameElse(d) /\ row'[d] = s
    BY <1>1, <1>2, <1>3, <1>7 DEF Typed, SameElse
  <1>9. DocsOK' /\ UnitsOK' /\ Typed /\ Others(d) /\ \A p \in Docs : Quiet(d, p)
    BY <1>1, <1>3, <1>4, <1>5, <1>7, <1>8, InvoiceKept DEF IInv
  <1>10. ReqsOK'
    BY <1>0, <1>1, <1>8, <1>9, ReqsCommit DEF IInv
  <1> QED BY <1>9, <1>10 DEF IInv

LEMMA SubmitInvoiceKeeps ==
  ASSUME IInv, NEW c \in Clients, CommitSubmit(c), ~IsReturn(req[c].seen)
  PROVE  IInv'
  <1>0. PICK q, d : q = req[c] /\ d = req[c].doc
    OBVIOUS
  <1> DEFINE s == [q.seen EXCEPT !.st = "Submitted"]
  <1>1. /\ req[c] # None /\ req' = [req EXCEPT ![c] = None] /\ q.op = "submit"
        /\ q \in Requests /\ d \in Docs /\ q.doc = d /\ q.seen \in Rows /\ Seen(q)
        /\ SameCore(q.seen, row[d]) /\ Typed /\ DocOK(d) /\ ~IsReturn(q.seen)
    BY <1>0, Knows DEF CommitSubmit, Ops
  <1>2. row' = [e \in Docs |-> IF e = d THEN s ELSE [row[e] EXCEPT !.outstanding = SetOff(q.seen, e)]]
    BY <1>0 DEF CommitSubmit
  <1>3. /\ posted' = [posted EXCEPT ![d] = @ + 1] /\ refunds' = refunds /\ paidUnits' = paidUnits
        /\ Award(d, awards[d])
    BY <1>0, <1>1 DEF CommitSubmit
  <1>4. row[d].st = "Draft" /\ ~IsReturn(row[d]) /\ RowOK(d) /\ AmountsOK(d)
    BY <1>1 DEF Seen, DocOK, SameCore, IsReturn
  <1>5. /\ posted[d] = 0 /\ refunds[d] = 0 /\ awards[d] <= 1 /\ awards[d] \in Nat
        /\ row[d].refund = "Not Applicable" /\ ~row[d].paid /\ row[d].outstanding = row[d].qty
    BY <1>1, <1>4 DEF RowOK, AmountsOK, Typed
  <1>6. s \in Rows /\ Unpaid(s) /\ s.st = "Submitted"
    <2>1. q.seen.paid \in BOOLEAN /\ q.seen.outstanding = row[d].outstanding
      BY <1>1, <1>4 DEF Rows, Seen
    <2>2. /\ s \in Rows /\ s.against = q.seen.against /\ s.paid = q.seen.paid /\ s.refund = q.seen.refund
          /\ s.st = "Submitted" /\ s.outstanding = q.seen.outstanding /\ s.qty = q.seen.qty
      BY <1>1 DEF Rows
    <2> HIDE DEF s
    <2> QED BY <1>1, <1>4, <1>5, <2>1, <2>2 DEF SameCore, IsReturn, Unpaid
  <1> HIDE DEF s
  <1>7. \A e \in Docs \ {d} : row'[e] = row[e]
    <2> SUFFICES ASSUME NEW e \in Docs \ {d} PROVE row'[e] = row[e]
      OBVIOUS
    <2>1. row[e] \in Rows /\ SetOff(q.seen, e) = row[e].outstanding
      BY <1>1, RowFields DEF SetOff
    <2> QED BY <1>2, <2>1 DEF Rows
  <1>8. /\ awards' \in [Docs -> Nat] /\ awards'[d] <= 1 /\ \A e \in Docs \ {d} : awards'[e] = awards[e]
    <2>1. CASE UNCHANGED awards
      BY <1>1, <1>5, <2>1 DEF Typed
    <2>2. CASE awards[d] = 0 /\ awards' = [awards EXCEPT ![d] = @ + 1]
      <3>1. awards \in [Docs -> Nat] /\ d \in Docs
        BY <1>1 DEF Typed
      <3> QED BY <2>2, <3>1
    <2> QED BY <1>3, <2>1, <2>2 DEF Award
  <1>9. /\ posted' \in [Docs -> Nat] /\ posted'[d] = 1 /\ \A e \in Docs \ {d} : posted'[e] = posted[e]
    <2>1. posted \in [Docs -> Nat] /\ d \in Docs /\ posted[d] = 0
      BY <1>1, <1>5 DEF Typed
    <2>2. posted' = [posted EXCEPT ![d] = posted[d] + 1]
      BY <1>3
    <2> QED BY <2>1, <2>2
  <1>10. row' \in [Docs -> Rows] /\ row'[d] = s
    <2>1. \A e \in Docs : row'[e] \in Rows
      BY <1>1, <1>2, <1>6, <1>7 DEF Typed
    <2> QED BY <1>1, <1>2, <2>1
  <1>11. Typed' /\ SameElse(d)
    BY <1>1, <1>3, <1>7, <1>8, <1>9, <1>10 DEF Typed, SameElse
  <1>12. DocsOK' /\ UnitsOK' /\ Typed /\ Others(d) /\ \A p \in Docs : Quiet(d, p)
    BY <1>1, <1>3, <1>4, <1>5, <1>6, <1>8, <1>9, <1>10, <1>11, InvoiceKept DEF IInv
  <1>13. ReqsOK'
    BY <1>0, <1>1, <1>11, <1>12, ReqsCommit DEF IInv
  <1> QED BY <1>12, <1>13 DEF IInv

LEMMA CancelInvoiceKeeps ==
  ASSUME IInv, NEW c \in Clients, CommitCancel(c), ~IsReturn(req[c].seen)
  PROVE  IInv'
  <1>0. PICK q, d : q = req[c] /\ d = req[c].doc
    OBVIOUS
  <1> DEFINE s == [q.seen EXCEPT !.st = "Cancelled"]
  <1>1. /\ req[c] # None /\ req' = [req EXCEPT ![c] = None] /\ q.op = "cancel"
        /\ q \in Requests /\ d \in Docs /\ q.doc = d /\ q.seen \in Rows /\ Seen(q)
        /\ SameCore(q.seen, row[d]) /\ Typed /\ DocOK(d) /\ ~IsReturn(q.seen)
    BY <1>0, Knows DEF CommitCancel, Ops
  <1>2. /\ row' = [row EXCEPT ![d] = s] /\ posted' = posted /\ refunds' = refunds /\ awards' = awards
        /\ paidUnits' = paidUnits
    BY <1>0 DEF CommitCancel, books
  <1>3. /\ row[d].st = "Submitted" /\ ~IsReturn(row[d]) /\ RowOK(d) /\ AmountsOK(d)
        /\ ~row[d].paid /\ row[d].refund = "Not Applicable"
    BY <1>1 DEF Seen, DocOK, SameCore, IsReturn, Settled, RowOK
  <1>4. /\ s \in Rows /\ ~IsReturn(s) /\ s.paid = FALSE /\ s.refund = "Not Applicable"
        /\ s.st = "Cancelled" /\ s.qty = row[d].qty
    <2>1. q.seen.paid \in BOOLEAN
      BY <1>1 DEF Rows
    <2>2. /\ s \in Rows /\ s.against = q.seen.against /\ s.paid = q.seen.paid /\ s.refund = q.seen.refund
          /\ s.st = "Cancelled" /\ s.qty = q.seen.qty
      BY <1>1 DEF Rows
    <2> HIDE DEF s
    <2> QED BY <1>1, <1>3, <2>1, <2>2 DEF SameCore, IsReturn
  <1> HIDE DEF s
  <1>5. Typed' /\ SameElse(d) /\ row'[d] = s
    BY <1>1, <1>2, <1>4 DEF Typed, SameElse
  <1>6. /\ Others(d) /\ \A e \in Docs : ~Credits(d, e)
        /\ Credited(d)' = Credited(d)
        /\ \A e \in Docs \ {d} : Calm(e)
        /\ \A p \in Docs : Quiet(d, p)
    BY <1>1, <1>3, <1>4, <1>5, InvoiceWritten
  <1>7. DocsOK'
    <2>1. DocOK(d)'
      BY <1>2, <1>3, <1>4, <1>5, <1>6 DEF DocOK, RowOK, NoteOK, AmountsOK
    <2>2. ASSUME NEW n \in Docs \ {d}, IsNote(n, d) PROVE NoteOK(n)'
      <3>1. NoteOK(n) /\ row'[n] = row[n] /\ row[n].against = d
        BY <1>5, <2>2 DEF IInv, DocsOK, DocOK, IsNote, SameElse
      <3> QED BY <1>1, <1>3, <1>4, <1>5, <3>1 DEF NoteOK, IsReturn
    <2> QED BY <1>1, <1>5, <1>6, <2>1, <2>2, DocsStep DEF IInv
  <1>8. UnitsOK'
    <2>1. WorthOf(d) = 0 /\ WorthOf(d)' = 0
      BY <1>3, <1>4, <1>5 DEF WorthOf
    <2>2. SumOver(Worth, Docs)' = SumOver(Worth, Docs) - WorthOf(d) + WorthOf(d)'
      BY <1>1, <1>5, <1>6, WorthOfOne
    <2>3. SumOver(Worth, Docs) \in Int
      BY <1>1, WorthTypes, SumType, InvoiceAssumption
    <2>4. SumOver(Worth, Docs)' = SumOver(Worth, Docs)
      BY <2>1, <2>2, <2>3
    <2> QED BY <1>2, <2>4 DEF IInv, UnitsOK
  <1>9. ReqsOK'
    BY <1>0, <1>1, <1>5, <1>6, ReqsCommit DEF IInv
  <1> QED BY <1>7, <1>8, <1>9 DEF IInv

LEMMA MarkPaidKeeps ==
  ASSUME IInv, NEW c \in Clients, CommitMarkPaid(c)
  PROVE  IInv'
  <1>0. PICK q, d : q = req[c] /\ d = req[c].doc
    OBVIOUS
  <1> DEFINE s == [row[d] EXCEPT !.paid = TRUE, !.outstanding = 0]
             paid == IF row[d].paid THEN 0 ELSE row[d].outstanding
  <1>1. /\ req[c] # None /\ req' = [req EXCEPT ![c] = None] /\ q.op = "paid"
        /\ q \in Requests /\ d \in Docs /\ q.doc = d /\ Seen(q)
        /\ Typed /\ DocOK(d)
    BY <1>0, Knows DEF CommitMarkPaid, Ops
  <1>2. /\ row' = [row EXCEPT ![d] = s] /\ posted' = posted /\ refunds' = refunds /\ awards' = awards
        /\ paidUnits' = paidUnits + paid
    <2>1. row \in [Docs -> Rows] /\ row[d] \in Rows
      BY <1>1 DEF Typed
    <2>2. row' = [row EXCEPT ![d].paid = TRUE, ![d].outstanding = 0]
      BY <1>0 DEF CommitMarkPaid
    <2>3. row' = [row EXCEPT ![d] = s]
      BY <1>1, <2>1, <2>2 DEF Rows
    <2> QED BY <1>0, <2>3 DEF CommitMarkPaid, books
  <1>3. /\ row[d].st = "Submitted" /\ ~IsReturn(row[d]) /\ RowOK(d) /\ AmountsOK(d)
        /\ row[d].refund = "Not Applicable"
    BY <1>1 DEF Seen, DocOK, RowOK
  <1>4. /\ s \in Rows /\ ~IsReturn(s) /\ s.paid = TRUE /\ s.refund = "Not Applicable"
        /\ s.st = "Submitted" /\ s.qty = row[d].qty /\ s.outstanding = 0
    <2>1. row[d] \in Rows /\ 0 \in 0..MaxQty
      BY <1>1, InvoiceAssumption DEF Typed
    <2> QED BY <1>3, <2>1 DEF Rows, IsReturn
  <1>5. paid \in Nat /\ paidUnits' \in Nat
    <2>1. row[d].outstanding \in 0..MaxQty /\ MaxQty \in Nat /\ paidUnits \in Nat
      BY <1>1, RowFields, InvoiceAssumption DEF Typed
    <2>2. row[d].outstanding \in Nat
      BY <2>1
    <2>3. paid \in Nat
      BY <2>2
    <2> HIDE DEF paid
    <2> QED BY <1>2, <2>1, <2>3
  <1> HIDE DEF s
  <1>6. Typed' /\ SameElse(d) /\ row'[d] = s
    BY <1>1, <1>2, <1>4, <1>5 DEF Typed, SameElse
  <1>7. /\ Others(d) /\ \A e \in Docs : ~Credits(d, e)
        /\ Credited(d)' = Credited(d) /\ Taken(d)' = Taken(d) /\ Taken(d) \in Nat
        /\ \A e \in Docs \ {d} : Calm(e)
        /\ \A p \in Docs : Quiet(d, p)
    BY <1>1, <1>3, <1>4, <1>6, InvoiceWritten
  <1>8. DocsOK'
    <2>1. DocOK(d)'
      BY <1>2, <1>3, <1>4, <1>6, <1>7 DEF DocOK, RowOK, NoteOK, AmountsOK
    <2>2. ASSUME NEW n \in Docs \ {d}, IsNote(n, d) PROVE NoteOK(n)'
      <3>1. NoteOK(n) /\ row'[n] = row[n] /\ row[n].against = d
        BY <1>6, <2>2 DEF IInv, DocsOK, DocOK, IsNote, SameElse
      <3> QED BY <1>1, <1>3, <1>4, <1>6, <3>1 DEF NoteOK, IsReturn
    <2> QED BY <1>1, <1>6, <1>7, <2>1, <2>2, DocsStep DEF IInv
  <1>9. UnitsOK'
    <2>1. SumOver(Worth, Docs)' = SumOver(Worth, Docs) - WorthOf(d) + WorthOf(d)'
      BY <1>1, <1>6, <1>7, WorthOfOne
    <2>2. SumOver(Worth, Docs) \in Int /\ SumOver(Worth, Docs) <= paidUnits /\ paidUnits \in Nat
      BY <1>1, WorthTypes, SumType, InvoiceAssumption DEF IInv, UnitsOK, Typed
    <2>3. row[d].qty \in Nat
      BY <1>1, RowFields
    <2>4. WorthOf(d)' = row[d].qty - Taken(d)
      BY <1>4, <1>6, <1>7 DEF WorthOf
    <2>5. WorthOf(d)' = WorthOf(d) + paid
      <3>1. CASE row[d].paid
        <4>1. WorthOf(d) = row[d].qty - Taken(d) /\ paid = 0
          BY <3>1 DEF WorthOf
        <4> QED BY <1>7, <2>3, <2>4, <4>1
      <3>2. CASE ~row[d].paid
        <4>1. WorthOf(d) = 0 /\ paid = row[d].qty - InBooks(d)
          BY <1>3, <3>2 DEF WorthOf, AmountsOK
        <4>2. Taken(d) = InBooks(d)
          BY <1>1, <3>2, UnpaidTaken DEF IInv
        <4> QED BY <1>7, <2>3, <2>4, <4>1, <4>2
      <3> QED BY <3>1, <3>2
    <2>6. WorthOf(d) \in Int
      BY <1>1, WorthTypes DEF Ints, Worth
    <2> HIDE DEF paid
    <2>7. SumOver(Worth, Docs)' <= paidUnits + paid
      BY <1>5, <2>1, <2>2, <2>5, <2>6
    <2> QED BY <1>2, <2>7 DEF UnitsOK
  <1>10. ReqsOK'
    BY <1>0, <1>1, <1>6, <1>7, ReqsCommit DEF IInv
  <1> QED BY <1>8, <1>9, <1>10 DEF IInv

----------------------------------------------------------------------------
(* Credit Notes *)

LEMMA FarQuiet ==
  ASSUME Typed, Typed', NEW x \in Docs, NEW d \in Docs, Others(x),
         \A e \in Docs \ {d} : ~Credits(x, e), \A e \in Docs \ {x, d} : Calm(e)
  PROVE  /\ Quiet(x, d)
         /\ row[d].st # "Draft" /\ Credited(d)' \in Int /\ Credited(d)' <= Credited(d) => Quiet(x, x)
  <1>1. ASSUME NEW e \in Docs \ {d}
        PROVE  Credited(e)' \in Int /\ Credited(e) \in Int /\ Credited(e)' <= Credited(e)
    <2>1. Credited(e)' = Credited(e) /\ Credited(e) \in Nat
      BY SumsFar, SumTypes
    <2> QED BY <2>1
  <1>2. Credited(d) \in Int
    BY SumTypes
  <1> QED BY <1>1, <1>2 DEF Quiet

\* A Credit Note and its invoice.
LEMMA NoteFacts ==
  ASSUME DocsOK, NEW x \in Docs, IsReturn(row[x]), NEW d, d = row[x].against
  PROVE  /\ d \in Docs \ {x} /\ ~IsReturn(row[d]) /\ row[d].st \in {"Submitted", "Cancelled"}
         /\ row[x].refund # "Not Applicable"
         /\ row[x].refund # "Credit Available" => row[d].paid = TRUE /\ row[d].st = "Submitted"
         /\ row[x].refund = "Credit Available" => row[x].st # "Cancelled"
         /\ row[x].paid = FALSE /\ row[x].qty \in Nat /\ row[d].qty \in Nat
         /\ row[d].refund = "Not Applicable"
         /\ Typed /\ RowOK(x) /\ AmountsOK(x) /\ DocOK(d) /\ AmountsOK(d)
         /\ \A n \in Docs : ~IsNote(n, x)
  <1>1. NoteOK(x) /\ RowOK(x) /\ AmountsOK(x) /\ Typed
    BY DEF DocsOK, DocOK
  <1>2. d \in Docs \ {x} /\ ~IsReturn(row[d]) /\ row[d].st \in {"Submitted", "Cancelled"}
    BY <1>1 DEF NoteOK
  <1>3. RowOK(d) /\ AmountsOK(d) /\ DocOK(d)
    BY <1>2 DEF DocsOK, DocOK
  <1>4. row[x].qty \in Nat /\ row[d].qty \in Nat /\ row[x].paid \in BOOLEAN /\ row[d].paid \in BOOLEAN
    BY <1>1, <1>2, RowFields
  <1>5. row[d].refund = "Not Applicable"
    BY <1>2, <1>3 DEF RowOK
  <1>6. row[x].paid = FALSE
    BY <1>1, <1>4 DEF RowOK
  <1>7. row[x].refund # "Credit Available" => row[d].paid = TRUE /\ row[d].st = "Submitted"
    <2> SUFFICES ASSUME row[x].refund # "Credit Available"
                 PROVE  row[d].paid = TRUE /\ row[d].st = "Submitted"
      OBVIOUS
    <2>1. row[d].paid
      BY <1>1 DEF NoteOK
    <2>2. row[d].st = "Submitted"
      BY <1>3, <2>1 DEF RowOK
    <2> QED BY <1>4, <2>1, <2>2
  <1>8. \A n \in Docs : ~IsNote(n, x)
    BY NoNotesYet
  <1>9. row[x].refund # "Not Applicable" /\ (row[x].refund = "Credit Available" => row[x].st # "Cancelled")
    BY <1>1 DEF NoteOK
  <1> QED BY <1>1, <1>2, <1>3, <1>4, <1>5, <1>6, <1>7, <1>8, <1>9

LEMMA ReturnKeeps ==
  ASSUME IInv, NEW c \in Clients, NEW x \in Docs, NEW qty \in 1..MaxQty, CommitReturn(c, x, qty)
  PROVE  IInv'
  <1>0. PICK q, d : q = req[c] /\ d = req[c].doc
    OBVIOUS
  <1> DEFINE kind == IF q.seen.paid THEN "Pending Refund" ELSE "Credit Available"
             back == IF kind = "Pending Refund" THEN qty ELSE 0
             r == [NoRow EXCEPT !.st = "Draft", !.against = d, !.qty = qty, !.refund = kind]
             s == [r EXCEPT !.outstanding = 0]
  <1>1. /\ req[c] # None /\ req' = [req EXCEPT ![c] = None] /\ q.op = "return"
        /\ q \in Requests /\ d \in Docs /\ q.doc = d /\ q.seen \in Rows /\ Seen(q)
        /\ SameCore(q.seen, row[d]) /\ Typed /\ DocOK(d)
    BY <1>0, Knows DEF CommitReturn, Ops
  <1>2. /\ row[x].st = "none" /\ row' = [row EXCEPT ![x] = s] /\ qty <= q.left
        /\ posted' = posted /\ refunds' = refunds /\ awards' = awards /\ paidUnits' = paidUnits
    <2>1. IsReturn(r)
      <3>1. d # None
        BY <1>1, InvoiceAssumption
      <3>2. r.against = d
        BY DEF NoRow
      <3> QED BY <3>1, <3>2 DEF IsReturn
    <2>2. New(x, r) /\ qty <= q.left /\ UNCHANGED <<books, paidUnits>>
      BY <1>0, <1>1 DEF CommitReturn, Leaves
    <2> HIDE DEF r
    <2>3. Calculated(r) = [r EXCEPT !.outstanding = 0]
      BY <2>1, Zenon DEF Calculated
    <2> QED BY <2>2, <2>3 DEF New, Unused, books
  <1>3. /\ row[d].st = "Submitted" /\ ~IsReturn(row[d]) /\ RowOK(d) /\ AmountsOK(d)
        /\ row[d].refund = "Not Applicable" /\ q.left <= row[d].qty - Credited(d)
    BY <1>1 DEF Seen, DocOK, RowOK
  <1>4. x # d /\ RowOK(x) /\ AmountsOK(x) /\ row[x].against = None /\ row[x].refund = "Not Applicable" /\ ~row[x].paid
    BY <1>2, <1>3 DEF IInv, DocsOK, DocOK, RowOK, IsReturn
  <1>5. /\ s \in Rows /\ kind \in {"Pending Refund", "Credit Available"} /\ (kind = "Pending Refund" <=> row[d].paid)
        /\ s.st = "Draft" /\ s.against = d /\ s.qty = qty /\ s.paid = FALSE /\ s.outstanding = 0 /\ s.refund = kind
    <2>1. q.seen.paid = row[d].paid
      BY <1>1 DEF SameCore
    <2>2. kind \in {"Pending Refund", "Credit Available"} /\ (kind = "Pending Refund" <=> row[d].paid)
      BY <2>1, Zenon
    <2>3. qty \in 0..MaxQty /\ 0 \in 0..MaxQty
      BY InvoiceAssumption
    <2> HIDE DEF kind
    <2>4. /\ r \in Rows /\ r.st = "Draft" /\ r.against = d /\ r.qty = qty /\ r.paid = FALSE
          /\ r.refund = kind
      BY <1>1, <2>2, <2>3 DEF Rows, NoRow
    <2> HIDE DEF r
    <2>5. /\ s \in Rows /\ s.st = r.st /\ s.against = r.against /\ s.qty = r.qty /\ s.paid = r.paid
          /\ s.refund = r.refund /\ s.outstanding = 0
      BY <2>3, <2>4 DEF Rows
    <2> HIDE DEF s
    <2> QED BY <2>2, <2>4, <2>5
  <1>b. /\ kind = "Pending Refund" => back = qty
        /\ kind # "Pending Refund" => back = 0
        /\ back \in {0, qty}
    OBVIOUS
  <1> HIDE DEF r, s, kind, back
  <1>7. Typed' /\ SameElse(x) /\ row'[x] = s
    BY <1>1, <1>2, <1>5 DEF Typed, SameElse
  <1>8. Others(x) /\ \A e \in Docs \ {x} : Calm(e)
    BY <1>7 DEF SameElse, Others, SameCore, Calm
  <1>9. \A e \in Docs \ {d} : ~Credits(x, e)
    BY <1>4, <1>5, <1>7, InvoiceAssumption DEF Credits
  <1>10. Quiet(x, d)
    BY <1>1, <1>7, <1>8, <1>9, FarQuiet
  <1>11. qty \in Nat /\ row[d].qty \in Nat /\ Credited(d) \in Nat /\ InBooks(d) \in Nat /\ Taken(d) \in Nat /\ q.left \in Int
         /\ back \in Nat
    <2>1. MaxQty \in Nat
      BY InvoiceAssumption
    <2>2. qty \in Nat
      BY <2>1
    <2>3. row[d].qty \in Nat /\ Credited(d) \in Nat /\ InBooks(d) \in Nat /\ Taken(d) \in Nat
      BY <1>1, RowFields, SumTypes
    <2>4. q.left \in 0..MaxQty
      BY <1>1 DEF Requests
    <2>5. q.left \in Int
      BY <2>1, <2>4
    <2>6. back \in Nat
      <3>1. back \in {0, qty} /\ 0 \in Nat
        BY <1>b
      <3> QED BY <2>2, <3>1, Zenon
    <2> QED BY <2>2, <2>3, <2>5, <2>6
  <1>12. /\ Credited(d)' = Credited(d) + qty /\ InBooks(d)' = InBooks(d)
         /\ Taken(d)' = Taken(d) + back
    <2>1. LiveAt(x, d) = 0 /\ BookedAt(x, d) = 0 /\ TakenAt(x, d) = 0
      BY <1>1, <1>4, InvoiceAssumption DEF LiveAt, BookedAt, TakenAt, IsNote
    <2>2. /\ LiveAt(x, d)' = qty /\ BookedAt(x, d)' = 0
          /\ TakenAt(x, d)' = back
      BY <1>b, <1>5, <1>7 DEF LiveAt, BookedAt, TakenAt, IsNote, Live, Booked, Taking
    <2>3. \A y \in Docs \ {x} : SameCore(row'[y], row[y])
      BY <1>8 DEF Others
    <2>4. /\ Credited(d)' = Credited(d) - LiveAt(x, d) + LiveAt(x, d)'
          /\ InBooks(d)' = InBooks(d) - BookedAt(x, d) + BookedAt(x, d)'
          /\ Taken(d)' = Taken(d) - TakenAt(x, d) + TakenAt(x, d)'
      BY <1>1, <1>7, <2>3, SumsStep
    <2> QED BY <1>11, <2>1, <2>2, <2>4
  <1>13. row'[d] = row[d] /\ posted'[d] = posted[d] /\ refunds'[d] = refunds[d] /\ awards'[d] = awards[d]
    BY <1>1, <1>4, <1>7 DEF SameElse
  <1>14. DocsOK'
    <2>1. DocOK(x)'
      <3>1. RowOK(x)'
        BY <1>5, <1>7, InvoiceAssumption, <1>1 DEF RowOK, IsReturn
      <3>2. NoteOK(x)'
        BY <1>1, <1>3, <1>5, <1>7, <1>13 DEF NoteOK
      <3>3. AmountsOK(x)'
        BY <1>1, <1>2, <1>4, <1>5, <1>7, InvoiceAssumption DEF AmountsOK, IsReturn
      <3> QED BY <3>1, <3>2, <3>3 DEF DocOK
    <2>2. AmountsOK(d)'
      <3>1. Credited(d)' <= row[d].qty
        <4>1. qty <= q.left /\ q.left <= row[d].qty - Credited(d) /\ Credited(d)' = Credited(d) + qty
          BY <1>2, <1>3, <1>12
        <4> QED BY <1>11, <4>1
      <3> QED BY <1>3, <1>12, <1>13, <3>1 DEF AmountsOK
    <2>3. \A n \in Docs : ~IsNote(n, x)
      BY <1>2, NoNotesYet DEF IInv
    <2> QED BY <1>7, <1>8, <1>9, <2>1, <2>2, <2>3, DocsStep DEF IInv
  <1>15. UnitsOK'
    <2>1. SumOver(Worth, Docs)' = SumOver(Worth, Docs) - WorthOf(x) + WorthOf(x)' - WorthOf(d) + WorthOf(d)'
      BY <1>1, <1>4, <1>7, <1>8, <1>9, WorthOfTwo
    <2>2. SumOver(Worth, Docs) \in Int /\ SumOver(Worth, Docs) <= paidUnits /\ paidUnits \in Nat
      BY <1>1, WorthTypes, SumType, InvoiceAssumption DEF IInv, UnitsOK, Typed
    <2>3. WorthOf(x) = 0 /\ WorthOf(x)' = back
      BY <1>b, <1>4, <1>5, <1>7 DEF WorthOf, Live
    <2>4. WorthOf(d)' = WorthOf(d) - back
      <3>1. CASE row[d].paid
        <4>1. WorthOf(d) = row[d].qty - Taken(d) /\ WorthOf(d)' = row[d].qty - Taken(d)'
          BY <1>13, <3>1 DEF WorthOf
        <4>2. Taken(d)' = Taken(d) + back
          BY <1>12
        <4> QED BY <1>11, <4>1, <4>2
      <3>2. CASE ~row[d].paid
        <4>1. WorthOf(d) = 0 /\ WorthOf(d)' = 0
          BY <1>3, <1>13, <3>2 DEF WorthOf
        <4>2. back = 0
          BY <1>b, <1>5, <3>2
        <4> QED BY <4>1, <4>2
      <3> QED BY <3>1, <3>2
    <2>5. WorthOf(d) \in Int
      BY <1>1, WorthTypes DEF Ints, Worth
    <2>6. SumOver(Worth, Docs)' = SumOver(Worth, Docs)
      BY <1>11, <2>1, <2>2, <2>3, <2>4, <2>5
    <2> QED BY <1>2, <2>2, <2>6 DEF UnitsOK
  <1>16. ReqsOK'
    BY <1>0, <1>1, <1>2, <1>7, <1>8, <1>10, ReqsCommit DEF IInv
  <1> QED BY <1>14, <1>15, <1>16 DEF IInv

Ends(x) ==
  /\ IsReturn(row[x]) /\ row[x].st \in {"Draft", "Submitted"}
  /\ row[x].st = "Submitted" => row[x].refund = "Pending Refund"
  /\ row'[x].st \in {"Cancelled", "deleted"} /\ row'[x].paid = FALSE
  /\ row'[x].against \in {row[x].against, None}

\* A Credit Note that counted against its invoice does so no longer.
LEMMA NoteGone ==
  ASSUME DocsOK, UnitsOK, Typed', NEW x \in Docs, Ends(x), SameElse(x), paidUnits' = paidUnits, DocOK(x)'
  PROVE  DocsOK' /\ UnitsOK' /\ Typed /\ Others(x) /\ Quiet(x, x)
  <1>0. PICK d : d = row[x].against
    OBVIOUS
  <1>1. PICK back : back = TakenAt(x, d)
    OBVIOUS
  <1>2. /\ d \in Docs \ {x} /\ ~IsReturn(row[d]) /\ row[d].st \in {"Submitted", "Cancelled"}
        /\ row[x].refund # "Not Applicable"
        /\ row[x].refund # "Credit Available" => row[d].paid = TRUE /\ row[d].st = "Submitted"
        /\ row[x].paid = FALSE /\ row[x].qty \in Nat /\ row[d].qty \in Nat
        /\ row[d].refund = "Not Applicable"
        /\ Typed /\ RowOK(x) /\ AmountsOK(d)
        /\ \A n \in Docs : ~IsNote(n, x)
    BY <1>0, NoteFacts DEF Ends
  <1>3. Others(x) /\ \A e \in Docs \ {x} : Calm(e)
    BY DEF SameElse, Others, SameCore, Calm
  <1>4. \A e \in Docs \ {d} : ~Credits(x, e)
    BY <1>0, InvoiceAssumption DEF Credits, Ends
  <1>5. row'[d] = row[d] /\ posted'[d] = posted[d] /\ refunds'[d] = refunds[d] /\ awards'[d] = awards[d]
    BY <1>2 DEF SameElse
  <1>6. /\ Credited(d) \in Nat /\ InBooks(d) \in Nat /\ Taken(d) \in Nat
        /\ row[x].qty \in Nat /\ row[d].qty \in Nat
    BY <1>2, SumTypes
  <1>7. row[x].refund \in {"Pending Refund", "Credit Available"}
    <2>1. row[x].refund \in {"Not Applicable", "Credit Available", "Pending Refund", "Refunded"}
      BY <1>2, RowFields
    <2> QED BY <1>2, <2>1 DEF RowOK, Ends
  <1>8. /\ LiveAt(x, d) = row[x].qty /\ BookedAt(x, d) = IF row[x].st = "Submitted" THEN row[x].qty ELSE 0
        /\ LiveAt(x, d)' = 0 /\ BookedAt(x, d)' = 0 /\ TakenAt(x, d)' = 0
    BY <1>0 DEF LiveAt, BookedAt, TakenAt, IsNote, Live, Booked, Taking, Ends
  <1>9. /\ back \in Nat
        /\ row[x].refund = "Pending Refund" => back = row[x].qty
        /\ row[x].refund = "Credit Available" => back = 0
    BY <1>0, <1>1, <1>2 DEF TakenAt, IsNote, Taking, Ends
  <1>10. /\ Credited(d)' = Credited(d) - row[x].qty
         /\ row[x].st # "Submitted" => InBooks(d)' = InBooks(d)
         /\ Taken(d)' = Taken(d) - back
    <2>1. \A y \in Docs \ {x} : SameCore(row'[y], row[y])
      BY <1>3 DEF Others
    <2>2. /\ Credited(d)' = Credited(d) - LiveAt(x, d) + LiveAt(x, d)'
          /\ InBooks(d)' = InBooks(d) - BookedAt(x, d) + BookedAt(x, d)'
          /\ Taken(d)' = Taken(d) - TakenAt(x, d) + TakenAt(x, d)'
      BY <1>2, <2>1, SumsStep
    <2>3. Credited(d)' = Credited(d) - row[x].qty
      BY <1>6, <1>8, <2>2
    <2>4. Taken(d)' = Taken(d) - back
      <3>1. back \in Nat
        BY <1>9
      <3> QED BY <1>1, <1>6, <1>8, <2>2, <3>1
    <2>5. ASSUME row[x].st # "Submitted" PROVE InBooks(d)' = InBooks(d)
      <3>1. BookedAt(x, d) = 0 /\ BookedAt(x, d)' = 0
        BY <1>8, <2>5
      <3> QED BY <1>6, <2>2, <3>1
    <2> QED BY <2>3, <2>4, <2>5
  <1>11. Credited(d)' \in Int /\ Credited(d)' <= Credited(d)
    BY <1>6, <1>10
  <1>12. Quiet(x, x)
    BY <1>2, <1>3, <1>4, <1>11, FarQuiet
  <1>13. DocsOK'
    <2>1. AmountsOK(d)'
      <3>1. Credited(d)' <= row[d].qty
        <4>1. Credited(d) <= row[d].qty
          BY <1>2 DEF AmountsOK
        <4> QED BY <1>6, <1>11, <4>1
      <3>2. row[d].paid \/ InBooks(d)' = InBooks(d)
        BY <1>2, <1>10 DEF Ends
      <3> QED BY <1>2, <1>5, <3>1, <3>2 DEF AmountsOK
    <2> QED BY <1>2, <1>3, <1>4, <2>1, DocsStep
  <1>14. UnitsOK'
    <2>1. SumOver(Worth, Docs)' = SumOver(Worth, Docs) - WorthOf(x) + WorthOf(x)' - WorthOf(d) + WorthOf(d)'
      BY <1>2, <1>3, <1>4, WorthOfTwo
    <2>2. SumOver(Worth, Docs) \in Int
      BY <1>2, WorthTypes, SumType, InvoiceAssumption
    <2>3. WorthOf(x) = back
      BY <1>2, <1>7, <1>9 DEF WorthOf, Live, Ends
    <2>4. WorthOf(x)' = 0
      BY DEF WorthOf, Live, Ends
    <2>5. WorthOf(d)' = WorthOf(d) + back
      <3>1. CASE row[d].paid
        <4>1. WorthOf(d) = row[d].qty - Taken(d) /\ WorthOf(d)' = row[d].qty - Taken(d)'
          BY <1>5, <3>1 DEF WorthOf
        <4>2. Taken(d)' = Taken(d) - back /\ back \in Nat
          BY <1>9, <1>10
        <4> QED BY <1>6, <4>1, <4>2
      <3>2. CASE ~row[d].paid
        <4>1. WorthOf(d) = 0 /\ WorthOf(d)' = 0
          BY <1>2, <1>5, <3>2 DEF WorthOf
        <4>2. back = 0
          BY <1>2, <1>9, <3>2
        <4> QED BY <4>1, <4>2
      <3> QED BY <3>1, <3>2
    <2>6. WorthOf(d) \in Int /\ back \in Nat
      BY <1>2, <1>9, WorthTypes DEF Ints, Worth
    <2>7. SumOver(Worth, Docs)' = SumOver(Worth, Docs)
      BY <2>1, <2>2, <2>3, <2>4, <2>5, <2>6
    <2> QED BY <2>7 DEF UnitsOK
  <1> QED BY <1>2, <1>3, <1>12, <1>13, <1>14

LEMMA DeleteNoteKeeps ==
  ASSUME IInv, ~Overlap, NEW x \in Docs, IsReturn(row[x]), Free(x), Delete(x)
  PROVE  IInv'
  <1> DEFINE s == [NoRow EXCEPT !.st = "deleted"]
  <1>1. /\ s \in Rows /\ s.st = "deleted" /\ s.against = None /\ s.paid = FALSE /\ s.refund = "Not Applicable"
    <2>1. 0 \in 0..MaxQty
      BY InvoiceAssumption
    <2> QED BY <2>1 DEF NoRow, Rows
  <1>2. row[x].st = "Draft" /\ row' = [row EXCEPT ![x] = s]
    BY DEF Delete
  <1> HIDE DEF s
  <1>3. posted' = posted /\ refunds' = refunds /\ awards' = awards /\ paidUnits' = paidUnits /\ req' = req
    BY DEF Delete, books
  <1>4. Typed /\ RowOK(x) /\ AmountsOK(x)
    BY DEF IInv, DocsOK, DocOK
  <1>5. posted[x] = 0 /\ refunds[x] = 0 /\ awards[x] <= 1
    BY <1>2, <1>4 DEF RowOK, AmountsOK
  <1>6. Typed' /\ SameElse(x) /\ row'[x] = s
    BY <1>1, <1>2, <1>3, <1>4 DEF Typed, SameElse
  <1>7. DocOK(x)'
    <2>1. Credited(x)' <= 0
      <3>1. Others(x) /\ ~Credits(x, x)
        <4>1. \A n \in Docs : ~IsNote(n, x)
          BY NoNotesYet DEF IInv
        <4> QED BY <1>1, <1>6, <4>1, InvoiceAssumption DEF SameElse, Others, SameCore, Credits, IsNote
      <3>2. Credited(x)' = Credited(x) /\ Credited(x) = 0
        BY <1>4, <1>6, <3>1, SumsFar, NoNotesYet DEF IInv
      <3> QED BY <3>2
    <2>2. row'[x].qty = 0
      BY <1>6 DEF NoRow, s
    <2>3. RowOK(x)' /\ NoteOK(x)'
      BY <1>1, <1>6 DEF RowOK, NoteOK, IsReturn
    <2>4. AmountsOK(x)'
      BY <1>1, <1>3, <1>5, <1>6, <2>1, <2>2 DEF AmountsOK
    <2> QED BY <2>3, <2>4 DEF DocOK
  <1>8. DocsOK' /\ UnitsOK' /\ Typed /\ Others(x) /\ Quiet(x, x)
    BY <1>1, <1>2, <1>3, <1>6, <1>7, NoteGone DEF IInv, Ends
  <1>9. \A e \in Clients : req[e] # None => req[e].doc # x
    BY DEF Free
  <1>10. ReqsOK'
    BY <1>3, <1>6, <1>8, <1>9, ReqsAside DEF IInv
  <1> QED BY <1>8, <1>10 DEF IInv

LEMMA CancelNoteKeeps ==
  ASSUME IInv, NEW c \in Clients, CommitCancel(c), IsReturn(req[c].seen)
  PROVE  IInv'
  <1>0. PICK q, x, d : q = req[c] /\ x = req[c].doc /\ d = row[x].against
    OBVIOUS
  <1> DEFINE s == [q.seen EXCEPT !.st = "Cancelled"]
  <1>1. /\ req[c] # None /\ req' = [req EXCEPT ![c] = None] /\ q.op = "cancel"
        /\ q \in Requests /\ x \in Docs /\ q.doc = x /\ q.seen \in Rows /\ Seen(q)
        /\ SameCore(q.seen, row[x]) /\ Typed /\ DocOK(x) /\ IsReturn(row[x])
    BY <1>0, Knows DEF CommitCancel, Ops, SameCore, IsReturn
  <1>2. /\ row' = [row EXCEPT ![x] = s] /\ posted' = posted /\ refunds' = refunds /\ awards' = awards
        /\ paidUnits' = paidUnits
    BY <1>0 DEF CommitCancel, books
  <1>3. /\ d \in Docs \ {x} /\ ~IsReturn(row[d]) /\ row[d].st \in {"Submitted", "Cancelled"}
        /\ row[x].refund # "Not Applicable"
        /\ row[x].refund # "Credit Available" => row[d].paid = TRUE /\ row[d].st = "Submitted"
        /\ row[x].paid = FALSE /\ RowOK(x) /\ AmountsOK(x)
    BY <1>0, <1>1, NoteFacts DEF IInv
  <1>4. row[x].st = "Submitted" /\ row[x].refund = "Pending Refund"
    <2>1. row[x].st = "Submitted" /\ ~Settled(row[x])
      BY <1>1 DEF Seen
    <2>2. row[x].refund \in {"Not Applicable", "Credit Available", "Pending Refund", "Refunded"}
      BY <1>1, RowFields
    <2> QED BY <1>3, <2>1, <2>2 DEF Settled
  <1>5. /\ s \in Rows /\ s.st = "Cancelled" /\ s.against = d /\ s.paid = FALSE /\ s.refund = "Pending Refund"
    <2>1. /\ s \in Rows /\ s.against = q.seen.against /\ s.paid = q.seen.paid /\ s.refund = q.seen.refund
          /\ s.st = "Cancelled"
      BY <1>1 DEF Rows
    <2> HIDE DEF s
    <2> QED BY <1>0, <1>1, <1>3, <1>4, <2>1 DEF SameCore
  <1> HIDE DEF s
  <1>6. Typed' /\ SameElse(x) /\ row'[x] = s /\ row'[d] = row[d]
    BY <1>1, <1>2, <1>3, <1>5 DEF Typed, SameElse
  <1>7. DocOK(x)'
    <2>1. d # None
      BY <1>3, InvoiceAssumption
    <2>2. RowOK(x)'
      BY <1>5, <1>6, <2>1 DEF RowOK, IsReturn
    <2>3. NoteOK(x)'
      BY <1>3, <1>4, <1>5, <1>6 DEF NoteOK
    <2>4. AmountsOK(x)'
      BY <1>2, <1>3, <1>4, <1>5, <1>6, <2>1 DEF AmountsOK, IsReturn
    <2> QED BY <2>2, <2>3, <2>4 DEF DocOK
  <1>8. DocsOK' /\ UnitsOK' /\ Typed /\ Others(x) /\ Quiet(x, x)
    BY <1>0, <1>1, <1>2, <1>4, <1>5, <1>6, <1>7, NoteGone DEF IInv, Ends
  <1>9. ReqsOK'
    BY <1>0, <1>1, <1>6, <1>8, ReqsCommit DEF IInv
  <1> QED BY <1>8, <1>9 DEF IInv

LEMMA RefundKeeps ==
  ASSUME IInv, NEW c \in Clients, CommitRefund(c)
  PROVE  IInv'
  <1>0. PICK q, x, d : q = req[c] /\ x = req[c].doc /\ d = row[x].against
    OBVIOUS
  <1> DEFINE s == [row[x] EXCEPT !.refund = "Refunded"]
  <1>1. /\ req[c] # None /\ req' = [req EXCEPT ![c] = None] /\ q.op = "refund"
        /\ q \in Requests /\ x \in Docs /\ q.doc = x /\ Seen(q) /\ Typed /\ DocOK(x)
    BY <1>0, Knows DEF CommitRefund, Ops
  <1>2. IsReturn(row[x]) /\ row[x].refund = "Pending Refund" /\ row[x].st = "Submitted"
    BY <1>1 DEF Seen
  <1>3. /\ d \in Docs \ {x} /\ ~IsReturn(row[d]) /\ row[d].st \in {"Submitted", "Cancelled"}
        /\ row[x].refund # "Credit Available" => row[d].paid = TRUE /\ row[d].st = "Submitted"
        /\ row[x].paid = FALSE /\ RowOK(x) /\ AmountsOK(x) /\ AmountsOK(d)
        /\ \A n \in Docs : ~IsNote(n, x)
    BY <1>0, <1>1, <1>2, NoteFacts DEF IInv
  <1>4. /\ row' = [row EXCEPT ![x] = s] /\ posted' = posted /\ awards' = awards
        /\ refunds' = [refunds EXCEPT ![x] = @ + 1] /\ paidUnits' = paidUnits
    <2>1. row \in [Docs -> Rows] /\ row[x] \in Rows
      BY <1>1 DEF Typed
    <2>2. row' = [row EXCEPT ![x].refund = "Refunded"]
      BY <1>0 DEF CommitRefund
    <2>3. row' = [row EXCEPT ![x] = s]
      BY <1>1, <2>1, <2>2 DEF Rows
    <2> QED BY <1>0, <2>3 DEF CommitRefund
  <1>5. /\ s \in Rows /\ s.st = "Submitted" /\ s.against = d /\ s.paid = FALSE /\ s.refund = "Refunded"
        /\ s.qty = row[x].qty
    <2>1. row[x] \in Rows
      BY <1>1 DEF Typed
    <2>2. /\ s \in Rows /\ s.against = row[x].against /\ s.paid = row[x].paid /\ s.refund = "Refunded"
          /\ s.st = row[x].st /\ s.qty = row[x].qty
      BY <2>1 DEF Rows
    <2> HIDE DEF s
    <2> QED BY <1>0, <1>2, <1>3, <2>2
  <1> HIDE DEF s
  <1>6. refunds' \in [Docs -> Nat] /\ refunds'[x] = 1 /\ \A e \in Docs \ {x} : refunds'[e] = refunds[e]
    <2>1. refunds \in [Docs -> Nat] /\ x \in Docs /\ refunds[x] = 0
      BY <1>1, <1>2, <1>3 DEF Typed, AmountsOK
    <2>2. refunds' = [refunds EXCEPT ![x] = refunds[x] + 1]
      BY <1>4
    <2> QED BY <2>1, <2>2
  <1>7. Typed' /\ SameElse(x) /\ row'[x] = s /\ row'[d] = row[d]
    BY <1>1, <1>3, <1>4, <1>5, <1>6 DEF Typed, SameElse
  <1>8. Others(x) /\ \A e \in Docs \ {x} : Calm(e)
    BY <1>7 DEF SameElse, Others, SameCore, Calm
  <1>9. \A e \in Docs \ {d} : ~Credits(x, e)
    BY <1>0, <1>5, <1>7 DEF Credits
  <1>10. /\ Credited(d) \in Nat /\ InBooks(d) \in Nat /\ Taken(d) \in Nat
         /\ Credited(d)' = Credited(d) /\ InBooks(d)' = InBooks(d) /\ Taken(d)' = Taken(d)
    <2>1. Credited(d) \in Nat /\ InBooks(d) \in Nat /\ Taken(d) \in Nat
      BY <1>1, <1>3, SumTypes
    <2>2. LiveAt(x, d)' = LiveAt(x, d) /\ BookedAt(x, d)' = BookedAt(x, d) /\ TakenAt(x, d)' = TakenAt(x, d)
      BY <1>0, <1>2, <1>5, <1>7 DEF LiveAt, BookedAt, TakenAt, IsNote, Live, Booked, Taking
    <2>3. LiveAt(x, d) \in Nat /\ BookedAt(x, d) \in Nat /\ TakenAt(x, d) \in Nat
      BY <1>1, <1>3, PartTypes
    <2>4. \A y \in Docs \ {x} : SameCore(row'[y], row[y])
      BY <1>8 DEF Others
    <2>5. /\ Credited(d)' = Credited(d) - LiveAt(x, d) + LiveAt(x, d)'
          /\ InBooks(d)' = InBooks(d) - BookedAt(x, d) + BookedAt(x, d)'
          /\ Taken(d)' = Taken(d) - TakenAt(x, d) + TakenAt(x, d)'
      BY <1>1, <1>3, <1>7, <2>4, SumsStep
    <2> QED BY <2>1, <2>2, <2>3, <2>5
  <1>11. Credited(d)' \in Int /\ Credited(d)' <= Credited(d)
    BY <1>10
  <1>12. Quiet(x, x)
    BY <1>1, <1>3, <1>7, <1>8, <1>9, <1>11, FarQuiet
  <1>13. DocsOK'
    <2>1. DocOK(x)'
      <3>1. d # None
        BY <1>3, InvoiceAssumption
      <3>2. RowOK(x)'
        BY <1>5, <1>7, <3>1 DEF RowOK, IsReturn
      <3>3. NoteOK(x)'
        BY <1>2, <1>3, <1>5, <1>7 DEF NoteOK
      <3>4. AmountsOK(x)'
        <4>1. /\ IsReturn(row'[x]) /\ row'[x].st = "Submitted" /\ row[x].st = "Submitted"
              /\ row'[x].refund = "Refunded"
          BY <1>2, <1>5, <1>7, <3>1 DEF IsReturn
        <4>2. posted'[x] = 1 /\ refunds'[x] = 1 /\ awards'[x] <= 1
          BY <1>3, <1>4, <1>6, <4>1 DEF AmountsOK
        <4> QED BY <4>1, <4>2 DEF AmountsOK
      <3> QED BY <3>2, <3>3, <3>4 DEF DocOK
    <2>2. AmountsOK(d)'
      BY <1>3, <1>4, <1>6, <1>7, <1>10 DEF AmountsOK
    <2> QED BY <1>1, <1>3, <1>7, <1>8, <1>9, <2>1, <2>2, DocsStep DEF IInv
  <1>14. UnitsOK'
    <2>1. SumOver(Worth, Docs)' = SumOver(Worth, Docs) - WorthOf(x) + WorthOf(x)' - WorthOf(d) + WorthOf(d)'
      BY <1>1, <1>3, <1>7, <1>8, <1>9, WorthOfTwo
    <2>2. WorthOf(x)' = WorthOf(x)
      BY <1>2, <1>3, <1>5, <1>7 DEF WorthOf, Live
    <2>3. WorthOf(d)' = WorthOf(d)
      BY <1>7, <1>10 DEF WorthOf, Live
    <2>4. SumOver(Worth, Docs) \in Int /\ WorthOf(x) \in Int /\ WorthOf(d) \in Int
      BY <1>1, <1>3, WorthTypes, SumType, InvoiceAssumption DEF Ints, Worth
    <2>5. SumOver(Worth, Docs)' = SumOver(Worth, Docs)
      BY <2>1, <2>2, <2>3, <2>4
    <2> QED BY <1>4, <2>5 DEF IInv, UnitsOK
  <1>15. ReqsOK'
    BY <1>0, <1>1, <1>7, <1>8, <1>12, ReqsCommit DEF IInv
  <1> QED BY <1>13, <1>14, <1>15 DEF IInv

LEMMA SubmitNoteKeeps ==
  ASSUME IInv, NEW c \in Clients, CommitSubmit(c), IsReturn(req[c].seen)
  PROVE  IInv'
  <1>0. PICK q, x, d : q = req[c] /\ x = req[c].doc /\ d = row[x].against
    OBVIOUS
  <1> DEFINE s == [q.seen EXCEPT !.st = "Submitted"]
             owed == SetOff(q.seen, d)
  <1>1. /\ req[c] # None /\ req' = [req EXCEPT ![c] = None] /\ q.op = "submit"
        /\ q \in Requests /\ x \in Docs /\ q.doc = x /\ q.seen \in Rows /\ Seen(q)
        /\ SameCore(q.seen, row[x]) /\ Typed /\ DocOK(x) /\ IsReturn(q.seen) /\ IsReturn(row[x])
    BY <1>0, Knows DEF CommitSubmit, Ops, SameCore, IsReturn
  <1>2. row' = [e \in Docs |-> IF e = x THEN s ELSE [row[e] EXCEPT !.outstanding = SetOff(q.seen, e)]]
    BY <1>0 DEF CommitSubmit
  <1>3. posted' = [posted EXCEPT ![x] = @ + 1] /\ refunds' = refunds /\ paidUnits' = paidUnits /\ awards' = awards
    BY <1>0, <1>1 DEF CommitSubmit
  <1>4. row[x].st = "Draft"
    BY <1>1 DEF Seen
  <1>5. /\ d \in Docs \ {x} /\ ~IsReturn(row[d]) /\ row[d].st \in {"Submitted", "Cancelled"}
        /\ row[x].refund # "Not Applicable"
        /\ row[x].refund # "Credit Available" => row[d].paid = TRUE /\ row[d].st = "Submitted"
        /\ row[x].paid = FALSE /\ RowOK(x) /\ AmountsOK(x) /\ AmountsOK(d) /\ row[d].refund = "Not Applicable"
        /\ \A n \in Docs : ~IsNote(n, x)
    BY <1>0, <1>1, NoteFacts DEF IInv
  <1>6. /\ row[x].qty \in Nat /\ row[d].qty \in Nat /\ row[d].outstanding \in Nat
        /\ Credited(d) \in Nat /\ InBooks(d) \in Nat /\ Taken(d) \in Nat
        /\ row[d].outstanding \in 0..MaxQty /\ MaxQty \in Nat
    <2>1. MaxQty \in Nat
      BY InvoiceAssumption
    <2>2. row[d].outstanding \in 0..MaxQty
      BY <1>1, <1>5, RowFields
    <2>3. row[d].outstanding \in Nat
      BY <2>1, <2>2
    <2>4. row[x].qty \in Nat /\ row[d].qty \in Nat
      BY <1>1, <1>5, RowFields
    <2>5. Credited(d) \in Nat /\ InBooks(d) \in Nat /\ Taken(d) \in Nat
      BY <1>1, <1>5, SumTypes
    <2> QED BY <2>1, <2>2, <2>3, <2>4, <2>5
  <1>7. /\ s \in Rows /\ s.st = "Submitted" /\ s.against = d /\ s.paid = FALSE /\ s.refund = row[x].refund
        /\ s.qty = row[x].qty
    <2>1. /\ s \in Rows /\ s.against = q.seen.against /\ s.paid = q.seen.paid /\ s.refund = q.seen.refund
          /\ s.st = "Submitted" /\ s.qty = q.seen.qty
      BY <1>1 DEF Rows
    <2> HIDE DEF s
    <2> QED BY <1>0, <1>1, <1>5, <2>1 DEF SameCore
  <1> HIDE DEF s
  <1>8. /\ row[x].refund # "Credit Available" => owed = row[d].outstanding
        /\ row[x].refund = "Credit Available" =>
             owed = IF row[d].outstanding > row[x].qty THEN row[d].outstanding - row[x].qty ELSE 0
    BY <1>0, <1>1 DEF SetOff, SameCore
  <1>9. \A e \in Docs \ {x, d} : SetOff(q.seen, e) = row[e].outstanding
    BY <1>0, <1>1 DEF SetOff, SameCore
  <1> HIDE DEF owed
  <1>10. owed \in 0..MaxQty
    <2>1. CASE row[x].refund # "Credit Available"
      BY <1>6, <1>8, <2>1
    <2>2. CASE row[x].refund = "Credit Available"
      <3>1. owed = IF row[d].outstanding > row[x].qty THEN row[d].outstanding - row[x].qty ELSE 0
        BY <1>8, <2>2
      <3> QED BY <1>6, <3>1
    <2> QED BY <2>1, <2>2
  <1>11. /\ row'[x] = s
         /\ row'[d] \in Rows /\ SameCore(row'[d], row[d]) /\ row'[d].outstanding = owed
         /\ \A e \in Docs \ {x, d} : row'[e] = row[e]
    <2>1. row'[x] = s
      BY <1>1, <1>2
    <2>2. row'[d] \in Rows /\ SameCore(row'[d], row[d]) /\ row'[d].outstanding = owed
      <3>1. row'[d] = [row[d] EXCEPT !.outstanding = owed]
        BY <1>2, <1>5 DEF owed
      <3>2. row[d] \in Rows
        BY <1>1, <1>5, RowFields
      <3> QED BY <1>10, <3>1, <3>2 DEF Rows, SameCore
    <2>3. ASSUME NEW e \in Docs \ {x, d} PROVE row'[e] = row[e]
      <3>1. row[e] \in Rows /\ SetOff(q.seen, e) = row[e].outstanding
        BY <1>1, <1>9, RowFields
      <3>2. row'[e] = [row[e] EXCEPT !.outstanding = row[e].outstanding]
        BY <1>2, <3>1
      <3> QED BY <3>1, <3>2 DEF Rows
    <2> QED BY <2>1, <2>2, <2>3
  <1>12. posted' \in [Docs -> Nat] /\ posted'[x] = 1 /\ \A e \in Docs \ {x} : posted'[e] = posted[e]
    <2>1. posted \in [Docs -> Nat] /\ x \in Docs /\ posted[x] = 0
      BY <1>1, <1>4, <1>5 DEF Typed, AmountsOK
    <2>2. posted' = [posted EXCEPT ![x] = posted[x] + 1]
      BY <1>3
    <2> QED BY <2>1, <2>2
  <1>13. Typed'
    <2>1. row' \in [Docs -> Rows]
      <3>1. \A e \in Docs : row'[e] \in Rows
        BY <1>1, <1>7, <1>11 DEF Typed
      <3> QED BY <1>2, <3>1
    <2> QED BY <1>1, <1>3, <1>12, <2>1 DEF Typed
  <1>14. Others(x) /\ \A e \in Docs \ {x, d} : Calm(e)
    BY <1>3, <1>5, <1>11, <1>12 DEF Others, SameCore, Calm
  <1>15. \A e \in Docs \ {d} : ~Credits(x, e)
    BY <1>0, <1>7, <1>11 DEF Credits
  <1>16. PICK off \in Nat : /\ row[x].refund = "Credit Available" => off = row[x].qty
                            /\ row[x].refund # "Credit Available" => off = 0
    <2>1. CASE row[x].refund = "Credit Available"
      BY <1>6, <2>1
    <2>2. CASE row[x].refund # "Credit Available"
      BY <2>2
    <2> QED BY <2>1, <2>2
  <1>17. /\ Credited(d)' = Credited(d) /\ InBooks(d)' = InBooks(d) + row[x].qty /\ Taken(d)' = Taken(d) + off
    <2>1. /\ LiveAt(x, d) = row[x].qty /\ BookedAt(x, d) = 0
          /\ LiveAt(x, d)' = row[x].qty /\ BookedAt(x, d)' = row[x].qty /\ TakenAt(x, d)' = row[x].qty
      BY <1>0, <1>4, <1>7, <1>11 DEF LiveAt, BookedAt, TakenAt, IsNote, Live, Booked, Taking
    <2>2. TakenAt(x, d) = row[x].qty - off
      <3>1. CASE row[x].refund = "Credit Available"
        <4>1. TakenAt(x, d) = 0 /\ off = row[x].qty
          BY <1>4, <1>16, <3>1 DEF TakenAt, Taking
        <4> QED BY <1>6, <4>1
      <3>2. CASE row[x].refund # "Credit Available"
        <4>1. TakenAt(x, d) = row[x].qty /\ off = 0
          BY <1>0, <1>4, <1>16, <3>2 DEF TakenAt, Taking, IsNote
        <4> QED BY <1>6, <4>1
      <3> QED BY <3>1, <3>2
    <2>3. \A y \in Docs \ {x} : SameCore(row'[y], row[y])
      BY <1>14 DEF Others
    <2>4. /\ Credited(d)' = Credited(d) - LiveAt(x, d) + LiveAt(x, d)'
          /\ InBooks(d)' = InBooks(d) - BookedAt(x, d) + BookedAt(x, d)'
          /\ Taken(d)' = Taken(d) - TakenAt(x, d) + TakenAt(x, d)'
      BY <1>1, <1>5, <1>13, <2>3, SumsStep
    <2> QED BY <1>6, <2>1, <2>2, <2>4
  <1>18. Credited(d)' \in Int /\ Credited(d)' <= Credited(d)
    BY <1>6, <1>17
  <1>19. Quiet(x, x)
    BY <1>1, <1>5, <1>13, <1>14, <1>15, <1>18, FarQuiet
  <1>20. DocsOK'
    <2>1. DocOK(x)'
      <3>1. d # None
        BY <1>5, InvoiceAssumption
      <3>2. RowOK(x)'
        BY <1>4, <1>5, <1>7, <1>11, <3>1 DEF RowOK, IsReturn
      <3>3. NoteOK(x)'
        BY <1>5, <1>7, <1>11 DEF NoteOK, SameCore, IsReturn
      <3>4. AmountsOK(x)'
        BY <1>3, <1>4, <1>5, <1>7, <1>11, <1>12, <3>1 DEF AmountsOK, IsReturn
      <3> QED BY <3>2, <3>3, <3>4 DEF DocOK
    <2>2. AmountsOK(d)'
      <3>1. Credited(d) <= row[d].qty
        BY <1>5 DEF AmountsOK
      <3>2. ASSUME row[d].st = "Submitted"
            PROVE  owed = IF row[d].paid THEN 0 ELSE row[d].qty - InBooks(d)'
        <4>1. CASE row[d].paid
          <5>1. row[d].outstanding = 0
            BY <1>5, <3>2, <4>1 DEF AmountsOK
          <5>2. owed = 0
            <6>1. owed = row[d].outstanding \/ owed = IF row[d].outstanding > row[x].qty THEN row[d].outstanding - row[x].qty ELSE 0
              BY <1>8
            <6> QED BY <1>6, <5>1, <6>1
          <5> QED BY <4>1, <5>2
        <4>2. CASE ~row[d].paid
          <5>1. row[x].refund = "Credit Available"
            BY <1>5, <4>2
          <5>2. owed = IF row[d].outstanding > row[x].qty THEN row[d].outstanding - row[x].qty ELSE 0
            BY <1>8, <5>1
          <5>3. row[d].outstanding = row[d].qty - InBooks(d)
            BY <1>5, <3>2, <4>2 DEF AmountsOK
          <5>4. InBooks(d) + row[x].qty <= Credited(d)
            BY <1>0, <1>1, <1>4, <1>5, DraftFits DEF IsNote
          <5>5. owed = row[d].qty - InBooks(d)'
            BY <1>6, <1>17, <3>1, <5>2, <5>3, <5>4
          <5> QED BY <4>2, <5>5
        <4> QED BY <4>1, <4>2
      <3>3. Credited(d)' <= row[d].qty
        BY <1>17, <3>1
      <3>4. posted'[d] = posted[d] /\ refunds'[d] = refunds[d] /\ awards'[d] = awards[d]
        BY <1>5, <1>14 DEF Others
      <3>5. /\ row'[d].st = row[d].st /\ row'[d].qty = row[d].qty /\ row'[d].paid = row[d].paid
            /\ row'[d].refund = row[d].refund /\ row'[d].outstanding = owed /\ ~IsReturn(row'[d])
        BY <1>5, <1>11 DEF SameCore, IsReturn
      <3>6. row'[d].st = "Submitted" => row'[d].outstanding = IF row'[d].paid THEN 0 ELSE row'[d].qty - InBooks(d)'
        BY <3>2, <3>5, Zenon
      <3> QED BY <1>5, <3>3, <3>4, <3>5, <3>6 DEF AmountsOK
    <2>3. \A e \in Docs \ {x} : ~Credits(x, e) \/ row[e].st = "Draft" => Calm(e)
      BY <1>0, <1>5, <1>14 DEF Credits
    <2>4. \A e \in Docs \ {x} : Credits(x, e) => AmountsOK(e)'
      BY <1>15, <2>2
    <2> QED BY <1>1, <1>5, <1>13, <1>14, <2>1, <2>3, <2>4, DocsStep DEF IInv
  <1>21. UnitsOK'
    <2>1. SumOver(Worth, Docs)' = SumOver(Worth, Docs) - WorthOf(x) + WorthOf(x)' - WorthOf(d) + WorthOf(d)'
      BY <1>1, <1>5, <1>13, <1>14, <1>15, WorthOfTwo
    <2>2. SumOver(Worth, Docs) \in Int /\ SumOver(Worth, Docs) <= paidUnits /\ paidUnits \in Nat
      BY <1>1, WorthTypes, SumType, InvoiceAssumption DEF IInv, UnitsOK, Typed
    <2>3. WorthOf(x)' = WorthOf(x)
      BY <1>4, <1>5, <1>7, <1>11 DEF WorthOf, Live
    <2>4. WorthOf(d)' = WorthOf(d) \/ WorthOf(d)' = WorthOf(d) - off
      <3>1. CASE row[d].paid
        <4>1. WorthOf(d) = row[d].qty - Taken(d) /\ WorthOf(d)' = row[d].qty - Taken(d)'
          BY <1>11, <3>1 DEF WorthOf, SameCore
        <4>2. Taken(d)' = Taken(d) + off /\ off \in Nat
          BY <1>16, <1>17
        <4> QED BY <1>6, <4>1, <4>2
      <3>2. CASE ~row[d].paid
        BY <1>5, <1>11, <3>2 DEF WorthOf, SameCore
      <3> QED BY <3>1, <3>2
    <2>5. WorthOf(x) \in Int /\ WorthOf(d) \in Int /\ off \in Nat
      BY <1>1, <1>5, <1>16, WorthTypes DEF Ints, Worth
    <2>6. SumOver(Worth, Docs)' <= SumOver(Worth, Docs) /\ SumOver(Worth, Docs)' \in Int
      BY <2>1, <2>2, <2>3, <2>4, <2>5
    <2>7. SumOver(Worth, Docs)' <= paidUnits
      BY <2>2, <2>6
    <2> QED BY <1>3, <2>7 DEF UnitsOK
  <1>22. ReqsOK'
    BY <1>0, <1>1, <1>13, <1>14, <1>19, ReqsCommit DEF IInv
  <1> QED BY <1>20, <1>21, <1>22 DEF IInv

----------------------------------------------------------------------------
(* The invariant *)

LEMMA InitHolds ==
  Init => IInv
  <1> SUFFICES ASSUME Init PROVE IInv
    OBVIOUS
  <1>1. Typed
    <2>1. NoRow \in Rows
      <3>1. 0 \in 0..MaxQty
        BY InvoiceAssumption
      <3> QED BY <3>1 DEF NoRow, Rows
    <2> QED BY <2>1 DEF Init, Typed
  <1>2. \A d \in Docs : /\ row[d].st = "none" /\ row[d].against = None /\ row[d].qty = 0 /\ row[d].paid = FALSE
                        /\ row[d].refund = "Not Applicable" /\ posted[d] = 0 /\ refunds[d] = 0 /\ awards[d] = 0
    BY DEF Init, NoRow
  <1>3. \A d \in Docs : Credited(d) = 0
    <2> SUFFICES ASSUME NEW d \in Docs PROVE Credited(d) = 0
      OBVIOUS
    <2>1. \A n \in Docs : ~IsNote(n, d)
      BY <1>2, InvoiceAssumption DEF IsNote
    <2> QED BY <1>1, <2>1, NoNotes
  <1>4. DocsOK
    <2> SUFFICES ASSUME NEW d \in Docs PROVE DocOK(d)
      BY <1>1 DEF DocsOK
    <2>1. RowOK(d)
      BY <1>2 DEF RowOK, IsReturn
    <2>2. NoteOK(d)
      BY <1>2 DEF NoteOK, IsReturn
    <2>3. AmountsOK(d)
      <3>1. Credited(d) <= row[d].qty /\ awards[d] <= 1
        <4>1. Credited(d) = 0
          BY <1>3
        <4>2. row[d].qty = 0 /\ awards[d] = 0
          BY <1>2
        <4> QED BY <4>1, <4>2
      <3>2. row[d].st = "none" /\ row[d].refund = "Not Applicable" /\ posted[d] = 0 /\ refunds[d] = 0
        BY <1>2
      <3> QED BY <3>1, <3>2 DEF AmountsOK
    <2> QED BY <2>1, <2>2, <2>3 DEF DocOK
  <1>5. UnitsOK
    <2>1. \A d \in Docs : Worth[d] = 0
      BY <1>2 DEF Worth, WorthOf
    <2>2. SumOver(Worth, Docs) = 0 /\ paidUnits = 0
      BY <2>1, SumZero, InvoiceAssumption DEF Init
    <2> QED BY <2>2 DEF UnitsOK
  <1>6. ReqsOK
    BY DEF Init, ReqsOK, ReqTyped, AloneOK, ReqOK
  <1> QED BY <1>4, <1>5, <1>6 DEF IInv

LEMMA CommitKeeps ==
  ASSUME IInv, NEW c \in Clients, Commit(c)
  PROVE  IInv'
  <1>1. CASE CommitSubmit(c)
    BY <1>1, SubmitInvoiceKeeps, SubmitNoteKeeps
  <1>2. CASE CommitAward(c)
    BY <1>2, AwardKeeps
  <1>3. CASE CommitCancel(c)
    BY <1>3, CancelInvoiceKeeps, CancelNoteKeeps
  <1>4. CASE CommitMarkPaid(c)
    BY <1>4, MarkPaidKeeps
  <1>5. CASE CommitRefund(c)
    BY <1>5, RefundKeeps
  <1>6. CASE \E qty \in 1..MaxQty : CommitUpdate(c, qty) \/ \E new \in Docs : CommitReturn(c, new, qty)
    BY <1>6, UpdateKeeps, ReturnKeeps
  <1> QED BY <1>1, <1>2, <1>3, <1>4, <1>5, <1>6 DEF Commit

LEMMA InductiveStep ==
  ASSUME ~Overlap, ~CancelSettled
  PROVE  IInv /\ [Next]_vars => IInv'
  <1> SUFFICES ASSUME IInv, [Next]_vars PROVE IInv'
    OBVIOUS
  <1>1. CASE \E d \in Docs, qty \in 1..MaxQty : Create(d, qty)
    BY <1>1, CreateKeeps
  <1>2. CASE \E d, new \in Docs : Amend(d, new)
    BY <1>2, AmendKeeps
  <1>3. CASE \E d \in Docs : Free(d) /\ Delete(d)
    BY <1>3, DeleteInvoiceKeeps, DeleteNoteKeeps
  <1>4. CASE \E c \in Clients, d \in Docs : LoadAny(c, d)
    BY <1>4, LoadsKeep
  <1>5. CASE \E c \in Clients : Commit(c) \/ Fail(c)
    BY <1>5, CommitKeeps, FailKeeps
  <1>6. CASE UNCHANGED vars
    <2>1. /\ row' = row /\ posted' = posted /\ refunds' = refunds /\ awards' = awards /\ req' = req
          /\ paidUnits' = paidUnits
      BY <1>6 DEF vars
    <2>2. awards \in [Docs -> Nat] /\ \A e \in Docs : awards[e] <= 1
      BY DEF IInv, DocsOK, Typed, DocOK, AmountsOK
    <2>3. /\ DocsOK' /\ UnitsOK' /\ Typed /\ Typed'
          /\ \A d \in Docs : Credited(d)' = Credited(d) /\ Credited(d) \in Int
      BY <2>1, <2>2, RowsSame DEF IInv
    <2>4. ReqsOK'
      <3>1. ReqTyped' /\ AloneOK'
        BY <2>1 DEF IInv, ReqsOK, ReqTyped, AloneOK
      <3>2. ASSUME NEW e \in Clients, req[e] # None PROVE req[e] \in Requests /\ Seen(req[e])'
        <4>1. PICK p : p = req[e]
          OBVIOUS
        <4>2. p \in Requests /\ Seen(p)
          BY <3>2, <4>1 DEF IInv, ReqsOK, ReqOK
        <4>3. Credited(p.doc)' = Credited(p.doc)
          BY <2>3, <4>2 DEF Requests
        <4>4. Seen(p)'
          BY <2>1, <4>2, <4>3 DEF Seen, SameCore, IsReturn, Settled
        <4> QED BY <2>1, <4>1, <4>2, <4>4
      <3> QED BY <2>1, <3>1, <3>2 DEF ReqsOK, ReqOK
    <2> QED BY <2>3, <2>4 DEF IInv
  <1> QED BY <1>1, <1>2, <1>3, <1>4, <1>5, <1>6 DEF Next

\* Every handler leaves the documents, the books and the requests under way as they have
\* to be, when no two requests change one document at once and nothing settled is
\* cancelled (sales_invoice_controller.go).
THEOREM Inductive ==
  ASSUME ~Overlap, ~CancelSettled
  PROVE  Spec => []IInv
  <1>1. IInv /\ [Next]_vars => IInv'
    BY InductiveStep
  <1> QED BY <1>1, InitHolds, PTL DEF Spec

----------------------------------------------------------------------------
(* What follows *)

\* The rows hold only what the controller writes, and a Credit Note is made against an
\* invoice (CreateReturn).
THEOREM TypeCorrect ==
  ASSUME ~Overlap, ~CancelSettled
  PROVE  Spec => []TypeOK
  <1>1. IInv => TypeOK
    <2> SUFFICES ASSUME IInv PROVE TypeOK
      OBVIOUS
    <2>1. Typed
      BY DEF IInv, DocsOK
    <2>2. ASSUME NEW d \in Docs, IsReturn(row[d])
          PROVE  row[row[d].against].st # "none" /\ ~IsReturn(row[row[d].against])
      <3>1. NoteOK(d)
        BY DEF IInv, DocsOK, DocOK
      <3> QED BY <2>2, <3>1 DEF NoteOK
    <2>3. ASSUME NEW c \in Clients, req[c] # None
          PROVE  req[c].op \in Ops /\ req[c].doc \in Docs /\ req[c].seen \in Rows /\ req[c].left \in 0..MaxQty
      BY <2>3 DEF IInv, ReqsOK, ReqOK, Requests
    <2> QED BY <2>1, <2>2, <2>3 DEF TypeOK, Typed
  <1> QED BY <1>1, Inductive, PTL

\* All Credit Notes of an invoice that are not cancelled together are never over what was
\* sold: what CreateReturn has counted is still free when it inserts the draft.
THEOREM NeverOverCredited ==
  ASSUME ~Overlap, ~CancelSettled
  PROVE  Spec => []CreditsWithinSale
  <1>1. IInv => CreditsWithinSale
    <2> SUFFICES ASSUME IInv, NEW d \in Docs, ~IsReturn(row[d])
                 PROVE  Sum({n \in Notes(d) : row[n].st \in {"Draft", "Submitted"}}) <= row[d].qty
      BY DEF CreditsWithinSale
    <2>1. Sum({n \in Notes(d) : row[n].st \in {"Draft", "Submitted"}}) = Credited(d)
      BY SumsAre DEF IInv, DocsOK
    <2>2. Credited(d) <= row[d].qty
      BY DEF IInv, DocsOK, DocOK, AmountsOK
    <2> QED BY <2>1, <2>2
  <1> QED BY <1>1, Inductive, PTL

\* What is owed, posted, refunded and awarded agrees with the statuses of the documents,
\* whatever a Submit wrote over and however often it is repeated.
THEOREM BooksAgree ==
  ASSUME ~Overlap, ~CancelSettled
  PROVE  Spec => []AccountsAgree
  <1>1. IInv => AccountsAgree
    <2> SUFFICES ASSUME IInv, NEW d \in Docs
                 PROVE  /\ row[d].st = "Submitted" /\ ~IsReturn(row[d])
                             => row[d].outstanding = IF row[d].paid THEN 0
                                     ELSE row[d].qty - Sum({n \in Notes(d) : row[n].st = "Submitted"})
                        /\ posted[d] = IF row[d].st \in {"Submitted", "Cancelled"} THEN 1 ELSE 0
                        /\ refunds[d] = IF row[d].refund = "Refunded" THEN 1 ELSE 0
                        /\ awards[d] <= 1
      BY DEF AccountsAgree
    <2>1. Sum({n \in Notes(d) : row[n].st = "Submitted"}) = InBooks(d)
      BY SumsAre DEF IInv, DocsOK
    <2>2. AmountsOK(d)
      BY DEF IInv, DocsOK, DocOK
    <2> QED BY <2>1, <2>2, Zenon DEF AmountsOK
  <1> QED BY <1>1, Inductive, PTL

\* The refunds of all Credit Notes together cover no more units than were paid for
\* (MarkPaid, CreateReturn, Refund); of the money paid for a unit nothing is said.
THEOREM RefundsArePaidFor ==
  ASSUME ~Overlap, ~CancelSettled
  PROVE  Spec => []RefundedUnitsWerePaid
  <1>1. IInv => RefundedUnitsWerePaid
    <2> SUFFICES ASSUME IInv PROVE RefundedUnitsWerePaid
      OBVIOUS
    <2>1. Typed /\ \A d \in Docs : RowOK(d) /\ AmountsOK(d)
      BY DEF IInv, DocsOK, DocOK
    <2>2. ASSUME NEW d \in Docs
          PROVE  PaidBack[d] \in Int /\ Worth[d] \in Int /\ PaidBack[d] <= Worth[d]
      <3>1. row[d].qty \in Nat /\ Credited(d) \in Nat /\ Taken(d) \in Nat /\ Taken(d) <= Credited(d)
        BY <2>1, RowFields, SumTypes
      <3>2. PaidBack[d] = refunds[d] * row[d].qty /\ Worth[d] = WorthOf(d)
        BY DEF PaidBack, Worth
      <3>3. RowOK(d) /\ AmountsOK(d)
        BY <2>1
      <3>4. CASE row[d].refund = "Refunded"
        <4>1. refunds[d] = 1 /\ row[d].st = "Submitted" /\ IsReturn(row[d])
          BY <3>3, <3>4 DEF RowOK, AmountsOK
        <4>2. ~row[d].paid
          BY <3>3, <4>1 DEF RowOK
        <4>3. WorthOf(d) = row[d].qty
          BY <3>4, <4>1, <4>2 DEF WorthOf, Live
        <4>4. refunds[d] * row[d].qty = row[d].qty
          BY <3>1, <4>1
        <4> QED BY <3>1, <3>2, <4>3, <4>4
      <3>5. CASE row[d].refund # "Refunded"
        <4>1. refunds[d] = 0
          BY <3>3, <3>5 DEF AmountsOK
        <4>2. PaidBack[d] = 0
          BY <3>1, <3>2, <4>1
        <4>3. WorthOf(d) \in Nat
          <5>1. CASE row[d].paid
            <6>1. Credited(d) <= row[d].qty /\ WorthOf(d) = row[d].qty - Taken(d)
              BY <3>3, <5>1 DEF RowOK, AmountsOK, WorthOf
            <6> QED BY <3>1, <6>1
          <5>2. CASE ~row[d].paid
            <6>1. WorthOf(d) \in {0, row[d].qty}
              BY <5>2 DEF WorthOf
            <6> QED BY <3>1, <6>1
          <5> QED BY <5>1, <5>2
        <4> QED BY <3>2, <4>2, <4>3
      <3> QED BY <3>4, <3>5
    <2>3. Ints(PaidBack, Docs) /\ Ints(Worth, Docs) /\ \A d \in Docs : PaidBack[d] <= Worth[d]
      BY <2>2 DEF Ints
    <2>4. SumOver(PaidBack, Docs) <= SumOver(Worth, Docs)
      BY <2>3, SumLeq, InvoiceAssumption
    <2>5. SumOver(PaidBack, Docs) \in Int /\ SumOver(Worth, Docs) \in Int
      BY <2>3, SumType, InvoiceAssumption
    <2>6. SumOver(Worth, Docs) <= paidUnits /\ paidUnits \in Nat
      BY <2>1 DEF IInv, UnitsOK, Typed
    <2>7. SumOver(PaidBack, Docs) <= paidUnits
      BY <2>4, <2>5, <2>6
    <2> QED BY <2>7 DEF RefundedUnitsWerePaid, SumOver
  <1> QED BY <1>1, Inductive, PTL
=============================================================================
