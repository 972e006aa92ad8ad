------------------------ MODULE StockVoucher_proofs -------------------------
(***************************************************************************)
(* The stock ledger agrees with the status of the document, for any number *)
(* of users, lines and kinds, however submits, cancels, conditional        *)
(* deletions and views of the report overlap.  The argument: nobody changes *)
(* the lines while they are read and posted, so that all requests that     *)
(* post would write the same rows, of which the unique index lets in one   *)
(* set; and a second Submit or Cancel finds at least one of its rows.      *)
(***************************************************************************)
EXTENDS StockDocuments, TLAPS

\* Every line moves something, else the unique index has nothing to refuse.
EveryLinePosts == \A k \in Kind : \A line \in Line(k) : Moves(k, line) # {}

\* The report demands no leg of a line that Submit does not post.
DemandsWhatIsPosted ==
  \A k \in Reported : \A line \in Line(k) :
    \A m \in SyncMoves(k, line) : \E n \in Moves(k, line) : n.leg = m.leg

\* What the theorems suppose, as the runs do.
Supposed ==
  ~RacingEdits /\ CreateStatus \subseteq {"Draft"} /\ EveryLinePosts /\ DemandsWhatIsPosted

----------------------------------------------------------------------------
(* The inductive invariant *)

Posted == Postings(row, lines)

LedgerIs ==
  /\ row.status \in {"absent", "Draft", "deleted"} => ledger = EmptyBag
  /\ row.status = "Submitted" => ledger = SetToBag(Posted)
  /\ row.status = "Cancelled" => ledger = SetToBag(Posted \cup Reversals(Posted))
  /\ row.status \in {"Submitted", "Cancelled"} => Posted # {}

Requests == [op : {"none", "submit", "cancel", "update", "delete", "report"},
             step : {"none", "header", "ready"}, row : Header, lines : Lines]

Typed == row \in Header /\ lines \in LinesOf(row.kind) /\ req \in [Client -> Requests]

\* A request that has read its lines has read the lines the document still has.
Read(q) ==
  q.op \in Overlapping /\ q.step = "ready" =>
    q.lines = lines /\ (q.op = "submit" => lines # Empty)

\* Where the document can be while a request is under way.
Finds(q) ==
  /\ q.row.kind = row.kind /\ q.row.status \in RequiredStatus(q.op) /\ row.status # "absent"
  /\ q.op \in {"update", "delete"} => row.status \in {"Draft", "deleted"}
  /\ q.op \in {"cancel", "report"} => row.status \in {"Submitted", "Cancelled"}
  /\ q.op = "report" => row.kind \in Reported

ReqOK(c) == Active(c) => Finds(req[c]) /\ Read(req[c])

\* Update and the unconditional Delete overlap nothing.
Alone == \A c, o \in Client :
           c # o /\ Active(c) /\ Active(o) => req[c].op \in Overlapping /\ req[o].op \in Overlapping

IInv == Typed /\ LedgerIs /\ Alone /\ \A c \in Client : ReqOK(c)

----------------------------------------------------------------------------
(* Rows *)

\* The rows of a document are those of its filled lines.
LEMMA PostingsAre ==
  ASSUME NEW h, NEW ls, NEW r
  PROVE  r \in Postings(h, ls) <=>
           \E i \in Filled(ls) : \E m \in Moves(h.kind, ls[i]) :
             r = [line |-> i, leg |-> m.leg, rev |-> FALSE, qty |-> m.qty]
  BY DEF Postings, RowsOf

LEMMA DemandedAre ==
  ASSUME NEW h, NEW ls, NEW r
  PROVE  r \in Demanded(h, ls) <=>
           \E i \in Filled(ls) : \E m \in SyncMoves(h.kind, ls[i]) :
             r = [line |-> i, leg |-> m.leg, rev |-> FALSE, qty |-> m.qty]
  BY DEF Demanded, RowsOf

LEMMA SameKindSamePostings ==
  ASSUME NEW h, NEW g, NEW ls, h.kind = g.kind
  PROVE  Postings(h, ls) = Postings(g, ls) /\ Demanded(h, ls) = Demanded(g, ls)
  BY DEF Postings, Demanded

\* The rows of a document of a kind, with lines of that kind.
LEMMA PostingsTyped ==
  ASSUME NEW h \in Header, NEW ls \in LinesOf(h.kind)
  PROVE  /\ \A r \in Postings(h, ls) : /\ r = [line |-> r.line, leg |-> r.leg, rev |-> FALSE, qty |-> r.qty]
                                       /\ r.line \in LineId /\ r.rev = FALSE /\ r.qty \in Int
         /\ EveryLinePosts /\ ls # Empty => Postings(h, ls) # {}
  <1>1. h.kind \in Kind /\ \A i \in Filled(ls) : i \in LineId /\ ls[i] \in Line(h.kind)
    BY DEF Header, Filled, LinesOf
  <1>2. ASSUME NEW r \in Postings(h, ls)
        PROVE  /\ r = [line |-> r.line, leg |-> r.leg, rev |-> FALSE, qty |-> r.qty]
               /\ r.line \in LineId /\ r.rev = FALSE /\ r.qty \in Int
    <2>1. PICK i \in Filled(ls) : \E m \in Moves(h.kind, ls[i]) :
            r = [line |-> i, leg |-> m.leg, rev |-> FALSE, qty |-> m.qty]
      BY PostingsAre
    <2>2. PICK m \in Moves(h.kind, ls[i]) :
            r = [line |-> i, leg |-> m.leg, rev |-> FALSE, qty |-> m.qty]
      BY <2>1
    <2>3. m.qty \in Int
      BY <1>1, MovesAssumption
    <2> QED BY <1>1, <2>2, <2>3
  <1>3. ASSUME EveryLinePosts, ls # Empty PROVE Postings(h, ls) # {}
    <2>1. PICK i \in LineId : ls[i] # NoLine
      BY <1>3 DEF Empty, LinesOf
    <2>2. i \in Filled(ls)
      BY <2>1 DEF Filled
    <2>3. PICK m \in Moves(h.kind, ls[i]) : TRUE
      BY <1>1, <1>3, <2>2 DEF EveryLinePosts
    <2>4. [line |-> i, leg |-> m.leg, rev |-> FALSE, qty |-> m.qty] \in Postings(h, ls)
      BY <2>2, <2>3, PostingsAre
    <2> QED BY <2>4
  <1> QED BY <1>2, <1>3

LEMMA ReversalsAre ==
  ASSUME NEW P, NEW r
  PROVE  r \in Reversals(P) <=> \E p \in P : r = [p EXCEPT !.rev = TRUE, !.qty = -@]
  BY DEF Reversals

LEMMA ReversalIs ==
  ASSUME NEW p, NEW i, NEW leg, NEW qty \in Int, p = [line |-> i, leg |-> leg, rev |-> FALSE, qty |-> qty]
  PROVE  LET r == [p EXCEPT !.rev = TRUE, !.qty = -@] IN
         r.line = i /\ r.leg = leg /\ r.rev = TRUE /\ r.qty = -qty
  OBVIOUS

\* Reversals of rows that are no reversals.
LEMMA ReversalsTyped ==
  ASSUME NEW h \in Header, NEW ls \in LinesOf(h.kind)
  PROVE  LET P == Postings(h, ls) IN
         /\ \A r \in Reversals(P) : r.line \in LineId /\ r.rev = TRUE /\ r.qty \in Int
         /\ \A r \in Reversals(P) : \E p \in P : p.line = r.line /\ p.leg = r.leg /\ p.qty = -r.qty
         /\ \A p \in P : \E r \in Reversals(P) : r.line = p.line /\ r.leg = p.leg /\ r.qty = -p.qty
         /\ P # {} => Reversals(P) # {}
         /\ P \cap Reversals(P) = {}
  <1> DEFINE P == Postings(h, ls)
             Reverse(p) == [p EXCEPT !.rev = TRUE, !.qty = -@]
  <1>1. ASSUME NEW p \in P
        PROVE  /\ Reverse(p) \in Reversals(P)
               /\ Reverse(p).line = p.line /\ Reverse(p).leg = p.leg /\ Reverse(p).rev = TRUE
               /\ Reverse(p).qty = -p.qty /\ Reverse(p).qty \in Int /\ p.qty = -Reverse(p).qty
               /\ p.line \in LineId /\ p.rev = FALSE
    <2>1. /\ p = [line |-> p.line, leg |-> p.leg, rev |-> FALSE, qty |-> p.qty]
          /\ p.line \in LineId /\ p.rev = FALSE /\ p.qty \in Int
      BY PostingsTyped
    <2>2. Reverse(p) \in Reversals(P)
      BY ReversalsAre
    <2>3. /\ Reverse(p).line = p.line /\ Reverse(p).leg = p.leg /\ Reverse(p).rev = TRUE
          /\ Reverse(p).qty = -p.qty
      BY <2>1, ReversalIs
    <2> QED BY <2>1, <2>2, <2>3
  <1>2. \A r \in Reversals(P) : \E p \in P : r = Reverse(p)
    BY ReversalsAre
  <1> HIDE DEF P, Reverse
  <1>3. \A r \in Reversals(P) : r.line \in LineId /\ r.rev = TRUE /\ r.qty \in Int
    BY <1>1, <1>2
  <1>4. P \cap Reversals(P) = {}
    BY <1>1, <1>3
  <1> QED BY <1>1, <1>2, <1>3, <1>4 DEF P

----------------------------------------------------------------------------
(* Bags *)

LEMMA BagFacts ==
  ASSUME NEW S, NEW T
  PROVE  /\ BagToSet(SetToBag(S)) = S
         /\ EmptyBag (+) SetToBag(S) = SetToBag(S)
         /\ SetToBag(S) (+) SetToBag({}) = SetToBag(S)
         /\ S \cap T = {} => SetToBag(S) (+) SetToBag(T) = SetToBag(S \cup T)
         /\ \A x \in S : SetToBag(S)[x] = 1
  <1>1. BagToSet(SetToBag(S)) = S
    BY DEF BagToSet, SetToBag
  <1>2. S \cap T = {} => SetToBag(S) (+) SetToBag(T) = SetToBag(S \cup T)
    BY DEF SetToBag, (+)
  <1>3. EmptyBag (+) SetToBag(S) = SetToBag(S)
    BY DEF EmptyBag, SetToBag, (+)
  <1>4. SetToBag(S) (+) SetToBag({}) = SetToBag(S)
    BY DEF SetToBag, (+)
  <1>5. \A x \in S : SetToBag(S)[x] = 1
    BY DEF SetToBag
  <1> QED BY <1>1, <1>2, <1>3, <1>4, <1>5

----------------------------------------------------------------------------
(* The ledger and the rows a request writes *)

\* What the statuses say of the voucher ids in the ledger.
LEMMA LedgerHas ==
  ASSUME Typed, LedgerIs
  PROVE  /\ row.status \in {"Submitted", "Cancelled"} =>
              Posted # {} /\ \A r \in Posted : r \in BagToSet(ledger)
         /\ row.status = "Cancelled" =>
              Reversals(Posted) # {} /\ \A r \in Reversals(Posted) : r \in BagToSet(ledger)
  <1>1. BagToSet(SetToBag(Posted)) = Posted
        /\ BagToSet(SetToBag(Posted \cup Reversals(Posted))) = Posted \cup Reversals(Posted)
    BY BagFacts
  <1>2. Posted # {} => Reversals(Posted) # {}
    BY ReversalsTyped DEF Typed, Posted
  <1> QED BY <1>1, <1>2 DEF LedgerIs

\* The unique index refuses what is there already.
LEMMA IndexRefuses ==
  ASSUME NEW rows, rows # {}, \A r \in rows : r \in BagToSet(ledger)
  PROVE  ~Inserts(rows)
  BY DEF Inserts

\* Submit posts only what is not posted yet.
LEMMA SubmitPosts ==
  ASSUME Typed, LedgerIs, EveryLinePosts, NEW c \in Client, ReqOK(c), CommitSubmit(c)
  PROVE  /\ row.status \in {"Draft", "deleted"} /\ lines' = lines
         /\ row' \in Header /\ row'.kind = row.kind /\ row'.status = "Submitted"
         /\ Posted' = Posted /\ Posted # {} /\ ledger' = SetToBag(Posted)
  <1> DEFINE q == req[c]
  <1>1. /\ q.op = "submit" /\ q.step = "ready" /\ q.row.kind = row.kind /\ q.lines = lines /\ lines # Empty
        /\ row.status # "absent" /\ q.row \in Header
    BY DEF CommitSubmit, ReqOK, Active, Finds, Read, Overlapping, Typed, Requests
  <1>2. Postings(q.row, q.lines) = Posted /\ Posted # {}
    <2>1. Postings(q.row, q.lines) = Posted
      BY <1>1, SameKindSamePostings DEF Posted
    <2>2. Postings(row, lines) # {}
      BY <1>1, PostingsTyped DEF Typed
    <2> QED BY <2>1, <2>2 DEF Posted
  <1>3. Inserts(Posted) /\ ledger' = ledger (+) SetToBag(Posted)
    BY <1>2 DEF CommitSubmit
  <1>4. row.status \in {"Draft", "deleted"}
    BY <1>1, <1>2, <1>3, LedgerHas, IndexRefuses DEF Typed, Header
  <1>5. ledger' = SetToBag(Posted)
    BY <1>3, <1>4, BagFacts DEF LedgerIs
  <1>6. row' \in Header /\ row'.kind = row.kind /\ row'.status = "Submitted"
    BY <1>1 DEF CommitSubmit, SaveRead, Header
  <1>7. lines' = lines
    BY <1>1 DEF CommitSubmit, SaveRead, Typed, LinesOf
  <1>8. Posted' = Posted
    BY <1>6, <1>7, SameKindSamePostings DEF Posted
  <1> QED BY <1>2, <1>4, <1>5, <1>6, <1>7, <1>8

\* Cancel reverses what was posted, once.
LEMMA CancelReverses ==
  ASSUME Typed, LedgerIs, NEW c \in Client, ReqOK(c), CommitCancel(c)
  PROVE  /\ row.status = "Submitted" /\ lines' = lines
         /\ row' \in Header /\ row'.kind = row.kind /\ row'.status = "Cancelled"
         /\ Posted' = Posted /\ Posted # {} /\ ledger' = SetToBag(Posted \cup Reversals(Posted))
  <1> DEFINE q == req[c]
  <1>1. /\ q.op = "cancel" /\ q.step = "ready" /\ q.row.kind = row.kind /\ q.lines = lines
        /\ row.status \in {"Submitted", "Cancelled"} /\ q.row \in Header
    BY DEF CommitCancel, ReqOK, Active, Finds, Read, Overlapping, Typed, Requests
  <1>2. Postings(q.row, q.lines) = Posted
    BY <1>1, SameKindSamePostings DEF Posted
  <1>3. Inserts(Reversals(Posted)) /\ ledger' = ledger (+) SetToBag(Reversals(Posted))
    BY <1>2 DEF CommitCancel
  <1>4. row.status = "Submitted"
    BY <1>1, <1>3, LedgerHas, IndexRefuses
  <1>5. Posted \cap Reversals(Posted) = {}
    BY ReversalsTyped DEF Typed, Posted
  <1>6. ledger' = SetToBag(Posted \cup Reversals(Posted)) /\ Posted # {}
    BY <1>3, <1>4, <1>5, BagFacts DEF LedgerIs
  <1>7. row' \in Header /\ row'.kind = row.kind /\ row'.status = "Cancelled"
    BY <1>1 DEF CommitCancel, SaveRead, Header
  <1>8. lines' = lines
    BY <1>1 DEF CommitCancel, SaveRead, Typed, LinesOf
  <1>9. Posted' = Posted
    BY <1>7, <1>8, SameKindSamePostings DEF Posted
  <1> QED BY <1>4, <1>6, <1>7, <1>8, <1>9

\* The report finds all rows it demands.
LEMMA ReportFindsAll ==
  ASSUME Typed, LedgerIs, DemandsWhatIsPosted, NEW c \in Client, ReqOK(c), Sync(c)
  PROVE  ledger' = ledger
  <1> DEFINE q == req[c]
  <1>1. /\ q.op = "report" /\ q.step = "ready" /\ q.row.kind = row.kind /\ q.lines = lines
        /\ row.status \in {"Submitted", "Cancelled"} /\ row.kind \in Reported
    BY DEF Sync, ReqOK, Active, Finds, Read, Overlapping
  <1>2. ASSUME NEW r \in Demanded(q.row, q.lines)
        PROVE  \E s \in BagToSet(ledger) : VoucherDetail(s) = VoucherDetail(r)
    <2>1. PICK i \in Filled(lines) : \E m \in SyncMoves(row.kind, lines[i]) :
            r = [line |-> i, leg |-> m.leg, rev |-> FALSE, qty |-> m.qty]
      BY <1>1, DemandedAre
    <2>2. PICK m \in SyncMoves(row.kind, lines[i]) :
            r = [line |-> i, leg |-> m.leg, rev |-> FALSE, qty |-> m.qty]
      BY <2>1
    <2>3. lines[i] \in Line(row.kind)
      BY DEF Typed, Filled, LinesOf
    <2>4. PICK n \in Moves(row.kind, lines[i]) : n.leg = m.leg
      BY <1>1, <2>3 DEF DemandsWhatIsPosted
    <2> DEFINE s == [line |-> i, leg |-> n.leg, rev |-> FALSE, qty |-> n.qty]
    <2>5. s \in Posted
      BY PostingsAre DEF Posted
    <2>6. s \in BagToSet(ledger)
      BY <1>1, <2>5, LedgerHas
    <2>7. VoucherDetail(s) = VoucherDetail(r)
      BY <2>2, <2>4 DEF VoucherDetail
    <2> QED BY <2>6, <2>7
  <1>3. Missing(c) = {}
    BY <1>2 DEF Missing
  <1>4. PICK rows \in SUBSET Missing(c) : ledger' = ledger (+) SetToBag(rows)
    BY DEF Sync
  <1>5. ledger' = ledger (+) SetToBag({})
    BY <1>3, <1>4
  <1>6. \E S : ledger = SetToBag(S)
    BY <1>1 DEF LedgerIs
  <1> QED BY <1>5, <1>6, BagFacts

----------------------------------------------------------------------------
(* Requests that nobody touches *)

\* A request under way finds the document it finds now.
LEMMA ReqStays ==
  ASSUME NEW o, ReqOK(o), req'[o] = req[o], lines' = lines, row'.kind = row.kind,
         row'.status = row.status
  PROVE  ReqOK(o)'
  BY DEF ReqOK, Active, Finds, Read

\* The same when the document was submitted or cancelled meanwhile.
LEMMA ReqOutlives ==
  ASSUME NEW o, ReqOK(o), req'[o] = req[o], lines' = lines, row'.kind = row.kind,
         row'.status \in {"Submitted", "Cancelled"},
         Active(o) => req[o].op \in Overlapping
  PROVE  ReqOK(o)'
  BY DEF ReqOK, Active, Finds, Read, Overlapping

\* One request goes on, the others stay.
Goes(c, q) ==
  req' \in [Client -> Requests] /\ req'[c] = q /\ \A o \in Client \ {c} : req'[o] = req[o]

LEMMA IdleIs == Idle \in Requests /\ Idle.op = "none"
  <1>1. NoHeader \in Header
    BY KindAssumption DEF NoHeader, Header
  <1>2. Empty \in Lines
    BY KindAssumption DEF Empty, Lines, LinesOf
  <1> QED BY <1>1, <1>2 DEF Idle, Requests

LEMMA Ends ==
  ASSUME Typed, NEW c \in Client, End(c)
  PROVE  Goes(c, Idle)
  BY IdleIs DEF Typed, End, Goes

\* A request that goes on without changing its kind, or ends, stays alone.
LEMMA AloneStays ==
  ASSUME Alone, NEW c \in Client, NEW q, Goes(c, q), q.op \in {"none", req[c].op}
  PROVE  Alone'
  BY DEF Alone, Active, Goes

\* A request that has ended leaves nothing to say.
LEMMA EndedOK ==
  ASSUME NEW c \in Client, Goes(c, Idle)
  PROVE  ReqOK(c)'
  BY IdleIs DEF ReqOK, Active, Goes

----------------------------------------------------------------------------
(* The steps *)

LEMMA CreateKeeps ==
  ASSUME IInv, CreateStatus \subseteq {"Draft"}, NEW k \in Kind, NEW s \in CreateStatus,
         NEW ls \in LinesOf(k), Create(k, s, ls)
  PROVE  IInv'
  <1>1. \A c \in Client : ~Active(c)
    BY DEF IInv, ReqOK, Finds, Create
  <1>2. /\ s = "Draft" /\ row' = [status |-> "Draft", kind |-> k] /\ lines' = ls
        /\ ledger' = ledger /\ req' = req /\ ledger = EmptyBag
    BY DEF Create, IInv, LedgerIs
  <1>3. Typed'
    BY <1>2 DEF IInv, Typed, Header
  <1>4. LedgerIs'
    BY <1>2 DEF LedgerIs
  <1>5. \A c \in Client : ~Active(c)'
    BY <1>1, <1>2 DEF Active
  <1> QED BY <1>3, <1>4, <1>5 DEF IInv, Alone, ReqOK

\* The conditional Delete of a draft, whoever reads or posts it meanwhile.
LEMMA DeleteDraftKeeps ==
  ASSUME IInv, DeleteDraft
  PROVE  IInv'
  <1>1. /\ row.status = "Draft" /\ row' = [row EXCEPT !.status = "deleted"] /\ row \in Header
        /\ lines' = lines /\ ledger' = ledger /\ req' = req
    BY DEF DeleteDraft, IInv, Typed
  <1>2. row' \in Header /\ row'.kind = row.kind /\ row'.status = "deleted"
    BY <1>1 DEF Header
  <1>3. Typed' /\ LedgerIs' /\ Alone'
    BY <1>1, <1>2 DEF IInv, Typed, LedgerIs, Alone, Active
  <1>4. ASSUME NEW c \in Client PROVE ReqOK(c)'
    <2>1. Finds(req[c]) /\ Read(req[c]) => Finds(req[c])' /\ Read(req[c])'
      BY <1>1, <1>2 DEF Finds, Read
    <2> QED BY <1>1, <2>1 DEF IInv, ReqOK, Active
  <1> QED BY <1>3, <1>4 DEF IInv

LEMMA BeginKeeps ==
  ASSUME IInv, ~RacingEdits, NEW c \in Client,
         NEW op \in {"submit", "cancel", "update", "delete", "report"}, ReadHeader(c, op),
         op = "report" => row.kind \in Reported
  PROVE  IInv'
  <1> DEFINE q == [op |-> op, step |-> "header", row |-> row, lines |-> Empty]
  <1>1. row' = row /\ lines' = lines /\ ledger' = ledger /\ row.status \in RequiredStatus(op)
    BY DEF ReadHeader
  <1>2. q \in Requests
    BY IdleIs DEF IInv, Typed, Requests, Idle
  <1>3. Goes(c, q)
    BY <1>2 DEF ReadHeader, Goes, IInv, Typed
  <1>4. Typed' /\ LedgerIs'
    BY <1>1, <1>3 DEF IInv, Typed, LedgerIs, Goes, Posted, Postings
  <1>5. \A o \in Client \ {c} : Active(o) => op \in Overlapping /\ req[o].op \in Overlapping
    BY DEF ReadHeader, MayOverlap
  <1>6. Alone'
    BY <1>3, <1>5 DEF IInv, Alone, Active, Goes
  <1>7. ReqOK(c)'
    BY <1>1, <1>3 DEF Goes, ReqOK, Active, Finds, Read, RequiredStatus
  <1>8. \A o \in Client \ {c} : ReqOK(o)'
    BY <1>1, <1>3, ReqStays DEF IInv, Goes
  <1> QED BY <1>4, <1>6, <1>7, <1>8 DEF IInv

LEMMA ReadLinesKeeps ==
  ASSUME IInv, NEW c \in Client, ReadLines(c)
  PROVE  IInv'
  <1>0. PICK q : q = [req[c] EXCEPT !.step = "ready", !.lines = lines]
    OBVIOUS
  <1>1. /\ row' = row /\ lines' = lines /\ ledger' = ledger
        /\ req[c].op \in Overlapping /\ (req[c].op = "submit" => lines # Empty)
        /\ req[c] \in Requests /\ req' = [req EXCEPT ![c] = q]
    BY <1>0 DEF ReadLines, IInv, Typed
  <1>2. lines \in Lines
    BY DEF IInv, Typed, Lines, Header
  <1>3. /\ q \in Requests /\ q.op = req[c].op /\ q.step = "ready" /\ q.lines = lines /\ q.row = req[c].row
    BY <1>0, <1>1, <1>2 DEF Requests
  <1>4. Goes(c, q)
    BY <1>1, <1>3 DEF Goes, IInv, Typed
  <1>5. Typed' /\ LedgerIs'
    BY <1>1, <1>4 DEF IInv, Typed, LedgerIs, Goes, Posted, Postings
  <1>6. Alone'
    BY <1>3, <1>4, AloneStays DEF IInv
  <1>7. ReqOK(c)'
    <2>1. Finds(req[c])
      BY <1>1 DEF IInv, ReqOK, Active, Overlapping
    <2>2. Finds(q)'
      BY <1>1, <1>3, <2>1 DEF Finds
    <2>3. Read(q)'
      BY <1>1, <1>3 DEF Read
    <2> QED BY <1>4, <2>2, <2>3 DEF Goes, ReqOK
  <1>8. \A o \in Client \ {c} : ReqOK(o)'
    BY <1>1, <1>4, ReqStays DEF IInv, Goes
  <1> QED BY <1>5, <1>6, <1>7, <1>8 DEF IInv

\* The end of a request that may overlap others, when the document's kind and lines stay.
LEMMA PostedKeeps ==
  ASSUME IInv, NEW c \in Client, End(c), req[c].op \in Overlapping,
         row' \in Header, row'.kind = row.kind, lines' = lines,
         row'.status \in {"Submitted", "Cancelled"}, LedgerIs'
  PROVE  IInv'
  <1>1. Goes(c, Idle) /\ ReqOK(c)'
    BY Ends, EndedOK DEF IInv
  <1>2. Typed' /\ Alone'
    BY <1>1, AloneStays, IdleIs DEF IInv, Typed, Goes
  <1>3. Active(c)
    BY DEF Active, Overlapping
  <1>4. ASSUME NEW o \in Client \ {c} PROVE ReqOK(o)'
    BY <1>1, <1>3, ReqOutlives DEF IInv, Alone, Goes
  <1> QED BY <1>1, <1>2, <1>4 DEF IInv

LEMMA SubmitKeeps ==
  ASSUME IInv, EveryLinePosts, NEW c \in Client, CommitSubmit(c)
  PROVE  IInv'
  <1>1. /\ lines' = lines /\ row' \in Header /\ row'.kind = row.kind /\ row'.status = "Submitted"
        /\ Posted' = Posted /\ Posted # {} /\ ledger' = SetToBag(Posted)
    BY SubmitPosts DEF IInv
  <1>2. LedgerIs'
    BY <1>1 DEF LedgerIs
  <1> QED BY <1>1, <1>2, PostedKeeps DEF CommitSubmit, Overlapping

LEMMA CancelKeeps ==
  ASSUME IInv, NEW c \in Client, CommitCancel(c)
  PROVE  IInv'
  <1>1. /\ lines' = lines /\ row' \in Header /\ row'.kind = row.kind /\ row'.status = "Cancelled"
        /\ Posted' = Posted /\ Posted # {} /\ ledger' = SetToBag(Posted \cup Reversals(Posted))
    BY CancelReverses DEF IInv
  <1>2. Reversals(Posted)' = Reversals(Posted)
    BY <1>1 DEF Reversals
  <1>3. LedgerIs'
    BY <1>1, <1>2 DEF LedgerIs
  <1> QED BY <1>1, <1>3, PostedKeeps DEF CommitCancel, Overlapping

\* A request that ends without having changed the document.
LEMMA EndKeeps ==
  ASSUME IInv, NEW c \in Client, End(c), UNCHANGED <<row, lines, ledger>>
  PROVE  IInv'
  <1>1. Goes(c, Idle) /\ ReqOK(c)'
    BY Ends, EndedOK DEF IInv
  <1>2. Typed' /\ Alone' /\ LedgerIs'
    BY <1>1, AloneStays, IdleIs DEF IInv, Typed, Goes, LedgerIs, Posted, Postings
  <1>3. \A o \in Client \ {c} : ReqOK(o)'
    BY <1>1, ReqStays DEF IInv, Goes
  <1> QED BY <1>1, <1>2, <1>3 DEF IInv

LEMMA Stutters ==
  ASSUME IInv, UNCHANGED vars
  PROVE  IInv'
  BY ReqStays DEF vars, IInv, Typed, LedgerIs, Posted, Postings, Alone, Active

LEMMA SyncKeeps ==
  ASSUME IInv, DemandsWhatIsPosted, NEW c \in Client, Sync(c)
  PROVE  IInv'
  <1>1. ledger' = ledger /\ row' = row /\ lines' = lines
    BY ReportFindsAll DEF IInv, Sync
  <1>2. CASE req' = req
    BY <1>1, <1>2, Stutters DEF vars
  <1>3. CASE End(c)
    BY <1>1, <1>3, EndKeeps
  <1> QED BY <1>2, <1>3 DEF Sync, End

\* Update and the unconditional Delete are alone, and the document a draft or deleted.
LEMMA EditKeeps ==
  ASSUME IInv, NEW c \in Client, End(c), req[c].op \in {"update", "delete"},
         row' \in Header, row'.status \in {"Draft", "deleted"}, lines' \in LinesOf(row'.kind),
         ledger' = ledger
  PROVE  IInv'
  <1>1. Goes(c, Idle) /\ ReqOK(c)'
    BY Ends, EndedOK DEF IInv
  <1>2. Active(c) /\ row.status \in {"Draft", "deleted"}
    BY DEF Active, IInv, ReqOK, Finds
  <1>3. ASSUME NEW o \in Client \ {c} PROVE ~Active(o)
    BY <1>2 DEF IInv, Alone, Overlapping
  <1>4. ASSUME NEW o \in Client \ {c} PROVE ReqOK(o)'
    BY <1>1, <1>3 DEF Goes, ReqOK, Active
  <1>5. Typed' /\ Alone' /\ LedgerIs'
    BY <1>1, <1>2, AloneStays, IdleIs DEF IInv, Typed, Goes, LedgerIs
  <1> QED BY <1>1, <1>4, <1>5 DEF IInv

LEMMA UpdateKeeps ==
  ASSUME IInv, NEW c \in Client, NEW k \in Kind, NEW ls \in LinesOf(k), CommitUpdate(c, k, ls)
  PROVE  IInv'
  <1>1. req[c] \in Requests /\ req[c].row.status = "Draft"
    BY DEF IInv, Typed, ReqOK, Active, Finds, RequiredStatus, CommitUpdate
  <1>2. row' \in Header /\ row'.status = "Draft" /\ row'.kind = k
    BY <1>1 DEF CommitUpdate, Requests, Header
  <1> QED BY <1>2, EditKeeps DEF CommitUpdate

LEMMA DeleteKeeps ==
  ASSUME IInv, NEW c \in Client, CommitDelete(c)
  PROVE  IInv'
  <1>1. row' \in Header /\ row'.status = "deleted"
    BY DEF CommitDelete, IInv, Typed, Header
  <1>2. lines' \in LinesOf(row'.kind)
    BY DEF CommitDelete, LinesOf, Empty
  <1> QED BY <1>1, <1>2, EditKeeps DEF CommitDelete

----------------------------------------------------------------------------
(* The theorems *)

LEMMA InitHolds == Init => IInv
  <1> SUFFICES ASSUME Init PROVE IInv
    OBVIOUS
  <1>1. row \in Header /\ row.status = "absent"
    BY KindAssumption DEF Init, NoHeader, Header
  <1>2. Typed
    BY <1>1, IdleIs DEF Init, Typed, LinesOf, Empty
  <1>3. LedgerIs
    BY <1>1 DEF Init, LedgerIs
  <1>4. \A c \in Client : ~Active(c)
    BY IdleIs DEF Init, Active
  <1> QED BY <1>2, <1>3, <1>4 DEF IInv, Alone, ReqOK

LEMMA InductiveStep ==
  ASSUME Supposed, IInv, [Next]_vars
  PROVE  IInv'
  <1> USE DEF Supposed
  <1>1. CASE \E k \in Kind, s \in CreateStatus : \E ls \in LinesOf(k) : Create(k, s, ls)
    BY <1>1, CreateKeeps
  <1>2. CASE DeleteDraft
    BY <1>2, DeleteDraftKeeps
  <1>3. ASSUME NEW c \in Client,
               BeginSubmit(c) \/ BeginCancel(c) \/ BeginUpdate(c) \/ BeginDelete(c) \/ BeginReport(c)
        PROVE  IInv'
    <2>1. \E op \in {"submit", "cancel", "update", "delete", "report"} :
            ReadHeader(c, op) /\ (op = "report" => row.kind \in Reported)
      BY <1>3 DEF BeginSubmit, BeginCancel, BeginUpdate, BeginDelete, BeginReport
    <2> QED BY <2>1, BeginKeeps
  <1>4. ASSUME NEW c \in Client, ReadLines(c) \/ CommitSubmit(c) \/ CommitCancel(c) \/ Sync(c)
        PROVE  IInv'
    BY <1>4, ReadLinesKeeps, SubmitKeeps, CancelKeeps, SyncKeeps
  <1>5. ASSUME NEW c \in Client,
               (\E k \in Kind : \E ls \in LinesOf(k) : CommitUpdate(c, k, ls)) \/ CommitDelete(c)
        PROVE  IInv'
    BY <1>5, UpdateKeeps, DeleteKeeps
  <1>6. ASSUME NEW c \in Client, Fail(c) PROVE IInv'
    BY <1>6, EndKeeps DEF Fail
  <1>7. CASE UNCHANGED vars
    BY <1>7, Stutters
  <1> QED BY <1>1, <1>2, <1>3, <1>4, <1>5, <1>6, <1>7 DEF Next

\* The invariant holds of every run.
THEOREM Inductive == ASSUME Supposed PROVE Spec => []IInv
  <1>1. IInv /\ [Next]_vars => IInv'
    BY InductiveStep
  <1> QED BY <1>1, InitHolds, PTL DEF Spec

\* The document, its ledger rows and the requests hold what the controllers write.
THEOREM TypeCorrect == ASSUME Supposed PROVE Spec => []TypeOK
  <1>1. ASSUME IInv PROVE TypeOK
    <2>1. lines \in Lines /\ row \in Header /\ req \in [Client -> Requests]
      BY <1>1 DEF IInv, Typed, Lines, Header
    <2>2. \A r \in Posted \cup Reversals(Posted) : r.line \in LineId /\ r.rev \in BOOLEAN /\ r.qty \in Int
      <3> DEFINE P == Postings(row, lines)
      <3>1. row \in Header /\ lines \in LinesOf(row.kind)
        BY <1>1 DEF IInv, Typed
      <3>2. \A r \in P : r.line \in LineId /\ r.rev = FALSE /\ r.qty \in Int
        BY <3>1, PostingsTyped
      <3>3. \A r \in Reversals(P) : r.line \in LineId /\ r.rev = TRUE /\ r.qty \in Int
        BY <3>1, ReversalsTyped
      <3> HIDE DEF P
      <3>4. Posted = P
        BY DEF P, Posted
      <3> QED BY <3>2, <3>3, <3>4
    <2>3. \A r \in BagToSet(ledger) : r \in Posted \cup Reversals(Posted)
      <3>1. \A S : BagToSet(SetToBag(S)) = S
        BY BagFacts
      <3>2. \E S \in SUBSET (Posted \cup Reversals(Posted)) : ledger = SetToBag(S)
        BY <1>1 DEF IInv, Typed, LedgerIs, Header, EmptyBag
      <3> QED BY <3>1, <3>2
    <2> QED BY <2>1, <2>2, <2>3 DEF TypeOK, Requests
  <1> QED BY <1>1, Inductive, PTL

\* The movements of a document are what its status says: none of a draft, those of its
\* lines, once, when it is submitted, and each with its reversal when it is cancelled
\* (Submit and Cancel of the stock controllers, syncMissingSLEs of the report).
THEOREM LedgerAgrees == ASSUME Supposed PROVE Spec => []LedgerFollowsStatus
  <1>1. ASSUME IInv PROVE LedgerFollowsStatus
    <2>1. DraftUnposted /\ SubmittedPosted
      BY <1>1 DEF IInv, LedgerIs, DraftUnposted, SubmittedPosted, Posted
    <2>2. ASSUME row.status = "Cancelled" PROVE CancelledReversed
      <3> DEFINE P == Posted
                 R == Reversals(Posted)
      <3>1. ledger = SetToBag(P \cup R)
        BY <1>1, <2>2 DEF IInv, LedgerIs
      <3>2. BagToSet(ledger) = P \cup R /\ \A r \in P \cup R : ledger[r] = 1
        BY <3>1, BagFacts
      <3>3. /\ \A r \in P : r.rev = FALSE
            /\ \A r \in R : r.rev = TRUE
        BY <1>1, PostingsTyped, ReversalsTyped DEF IInv, Typed, Posted
      <3>4. ASSUME NEW r \in P \cup R
            PROVE  \E s \in P \cup R : /\ s.line = r.line /\ s.leg = r.leg
                                       /\ s.rev # r.rev /\ s.qty = -r.qty
        <4>1. CASE r \in P
          <5>1. PICK s \in R : s.line = r.line /\ s.leg = r.leg /\ s.qty = -r.qty
            BY <1>1, <4>1, ReversalsTyped DEF IInv, Typed, Posted
          <5> QED BY <3>3, <4>1, <5>1
        <4>2. CASE r \in R
          <5>1. PICK p \in P : p.line = r.line /\ p.leg = r.leg /\ p.qty = -r.qty
            BY <1>1, <4>2, ReversalsTyped DEF IInv, Typed, Posted
          <5> QED BY <3>3, <4>2, <5>1
        <4> QED BY <4>1, <4>2
      <3>5. {r \in P \cup R : ~r.rev} = P
        BY <3>3
      <3> HIDE DEF P, R
      <3> QED BY <3>2, <3>4, <3>5 DEF CancelledReversed, P, Posted
    <2> QED BY <2>1, <2>2 DEF LedgerFollowsStatus, CancelledReversed
  <1> QED BY <1>1, Inductive, PTL

----------------------------------------------------------------------------
(* What the requests do to a document that was submitted *)

LEMMA OncePosted ==
  ASSUME Supposed, IInv, Next, row.status \in {"Submitted", "Cancelled"}
  PROVE  /\ lines' = lines /\ row'.kind = row.kind
         /\ row' = row => ledger' = ledger
  <1> USE DEF Supposed
  <1>1. Typed /\ LedgerIs /\ \A c \in Client : ReqOK(c)
    BY DEF IInv
  <1>2. ASSUME NEW k \in Kind, NEW s \in CreateStatus, NEW ls \in LinesOf(k) PROVE ~Create(k, s, ls)
    BY DEF Create
  <1>3. ~DeleteDraft
    BY DEF DeleteDraft
  <1>4. ASSUME NEW c \in Client, CommitSubmit(c) PROVE FALSE
    BY <1>1, <1>4, SubmitPosts
  <1>5. ASSUME NEW c \in Client, CommitCancel(c)
        PROVE  lines' = lines /\ row'.kind = row.kind /\ row' # row
    BY <1>1, <1>5, CancelReverses
  <1>6. ASSUME NEW c \in Client, Sync(c)
        PROVE  row' = row /\ lines' = lines /\ ledger' = ledger
    BY <1>1, <1>6, ReportFindsAll DEF Sync
  <1>7. ASSUME NEW c \in Client, NEW k \in Kind, NEW ls \in LinesOf(k) PROVE ~CommitUpdate(c, k, ls)
    BY <1>1 DEF CommitUpdate, ReqOK, Active, Finds
  <1>8. ASSUME NEW c \in Client PROVE ~CommitDelete(c)
    BY <1>1 DEF CommitDelete, ReqOK, Active, Finds
  <1>9. ASSUME NEW c \in Client,
               \/ BeginSubmit(c) \/ BeginCancel(c) \/ BeginUpdate(c) \/ BeginDelete(c) \/ BeginReport(c)
               \/ ReadLines(c) \/ Fail(c)
        PROVE  row' = row /\ lines' = lines /\ ledger' = ledger
    BY <1>9 DEF BeginSubmit, BeginCancel, BeginUpdate, BeginDelete, BeginReport, ReadHeader,
       ReadLines, Fail
  <1> QED BY <1>2, <1>3, <1>4, <1>5, <1>6, <1>7, <1>8, <1>9 DEF Next

\* Only drafts are edited, when Update and the unconditional Delete overlap nothing: that
\* they may is the one way to a submitted document with other lines.
THEOREM OnlyDraftsAreEdited == ASSUME Supposed PROVE Spec => EditsOnlyDrafts
  <1>1. IInv /\ [Next]_vars =>
          [row.status \in {"Submitted", "Cancelled"} /\ row'.status # "deleted" =>
             row'.kind = row.kind /\ lines' = lines]_vars
    BY OncePosted
  <1> QED BY <1>1, Inductive, PTL DEF Spec, EditsOnlyDrafts

\* A report that demands no leg but the posted ones adds nothing to a submitted document
\* that has its rows (syncMissingSLEs): it posts twice only where the keys differ.
THEOREM ReportAddsNothing == ASSUME Supposed PROVE Spec => SyncsOnlyMissing
  <1>1. IInv /\ [Next]_vars =>
          [row.status = "Submitted" /\ row' = row /\ SubmittedPosted => ledger' = ledger]_vars
    BY OncePosted
  <1> QED BY <1>1, Inductive, PTL DEF Spec, SyncsOnlyMissing

----------------------------------------------------------------------------
(* What is supposed holds of the documents of the controllers *)

PostingKinds == In \cup Out \cup Deliveries \cup Receipts

\* The warehouses a type of Stock Entry moves between.
LegsOf(type) == (IF type \in Out THEN {"src"} ELSE {}) \cup (IF type \in In THEN {"tgt"} ELSE {})

LEMMA KindsDiffer ==
  /\ \A k \in In \cup Out : k \notin Deliveries /\ k \notin Receipts
  /\ \A k \in Receipts : k \notin Deliveries
  BY DEF In, Out, Deliveries, Receipts

\* Documents that post, with lines of a positive quantity, and a report that looks at
\* Stock Entries whose lines give the warehouses of their type.
THEOREM ControllersQualify ==
  ASSUME Kind \subseteq PostingKinds, Reported \subseteq In \cup Out,
         \A k \in Kind : \A line \in Line(k) :
           /\ Moves(k, line) = DocumentMoves(k, line) /\ SyncMoves(k, line) = DocumentSyncMoves(k, line)
           /\ line.qty \in Nat \ {0}
           /\ k \in Reported => line.given \subseteq LegsOf(k)
  PROVE  EveryLinePosts /\ DemandsWhatIsPosted
  <1>1. ASSUME NEW k \in Kind, NEW line \in Line(k) PROVE Moves(k, line) # {}
    <2>1. Moves(k, line) = DocumentMoves(k, line) /\ line.qty \in Nat \ {0}
      OBVIOUS
    <2>2. CASE k \in Deliveries
      <3>1. DocumentMoves(k, line) = DeliveryNoteMoves(k, line)
        BY <2>2, KindsDiffer DEF DocumentMoves
      <3>2. PICK q : q = IF k = "delivery return" THEN line.qty ELSE -line.qty
        OBVIOUS
      <3>3. [leg |-> "", qty |-> q] \in DeliveryNoteMoves(k, line)
        BY <3>2 DEF DeliveryNoteMoves
      <3> QED BY <2>1, <3>1, <3>3
    <2>3. CASE k \in Receipts
      <3>1. DocumentMoves(k, line) = PurchaseReceiptMoves(k, line)
        BY <2>3, KindsDiffer DEF DocumentMoves
      <3>2. PICK sign \in {1, -1} : sign = IF k = "receipt return" THEN -1 ELSE 1
        OBVIOUS
      <3>3. PICK q : q = sign * line.qty
        OBVIOUS
      <3>4. q # 0
        BY <2>1, <3>3, sign = 1 \/ sign = -1
      <3>5. [leg |-> "acc", qty |-> q] \in PurchaseReceiptMoves(k, line)
        BY <3>2, <3>3, <3>4 DEF PurchaseReceiptMoves
      <3> QED BY <2>1, <3>1, <3>5
    <2>4. CASE k \in In \cup Out
      <3>1. DocumentMoves(k, line) = StockEntryMoves(k, line)
        BY <2>4, KindsDiffer DEF DocumentMoves
      <3>2. k \in Out => [leg |-> "src", qty |-> -line.qty] \in Moves(k, line)
        BY <2>1, <3>1 DEF StockEntryMoves
      <3>3. k \in In => [leg |-> "tgt", qty |-> line.qty] \in Moves(k, line)
        BY <2>1, <3>1 DEF StockEntryMoves
      <3> QED BY <2>4, <3>2, <3>3
    <2> QED BY <2>2, <2>3, <2>4 DEF PostingKinds
  <1>2. ASSUME NEW k \in Reported, NEW line \in Line(k), NEW m \in SyncMoves(k, line)
        PROVE  \E n \in Moves(k, line) : n.leg = m.leg
    <2>1. k \in Kind
      BY ReportAssumption
    <2>2. Moves(k, line) = StockEntryMoves(k, line) /\ SyncMoves(k, line) = StockEntrySyncMoves(line)
      BY <2>1, KindsDiffer DEF DocumentMoves, DocumentSyncMoves
    <2>3. m.leg \in line.given /\ line.given \subseteq LegsOf(k)
      BY <2>1, <2>2 DEF StockEntrySyncMoves
    <2>4. CASE m.leg = "src"
      <3>1. k \in Out
        BY <2>3, <2>4 DEF LegsOf
      <3>2. [leg |-> "src", qty |-> -line.qty] \in Moves(k, line)
        BY <2>2, <3>1 DEF StockEntryMoves
      <3> QED BY <2>4, <3>2
    <2>5. CASE m.leg = "tgt"
      <3>1. k \in In
        BY <2>3, <2>5 DEF LegsOf
      <3>2. [leg |-> "tgt", qty |-> line.qty] \in Moves(k, line)
        BY <2>2, <3>1 DEF StockEntryMoves
      <3> QED BY <2>5, <3>2
    <2> QED BY <2>3, <2>4, <2>5 DEF LegsOf
  <1> QED BY <1>1, <1>2 DEF EveryLinePosts, DemandsWhatIsPosted
=============================================================================
