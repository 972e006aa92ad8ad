----------------------------- MODULE DocHistory -----------------------------
(***************************************************************************)
(* What the DocType lifecycle promises, without versions, transactions or  *)
(* concurrent requests: a document is its history, a sequence of states    *)
(* each with a status and business fields, and a history only grows, by    *)
(* one legal state at a time.  A save is based on the newest state, a      *)
(* submitted state is followed by a cancelled one only, and a cancelled    *)
(* history is final, but may be copied into the first state of another.    *)
(***************************************************************************)
EXTENDS Naturals, Sequences

CONSTANTS Doc, Edit

VARIABLE history

State == [status : {"draft", "submitted", "cancelled"}, data : SUBSET Edit]

Newest(d) == history[d][Len(history[d])]
Exists(d) == Len(history[d]) > 0
Is(d, status) == Exists(d) /\ Newest(d).status = status
Extend(d, status, data) ==
  history' = [history EXCEPT ![d] =
                Append(@, [status |-> status, data |-> data])]

Init == history = [d \in Doc |-> <<>>]

Create(d) == ~Exists(d) /\ Extend(d, "draft", {})
Save(d, e) == Is(d, "draft") /\ Extend(d, "draft", Newest(d).data \cup {e})
Submit(d) == Is(d, "draft") /\ Extend(d, "submitted", Newest(d).data)
Cancel(d) == Is(d, "submitted") /\ Extend(d, "cancelled", Newest(d).data)
Amend(old, d) ==
  Is(old, "cancelled") /\ ~Exists(d) /\ Extend(d, "draft", Newest(old).data)

Next ==
  \E d \in Doc :
    \/ Create(d)
    \/ \E e \in Edit : Save(d, e)
    \/ Submit(d)
    \/ Cancel(d)
    \/ \E old \in Doc : Amend(old, d)

Spec == Init /\ [][Next]_history
=============================================================================
