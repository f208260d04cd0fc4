----------------------------- MODULE FaxOutbox -----------------------------
(***************************************************************************)
(* What the fax service promises: the book of one tenant's faxes.          *)
(*                                                                         *)
(* A fax is entered before anything is sent; only a whole fax is sent, at  *)
(* most once, and it is crossed off as delivered only after that.  Nothing *)
(* else changes an entry but the tenant's end, which strikes them all.     *)
(***************************************************************************)
CONSTANT Faxes

VARIABLES
    book,   \* the entry of each fax
    whole,  \* the faxes that came in whole
    sent,   \* the faxes that were mailed
    open    \* the tenant exists

vars == <<book, whole, sent, open>>

Init ==
    /\ book = [f \in Faxes |-> "absent"]
    /\ whole = {} /\ sent = {}
    /\ open = TRUE

Enter(f, entry) == book' = [book EXCEPT ![f] = entry]

Arrive(f) ==
    /\ book[f] \in {"absent", "closed"} /\ f \notin sent
    /\ whole' = whole \cup {f}
    /\ UNCHANGED <<book, sent, open>>

Store(f) ==
    /\ open /\ book[f] = "absent" /\ f \notin sent
    /\ Enter(f, IF f \in whole THEN "received" ELSE "failed")
    /\ UNCHANGED <<whole, sent, open>>

\* A mail that is on its way when the tenant goes is sent nevertheless.
Send(f) ==
    /\ book[f] = "received" \/ ~open
    /\ f \in whole \ sent
    /\ sent' = sent \cup {f}
    /\ UNCHANGED <<book, whole, open>>

Deliver(f) ==
    /\ book[f] = "received" /\ f \in sent
    /\ Enter(f, "delivered")
    /\ UNCHANGED <<whole, sent, open>>

Close ==
    /\ open' = FALSE
    /\ book' = [f \in Faxes |-> "closed"]
    /\ UNCHANGED <<whole, sent>>

Next ==
    \/ \E f \in Faxes : Arrive(f) \/ Store(f) \/ Send(f) \/ Deliver(f)
    \/ Close

Spec == Init /\ [][Next]_vars
=============================================================================
