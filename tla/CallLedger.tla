----------------------------- MODULE CallLedger -----------------------------
(***************************************************************************)
(* What the call detail records promise: the books of one tenant.          *)
(*                                                                         *)
(* Each call that ends is owed an entry.  While the tenant exists an entry *)
(* that is owed can only be made, be set aside on disk, or go missing with *)
(* FreeSWITCH; it is never dropped, unless the call names no tenant.  An   *)
(* entry that was made stays.                                              *)
(***************************************************************************)
CONSTANTS
    Calls,
    Attributed   \* the calls that name their tenant

VARIABLES
    bill,   \* the entry of each call
    open    \* the tenant exists

vars == <<bill, open>>

Entry == {"running", "owed", "billed", "kept", "missing", "void"}

Init ==
    /\ bill = [c \in Calls |-> "running"]
    /\ open = TRUE

All(S, entry) == bill' = [c \in Calls |-> IF c \in S THEN entry ELSE bill[c]]

HangUp(c) ==
    /\ bill[c] = "running"
    /\ All({c}, "owed") /\ UNCHANGED open

Bill(c) ==
    /\ open /\ c \in Attributed /\ bill[c] \in {"owed", "kept", "missing"}
    /\ All({c}, "billed") /\ UNCHANGED open

\* Several entries are set aside when the API goes down.
Keep(S) ==
    /\ \A c \in S : bill[c] = "owed"
    /\ All(S, "kept") /\ UNCHANGED open

Drop(c) ==
    /\ bill[c] = "owed" /\ (~open \/ c \notin Attributed)
    /\ All({c}, "void") /\ UNCHANGED open

\* FreeSWITCH goes down with its calls and with the records it has yet to deliver.
Lose ==
    /\ All({c \in Calls : bill[c] \in {"running", "owed"}}, "missing")
    /\ UNCHANGED open

\* The tenant is deleted, and its entries with it.
Close ==
    /\ open' = FALSE
    /\ bill' \in [Calls -> Entry \ {"billed"}]
    /\ \A c \in Calls : bill[c] # "billed" => bill'[c] = bill[c]

Next ==
    \/ \E c \in Calls : HangUp(c) \/ Bill(c) \/ Drop(c)
    \/ \E S \in SUBSET Calls : Keep(S)
    \/ Lose \/ Close

Spec == Init /\ [][Next]_vars

\* Nothing is owed for ever.
Settled == \A c \in Calls : bill[c] = "owed" ~> bill[c] # "owed"
=============================================================================
