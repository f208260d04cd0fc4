----------------------------- MODULE CdrIngest -----------------------------
(***************************************************************************)
(* Call detail records on their way from FreeSWITCH to the database:       *)
(* routes/fs-cdr.ts and services/cdr.ts of the portal API.                 *)
(*                                                                         *)
(* mod_xml_cdr posts a record when the call has ended, posts it again when *)
(* a post fails or is not answered in time, and leaves it in a directory   *)
(* when the posts are used up.  The handler of a post that was given up on *)
(* goes on, so handlers of one record can overlap.  A handler reads three  *)
(* tables and writes a fourth, each in a query of its own, while the       *)
(* portal deletes rows of them.                                            *)
(*                                                                         *)
(* The records are those of one tenant; the queries of different tenants   *)
(* share no row.  Rows created later have new ids, which no record under   *)
(* way refers to, and are left out.                                        *)
(***************************************************************************)
EXTENDS Integers, FiniteSets

CONSTANTS
    Calls,
    Attributed,   \* calls whose record names the tenant, by header or by context
    MaxPosts,     \* how often mod_xml_cdr posts a record: the first time and `retries`
    MaxFaults     \* bound of a behaviour: crashes and database failures

ASSUME AttributedCalls == Attributed \subseteq Calls
ASSUME PostsPositive == MaxPosts \in Nat \ {0} /\ MaxFaults \in Nat

Posts == 1 .. MaxPosts

\* The rows a record refers to besides the tenant's.
Refs == {"extension", "trunk"}

VARIABLES
    fs,       \* FreeSWITCH's part of each call: where it is, and its posts so far
    spool,    \* the records in err-log-dir
    req,      \* the handler of each post
    cdr,      \* the table cdr
    tenant,   \* the tenant's rows in organization and tenant_settings exist
    alive,    \* which of the rows a record refers to exist
    up,       \* the API answers
    faults

vars == <<fs, spool, req, cdr, tenant, alive, up, faults>>

\* What a handler does next; at "answer" its reply is due.
NoRequest == [stage |-> "none", reply |-> "none", refs |-> {}]

Stored(c) == \E r \in cdr : r.call = c

SpendFault ==
    /\ faults < MaxFaults
    /\ faults' = faults + 1

Init ==
    /\ fs = [c \in Calls |-> [at |-> "talking", posts |-> 0]]
    /\ spool = {}
    /\ req = [c \in Calls |-> [n \in Posts |-> NoRequest]]
    /\ cdr = {}
    /\ tenant = TRUE
    /\ alive = Refs
    /\ up = TRUE
    /\ faults = 0

-----------------------------------------------------------------------------
(* mod_xml_cdr. *)

HangUp(c) ==
    /\ fs[c].at = "talking"
    /\ fs' = [fs EXCEPT ![c].at = "waiting"]
    /\ UNCHANGED <<spool, req, cdr, tenant, alive, up, faults>>

\* Mutant: one post too many.
OnePostMore(f) == [f EXCEPT !.at = IF f.posts <= MaxPosts THEN "waiting" ELSE "spooled"]

\* A post has failed: the next one is due, or the record goes to the directory.
AfterFailure(f) == [f EXCEPT !.at = IF f.posts < MaxPosts THEN "waiting" ELSE "spooled"]

\* The posts of S fail; changed is fs but for that.
Fail(changed, S) ==
    /\ fs' = [c \in Calls |-> IF c \in S THEN AfterFailure(changed[c]) ELSE changed[c]]
    /\ spool' = spool \cup {c \in S : changed[c].posts = MaxPosts}

\* The API's first steps: the record is parsed; one that names no tenant, or is no
\* record at all, is answered at once.
Accept(c) ==
    IF c \in Attributed THEN [NoRequest EXCEPT !.stage = "tenant"]
    ELSE [NoRequest EXCEPT !.stage = "answer", !.reply = "ignored"]

Posted(c) == [fs EXCEPT ![c] = [at |-> "posting", posts |-> @.posts + 1]]

Post(c) ==
    /\ fs[c].at = "waiting"
    /\ \/ /\ up
          /\ fs' = Posted(c)
          /\ req' = [req EXCEPT ![c][fs[c].posts + 1] = Accept(c)]
          /\ UNCHANGED spool
       \/ /\ ~up
          /\ Fail(Posted(c), {c})
          /\ UNCHANGED req
    /\ UNCHANGED <<cdr, tenant, alive, up, faults>>

\* Mutant: no timeout is set.
NoTimeout(c) == FALSE /\ UNCHANGED vars

\* No answer within ten seconds.  The handler does not hear of it.
Timeout(c) ==
    /\ fs[c].at = "posting"
    /\ Fail(fs, {c})
    /\ UNCHANGED <<req, cdr, tenant, alive, up, faults>>

\* The answer arrives, if it is still waited for.  "ignored" is a 200 like "stored".
Answer(c, n) ==
    /\ req[c][n].stage = "answer"
    /\ req' = [req EXCEPT ![c][n] = NoRequest]
    /\ IF fs[c].at = "posting" /\ fs[c].posts = n
       THEN IF req[c][n].reply = "failed" THEN Fail(fs, {c})
            ELSE fs' = [fs EXCEPT ![c].at = "answered"] /\ UNCHANGED spool
       ELSE UNCHANGED <<fs, spool>>
    /\ UNCHANGED <<cdr, tenant, alive, up, faults>>

-----------------------------------------------------------------------------
(* ingestCdr: one action per query. *)

To(c, n, stage) == req' = [req EXCEPT ![c][n].stage = stage]
Reply(c, n, reply) ==
    req' = [req EXCEPT ![c][n].stage = "answer", ![c][n].reply = reply]

ReadTenant(c, n) ==
    /\ req[c][n].stage = "tenant"
    /\ IF tenant THEN To(c, n, "extension") ELSE Reply(c, n, "ignored")
    /\ UNCHANGED <<fs, spool, cdr, tenant, alive, up, faults>>

\* The lookups of the extension and of the trunk: no row, no reference.
ReadRef(c, n) ==
    /\ req[c][n].stage \in Refs
    /\ req' = [req EXCEPT ![c][n] =
           [stage |-> IF @.stage = "extension" THEN "trunk" ELSE "insert",
            reply |-> "none", refs |-> @.refs \cup ({@.stage} \cap alive)]]
    /\ UNCHANGED <<fs, spool, cdr, tenant, alive, up, faults>>

\* Mutant: the insert has no conflict clause and the table no unique index.
InsertAlways(c, n) ==
    /\ req[c][n].stage = "insert"
    /\ IF tenant /\ req[c][n].refs \subseteq alive
       THEN /\ cdr' = cdr \cup {[call |-> c, post |-> n, refs |-> req[c][n].refs]}
            /\ Reply(c, n, "stored")
       ELSE Reply(c, n, "failed") /\ UNCHANGED cdr
    /\ UNCHANGED <<fs, spool, tenant, alive, up, faults>>

\* Mutant: a constraint violation is taken for the conflict of a retry.
InsertSwallows(c, n) ==
    /\ req[c][n].stage = "insert"
    /\ Reply(c, n, "stored")
    /\ cdr' = IF ~Stored(c) /\ tenant /\ req[c][n].refs \subseteq alive
              THEN cdr \cup {[call |-> c, post |-> n, refs |-> req[c][n].refs]} ELSE cdr
    /\ UNCHANGED <<fs, spool, tenant, alive, up, faults>>

\* INSERT ... ON CONFLICT (call_uuid) DO NOTHING.
Insert(c, n) ==
    /\ req[c][n].stage = "insert"
    /\ \/ /\ Stored(c)
          /\ Reply(c, n, "stored") /\ UNCHANGED cdr
       \/ /\ ~Stored(c) /\ tenant /\ req[c][n].refs \subseteq alive
          /\ cdr' = cdr \cup {[call |-> c, post |-> n, refs |-> req[c][n].refs]}
          /\ Reply(c, n, "stored")
       \/ /\ ~Stored(c) /\ ~(tenant /\ req[c][n].refs \subseteq alive)
          /\ Reply(c, n, "failed") /\ UNCHANGED cdr
    /\ UNCHANGED <<fs, spool, tenant, alive, up, faults>>

-----------------------------------------------------------------------------
(* The portal, and what fails. *)

\* An extension or a trunk is deleted: ON DELETE SET NULL.
DeleteRef(f) ==
    /\ f \in alive
    /\ alive' = alive \ {f}
    /\ cdr' = {[r EXCEPT !.refs = @ \ {f}] : r \in cdr}
    /\ UNCHANGED <<fs, spool, req, tenant, up, faults>>

\* The organization is deleted: ON DELETE CASCADE.
DeleteTenant ==
    /\ tenant
    /\ tenant' = FALSE /\ alive' = {} /\ cdr' = {}
    /\ UNCHANGED <<fs, spool, req, up, faults>>

\* A query fails.
DatabaseFails(c, n) ==
    /\ req[c][n].stage \in Refs \cup {"tenant", "insert"}
    /\ SpendFault
    /\ Reply(c, n, "failed")
    /\ UNCHANGED <<fs, spool, cdr, tenant, alive, up>>

\* The API dies with its handlers; the posts it was working on fail.
ApiCrash ==
    /\ up /\ SpendFault
    /\ up' = FALSE
    /\ req' = [c \in Calls |-> [n \in Posts |-> NoRequest]]
    /\ Fail(fs, {c \in Calls : fs[c].at = "posting"})
    /\ UNCHANGED <<cdr, tenant, alive>>

ApiStart ==
    /\ ~up
    /\ up' = TRUE
    /\ UNCHANGED <<fs, spool, req, cdr, tenant, alive, faults>>

\* FreeSWITCH dies with its calls and the records it has not delivered.
FsCrash ==
    /\ SpendFault
    /\ fs' = [c \in Calls |-> IF fs[c].at \in {"talking", "waiting", "posting"}
                              THEN [fs[c] EXCEPT !.at = "lost"] ELSE fs[c]]
    /\ UNCHANGED <<spool, req, cdr, tenant, alive, up>>

Handle(c, n) == ReadTenant(c, n) \/ ReadRef(c, n) \/ Insert(c, n) \/ Answer(c, n)

Next ==
    \/ \E c \in Calls : HangUp(c) \/ Post(c) \/ Timeout(c)
    \/ \E c \in Calls, n \in Posts : Handle(c, n) \/ DatabaseFails(c, n)
    \/ \E f \in Refs : DeleteRef(f)
    \/ DeleteTenant \/ ApiCrash \/ ApiStart \/ FsCrash

Spec == Init /\ [][Next]_vars

\* mod_xml_cdr posts what is due and stops waiting; nothing obliges the API to answer.
FairSpec == Spec /\ \A c \in Calls : WF_vars(Post(c)) /\ WF_vars(Timeout(c))

-----------------------------------------------------------------------------
(* Properties. *)

\* Type invariant.
TypeOK ==
    /\ fs \in [Calls -> [at : {"talking", "waiting", "posting", "answered", "spooled", "lost"},
                         posts : 0 .. MaxPosts]]
    /\ spool \subseteq Calls
    /\ req \in [Calls -> [Posts ->
           [stage : Refs \cup {"none", "tenant", "insert", "answer"},
            reply : {"none", "ignored", "stored", "failed"}, refs : SUBSET Refs]]]
    /\ cdr \subseteq [call : Calls, post : Posts, refs : SUBSET Refs]
    /\ tenant \in BOOLEAN /\ alive \subseteq Refs /\ up \in BOOLEAN
    /\ faults \in Nat
    /\ \A c \in Calls : fs[c].at \in {"talking", "waiting"} => fs[c].posts < MaxPosts

\* "Or a slow API turns into duplicate billing rows": however often a record is posted
\* and however its handlers overlap, the table holds one row for the call.
OneRowPerCall == \A r, s \in cdr : r.call = s.call => r = s

\* The books as CallLedger keeps them: what became of each call's record.
Entry(c) ==
    IF Stored(c) THEN "billed"
    ELSE CASE fs[c].at = "talking" -> "running"
           [] fs[c].at \in {"waiting", "posting"} -> "owed"
           [] fs[c].at = "spooled" -> "kept"
           [] fs[c].at = "lost" -> "missing"
           [] fs[c].at = "answered" -> "void"

Ledger == INSTANCE CallLedger WITH bill <- [c \in Calls |-> Entry(c)], open <- tenant

\* Every step of the ingest is one of the ledger's: while the tenant exists, a 200 for a
\* record that names it means that the record is stored, and a stored record stays.
LedgerSpec == Ledger!Spec

\* A record is not posted for ever: it is stored, kept on disk, answered or lost with
\* FreeSWITCH.
LedgerSettled == Ledger!Settled
=============================================================================
