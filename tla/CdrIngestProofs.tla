-------------------------- MODULE CdrIngestProofs --------------------------
(* What holds of CdrIngest for any number of calls, posts and faults, and    *)
(* that it implements CallLedger.                                           *)
EXTENDS CdrIngest, TLAPS

FsType ==
    [at : {"talking", "waiting", "posting", "answered", "spooled", "lost"},
     posts : 0 .. MaxPosts]

ReqType ==
    [stage : Refs \cup {"none", "tenant", "insert", "answer"},
     reply : {"none", "ignored", "stored", "failed"}, refs : SUBSET Refs]

RowType == [call : Calls, post : Posts, refs : SUBSET Refs]

\* What a handler's place says of the call: only a call that has ended has handlers,
\* a handler gets to the database only with a record that names its tenant, and what
\* it is going to answer is true, or the tenant is gone.
HandlerTrue(c, n) ==
    /\ req[c][n].stage # "none" => fs[c].at # "talking"
    /\ req[c][n].stage \in Refs \cup {"tenant", "insert"} => c \in Attributed
    /\ req[c][n].stage = "answer" => req[c][n].reply # "none"
    /\ req[c][n].stage = "answer" /\ req[c][n].reply = "stored" => Stored(c) \/ ~tenant
    /\ req[c][n].stage = "answer" /\ req[c][n].reply = "ignored" => c \notin Attributed \/ ~tenant

\* What FreeSWITCH was told is true, or the tenant is gone.
AnswerTrue(c) == fs[c].at = "answered" => Stored(c) \/ c \notin Attributed \/ ~tenant

\* A row is that of a call of the tenant that has ended.
RowTrue(c) == Stored(c) => fs[c].at # "talking"

Truthful ==
    /\ \A c \in Calls, n \in Posts : HandlerTrue(c, n)
    /\ \A c \in Calls : AnswerTrue(c) /\ RowTrue(c)

IInv == TypeOK /\ OneRowPerCall /\ Truthful

LEMMA Types ==
  ASSUME TypeOK, NEW c \in Calls
  PROVE  /\ fs[c] \in FsType /\ \A n \in Posts : req[c][n] \in ReqType
         /\ fs \in [Calls -> FsType] /\ req \in [Calls -> [Posts -> ReqType]]
         /\ cdr \subseteq RowType /\ MaxPosts \in Nat /\ MaxPosts > 0
  BY PostsPositive DEF TypeOK, FsType, ReqType, RowType

LEMMA NoRequestType == NoRequest \in ReqType
  BY DEF NoRequest, ReqType

\* A step that replaces one handler.
LEMMA OneHandler ==
  ASSUME TypeOK, NEW c \in Calls, NEW n \in Posts, NEW r \in ReqType,
         req' = [req EXCEPT ![c][n] = r]
  PROVE  /\ req' \in [Calls -> [Posts -> ReqType]] /\ req'[c][n] = r
         /\ \A d \in Calls, m \in Posts : <<d, m>> # <<c, n>> => req'[d][m] = req[d][m]
  BY Types DEF TypeOK, ReqType

-----------------------------------------------------------------------------
(* Entries of the ledger. *)

LEMMA EntryOf ==
  ASSUME NEW c
  PROVE  /\ Stored(c) => Entry(c) = "billed"
         /\ ~Stored(c) /\ fs[c].at = "talking" => Entry(c) = "running"
         /\ ~Stored(c) /\ fs[c].at \in {"waiting", "posting"} => Entry(c) = "owed"
         /\ ~Stored(c) /\ fs[c].at = "spooled" => Entry(c) = "kept"
         /\ ~Stored(c) /\ fs[c].at = "lost" => Entry(c) = "missing"
         /\ ~Stored(c) /\ fs[c].at = "answered" => Entry(c) = "void"
  BY DEF Entry

LEMMA EntryNext ==
  ASSUME NEW c
  PROVE  /\ Stored(c)' => Entry(c)' = "billed"
         /\ ~Stored(c)' /\ fs'[c].at = "talking" => Entry(c)' = "running"
         /\ ~Stored(c)' /\ fs'[c].at \in {"waiting", "posting"} => Entry(c)' = "owed"
         /\ ~Stored(c)' /\ fs'[c].at = "spooled" => Entry(c)' = "kept"
         /\ ~Stored(c)' /\ fs'[c].at = "lost" => Entry(c)' = "missing"
         /\ ~Stored(c)' /\ fs'[c].at = "answered" => Entry(c)' = "void"
  BY DEF Entry

\* How the ledger's functions look from here.
LEMMA LedgerAll ==
  ASSUME NEW S, NEW e, \A d \in Calls : Entry(d)' = IF d \in S THEN e ELSE Entry(d)
  PROVE  Ledger!All(S, e)
  BY DEF Ledger!All

LEMMA LedgerStutter ==
  ASSUME \A d \in Calls : Entry(d)' = Entry(d), tenant' = tenant
  PROVE  UNCHANGED Ledger!vars
  BY DEF Ledger!vars

\* A step that changes neither the table nor where FreeSWITCH is.
LEMMA NothingMoves ==
  ASSUME TypeOK, UNCHANGED <<fs, tenant>>, \A d \in Calls : Stored(d)' <=> Stored(d)
  PROVE  UNCHANGED Ledger!vars
<1>1. ASSUME NEW d \in Calls PROVE Entry(d)' = Entry(d)
  <2>1. fs'[d] = fs[d] /\ fs[d] \in FsType
    BY Types
  <2> QED
    BY <2>1, EntryOf, EntryNext DEF FsType
<1> QED
  BY <1>1, LedgerStutter

-----------------------------------------------------------------------------
(* mod_xml_cdr. *)

\* The steps that leave table and tenant alone: what is to be shown of them.
LEMMA SameTable ==
  ASSUME IInv, TypeOK', UNCHANGED <<cdr, tenant>>,
         \A c \in Calls, n \in Posts : HandlerTrue(c, n)',
         \A c \in Calls : /\ fs'[c].at = "talking" => fs[c].at = "talking"
                          /\ fs'[c].at = "answered" =>
                               fs[c].at = "answered" \/ Stored(c) \/ c \notin Attributed \/ ~tenant
  PROVE  IInv'
<1>1. OneRowPerCall'
  BY DEF IInv, OneRowPerCall
<1>2. ASSUME NEW c \in Calls PROVE AnswerTrue(c)' /\ RowTrue(c)'
  <2>1. Stored(c)' <=> Stored(c)
    BY DEF Stored
  <2>2. AnswerTrue(c) /\ RowTrue(c)
    BY DEF IInv, Truthful
  <2>3. RowTrue(c)'
    <3>1. fs'[c].at = "talking" => fs[c].at = "talking"
      OBVIOUS
    <3>2. Stored(c)' => fs'[c].at # "talking"
      BY <2>1, <2>2, <3>1 DEF RowTrue
    <3> QED
      BY <3>2 DEF RowTrue
  <2>4. tenant' = tenant
    OBVIOUS
  <2>5. fs'[c].at = "answered" => Stored(c) \/ c \notin Attributed \/ ~tenant
    BY <2>2 DEF AnswerTrue
  <2>6. AnswerTrue(c)'
    BY <2>1, <2>4, <2>5 DEF AnswerTrue
  <2> QED
    BY <2>3, <2>6
<1> QED
  BY <1>1, <1>2 DEF IInv, Truthful

\* A handler that is left alone stays true while table and tenant stay and its call does
\* not start anew.
LEMMA HandlerStays ==
  ASSUME NEW c \in Calls, NEW n \in Posts, HandlerTrue(c, n), req'[c][n] = req[c][n],
         UNCHANGED <<cdr, tenant>>, fs'[c].at = "talking" => fs[c].at = "talking"
  PROVE  HandlerTrue(c, n)'
  BY DEF HandlerTrue, Stored

\* What failing posts do to FreeSWITCH's side.
LEMMA FailEffect ==
  ASSUME TypeOK, NEW changed \in [Calls -> FsType], NEW S \in SUBSET Calls, Fail(changed, S),
         \A c \in Calls \ S : changed[c] = fs[c],
         \A c \in S : fs[c].at \in {"waiting", "posting"}
  PROVE  /\ fs' \in [Calls -> FsType] /\ spool' \subseteq Calls
         /\ \A c \in Calls : fs'[c].at \in {"talking", "waiting"} => fs'[c].posts < MaxPosts
         /\ \A c \in Calls \ S : fs'[c] = fs[c]
         /\ \A c \in S : fs'[c].at \in {"waiting", "spooled"}
<1>1. \A c \in Calls : fs'[c] = IF c \in S THEN AfterFailure(changed[c]) ELSE fs[c]
  BY DEF Fail
<1>2. ASSUME NEW c \in S
      PROVE  /\ fs'[c] \in FsType /\ fs'[c].at \in {"waiting", "spooled"}
             /\ fs'[c].at = "waiting" => fs'[c].posts < MaxPosts
  <2>1. CASE changed[c].posts < MaxPosts
    <3>1. fs'[c] = [changed[c] EXCEPT !.at = "waiting"]
      BY <1>1, <2>1 DEF AfterFailure
    <3> QED
      BY <2>1, <3>1 DEF FsType
  <2>2. CASE ~(changed[c].posts < MaxPosts)
    <3>1. fs'[c] = [changed[c] EXCEPT !.at = "spooled"]
      BY <1>1, <2>2 DEF AfterFailure
    <3> QED
      BY <3>1 DEF FsType
  <2> QED
    BY <2>1, <2>2
<1>3. \A c \in Calls \ S : fs'[c] = fs[c] /\ fs'[c] \in FsType
  BY <1>1, Types
<1>4. fs' \in [Calls -> FsType]
  <2>1. fs' = [c \in Calls |-> IF c \in S THEN AfterFailure(changed[c]) ELSE changed[c]]
    BY DEF Fail
  <2>2. \A c \in Calls : fs'[c] \in FsType
    BY <1>2, <1>3
  <2> QED
    BY <2>1, <2>2
<1>5. spool' \subseteq Calls
  BY DEF Fail, TypeOK
<1>6. \A c \in Calls \ S : fs'[c].at \in {"talking", "waiting"} => fs'[c].posts < MaxPosts
  BY <1>3 DEF TypeOK
<1> QED
  BY <1>2, <1>3, <1>4, <1>5, <1>6

\* In the ledger, failing posts set entries aside or change nothing.
LEMMA FailLedger ==
  ASSUME TypeOK, NEW changed \in [Calls -> FsType], NEW S \in SUBSET Calls, Fail(changed, S),
         \A c \in Calls \ S : changed[c] = fs[c],
         \A c \in S : fs[c].at \in {"waiting", "posting"},
         UNCHANGED <<cdr, tenant>>
  PROVE  [Ledger!Next]_Ledger!vars
<1> DEFINE K == {c \in S : ~Stored(c) /\ fs'[c].at = "spooled"}
<1>1. \A c \in Calls : Stored(c)' <=> Stored(c)
  BY DEF Stored
<1>2. \A c \in Calls : Entry(c)' = IF c \in K THEN "kept" ELSE Entry(c)
  <2> SUFFICES ASSUME NEW c \in Calls
               PROVE  Entry(c)' = IF c \in K THEN "kept" ELSE Entry(c)
    OBVIOUS
  <2>1. CASE c \in S
    <3>1. fs'[c].at \in {"waiting", "spooled"} /\ fs[c].at \in {"waiting", "posting"}
      BY <2>1, FailEffect
    <3> QED
      BY <1>1, <2>1, <3>1, EntryOf, EntryNext
  <2>2. CASE c \notin S
    <3>1. fs'[c] = fs[c] /\ fs[c] \in FsType
      BY <2>2, FailEffect, Types
    <3> QED
      BY <1>1, <2>2, <3>1, EntryOf, EntryNext DEF FsType
  <2> QED
    BY <2>1, <2>2
<1>3. \A c \in K : Entry(c) = "owed"
  BY EntryOf
<1>4. Ledger!All(K, "kept")
  BY <1>2, LedgerAll
<1>5. Ledger!Keep(K)
  BY <1>3, <1>4 DEF Ledger!Keep
<1> QED
  BY <1>5 DEF Ledger!Next

LEMMA HangUpStep ==
  ASSUME IInv, NEW c \in Calls, HangUp(c)
  PROVE  IInv' /\ [Ledger!Next]_Ledger!vars
<1> USE DEF IInv
<1>1. /\ fs[c].at = "talking" /\ fs[c] \in FsType /\ fs[c].posts < MaxPosts
      /\ fs' = [fs EXCEPT ![c] = [fs[c] EXCEPT !.at = "waiting"]]
      /\ UNCHANGED <<spool, req, cdr, tenant, alive, up, faults>>
  BY Types DEF HangUp, TypeOK
<1>2. /\ fs' \in [Calls -> FsType] /\ fs'[c].at = "waiting" /\ fs'[c].posts < MaxPosts
      /\ \A d \in Calls \ {c} : fs'[d] = fs[d]
  <2>1. [fs[c] EXCEPT !.at = "waiting"] \in FsType
    BY <1>1 DEF FsType
  <2> QED
    BY <1>1, <2>1, Types DEF FsType
<1>3. TypeOK'
  BY <1>1, <1>2 DEF TypeOK, FsType
<1>4. \A d \in Calls, n \in Posts : HandlerTrue(d, n)'
  BY <1>1, <1>2, HandlerStays DEF Truthful
<1>5. IInv'
  BY <1>1, <1>2, <1>3, <1>4, SameTable
<1>6. ~Stored(c) /\ \A d \in Calls : Stored(d)' <=> Stored(d)
  BY <1>1 DEF Truthful, RowTrue, Stored
<1>7. Entry(c) = "running" /\ Entry(c)' = "owed"
  BY <1>1, <1>2, <1>6, EntryOf, EntryNext
<1>8. \A d \in Calls : Entry(d)' = IF d \in {c} THEN "owed" ELSE Entry(d)
  <2> SUFFICES ASSUME NEW d \in Calls, d # c PROVE Entry(d)' = Entry(d)
    BY <1>7
  <2>1. fs'[d] = fs[d] /\ fs[d] \in FsType
    BY <1>2, Types
  <2> QED
    BY <1>6, <2>1, EntryOf, EntryNext DEF FsType
<1>9. Ledger!All({c}, "owed")
  BY <1>8, LedgerAll
<1>10. Ledger!HangUp(c)
  BY <1>1, <1>7, <1>9 DEF Ledger!HangUp
<1> QED
  BY <1>5, <1>10 DEF Ledger!Next

LEMMA PostStep ==
  ASSUME IInv, NEW c \in Calls, Post(c)
  PROVE  IInv' /\ [Ledger!Next]_Ledger!vars
<1> USE DEF IInv
<1> DEFINE f == [at |-> "posting", posts |-> fs[c].posts + 1]
<1>1. /\ fs[c].at = "waiting" /\ fs[c] \in FsType /\ fs[c].posts < MaxPosts
      /\ UNCHANGED <<cdr, tenant, alive, up, faults>>
  BY Types DEF Post, TypeOK
<1>2. /\ Posted(c) \in [Calls -> FsType] /\ Posted(c)[c] = f
      /\ \A d \in Calls \ {c} : Posted(c)[d] = fs[d]
  <2>1. f \in FsType
    BY <1>1, Types DEF FsType
  <2> QED
    BY <2>1, Types DEF Posted
<1>3. CASE up
  <2>0. Accept(c) \in ReqType
    BY DEF Accept, NoRequest, ReqType
  <2>1. PICK n \in Posts : n = fs[c].posts + 1
    <3>1. fs[c].posts + 1 \in Posts
      BY <1>1, Types DEF Posts, FsType
    <3> QED
      BY <3>1
  <2>2. fs' = Posted(c) /\ req' = [req EXCEPT ![c][n] = Accept(c)] /\ spool' = spool
    BY <1>3, <2>1 DEF Post
  <2>3. /\ req' \in [Calls -> [Posts -> ReqType]] /\ req'[c][n] = Accept(c)
        /\ \A d \in Calls, m \in Posts : <<d, m>> # <<c, n>> => req'[d][m] = req[d][m]
    <3>1. TypeOK /\ n \in Posts
      BY <2>1
    <3> HIDE DEF IInv
    <3> QED
      BY <2>0, <2>2, <3>1, OneHandler
  <2>4. TypeOK'
    <3>1. \A d \in Calls : fs'[d].at \in {"talking", "waiting"} => fs'[d].posts < MaxPosts
      <4>1. \A d \in Calls \ {c} : fs'[d] = fs[d]
        BY <1>2, <2>2
      <4>2. fs'[c].at = "posting"
        BY <1>2, <2>2
      <4> QED
        BY <4>1, <4>2 DEF TypeOK
    <3> QED
      BY <1>1, <1>2, <2>2, <2>3, <3>1 DEF TypeOK, FsType, ReqType
  <2>5. \A d \in Calls : /\ fs'[d].at = "talking" => fs[d].at = "talking"
                         /\ fs'[d].at = "answered" => fs[d].at = "answered"
    BY <1>2, <2>2
  <2>6. HandlerTrue(c, n)'
    <3>1. /\ Accept(c).stage = "tenant" => c \in Attributed
          /\ Accept(c).stage \in {"tenant", "answer"}
          /\ Accept(c).stage = "answer" => c \notin Attributed /\ Accept(c).reply = "ignored"
      BY DEF Accept, NoRequest
    <3>2. fs'[c].at = "posting" /\ req'[c][n] = Accept(c)
      BY <1>2, <2>2, <2>3
    <3> QED
      BY <3>1, <3>2 DEF HandlerTrue, Refs
  <2>7. \A d \in Calls, m \in Posts : HandlerTrue(d, m)'
    <3>1. ASSUME NEW d \in Calls, NEW m \in Posts, <<d, m>> # <<c, n>>
          PROVE  HandlerTrue(d, m)'
      BY <1>1, <2>3, <2>5, <3>1, HandlerStays DEF Truthful
    <3> QED
      BY <2>6, <3>1
  <2>8. IInv'
    BY <1>1, <2>4, <2>5, <2>7, SameTable
  <2>9. \A d \in Calls : Entry(d)' = Entry(d)
    <3> SUFFICES ASSUME NEW d \in Calls PROVE Entry(d)' = Entry(d)
      OBVIOUS
    <3>1. Stored(d)' <=> Stored(d)
      BY <1>1 DEF Stored
    <3>2. CASE d = c
      BY <1>1, <1>2, <2>2, <3>1, <3>2, EntryOf, EntryNext
    <3>3. CASE d # c
      <4>1. fs'[d] = fs[d] /\ fs[d] \in FsType
        BY <1>2, <2>2, <3>3, Types
      <4> QED
        BY <3>1, <4>1, EntryOf, EntryNext DEF FsType
    <3> QED
      BY <3>2, <3>3
  <2> QED
    BY <1>1, <2>8, <2>9, LedgerStutter
<1>4. CASE ~up
  <2>1. Fail(Posted(c), {c}) /\ req' = req
    BY <1>4 DEF Post
  <2>2. /\ fs' \in [Calls -> FsType] /\ spool' \subseteq Calls
        /\ \A d \in Calls : fs'[d].at \in {"talking", "waiting"} => fs'[d].posts < MaxPosts
        /\ \A d \in Calls \ {c} : fs'[d] = fs[d]
        /\ fs'[c].at \in {"waiting", "spooled"}
    BY <1>1, <1>2, <2>1, FailEffect
  <2>3. TypeOK'
    BY <1>1, <2>1, <2>2 DEF TypeOK, FsType
  <2>4. \A d \in Calls : /\ fs'[d].at = "talking" => fs[d].at = "talking"
                         /\ fs'[d].at = "answered" => fs[d].at = "answered"
    BY <2>2
  <2>5. \A d \in Calls, m \in Posts : HandlerTrue(d, m)'
    BY <1>1, <2>1, <2>4, HandlerStays DEF Truthful
  <2>6. IInv'
    BY <1>1, <2>3, <2>4, <2>5, SameTable
  <2>7. [Ledger!Next]_Ledger!vars
    BY <1>1, <1>2, <2>1, FailLedger
  <2> QED
    BY <2>6, <2>7
<1> QED
  BY <1>3, <1>4

LEMMA TimeoutStep ==
  ASSUME IInv, NEW c \in Calls, Timeout(c)
  PROVE  IInv' /\ [Ledger!Next]_Ledger!vars
<1> USE DEF IInv
<1>1. /\ fs[c].at = "posting" /\ fs \in [Calls -> FsType] /\ Fail(fs, {c})
      /\ UNCHANGED <<req, cdr, tenant, alive, up, faults>>
  BY Types DEF Timeout
<1>2. /\ fs' \in [Calls -> FsType] /\ spool' \subseteq Calls
      /\ \A d \in Calls : fs'[d].at \in {"talking", "waiting"} => fs'[d].posts < MaxPosts
      /\ \A d \in Calls \ {c} : fs'[d] = fs[d]
      /\ fs'[c].at \in {"waiting", "spooled"}
  BY <1>1, FailEffect
<1>3. TypeOK'
  BY <1>1, <1>2 DEF TypeOK, FsType
<1>4. \A d \in Calls : /\ fs'[d].at = "talking" => fs[d].at = "talking"
                       /\ fs'[d].at = "answered" => fs[d].at = "answered"
  BY <1>2
<1>5. \A d \in Calls, m \in Posts : HandlerTrue(d, m)'
  BY <1>1, <1>4, HandlerStays DEF Truthful
<1>6. IInv'
  BY <1>1, <1>3, <1>4, <1>5, SameTable
<1>7. [Ledger!Next]_Ledger!vars
  BY <1>1, FailLedger
<1> QED
  BY <1>6, <1>7

-----------------------------------------------------------------------------
(* The handlers. *)

\* A step of one handler that touches nothing else.
LEMMA HandlerStep ==
  ASSUME IInv, NEW c \in Calls, NEW n \in Posts, NEW r \in ReqType,
         req' = [req EXCEPT ![c][n] = r],
         UNCHANGED <<fs, spool, cdr, tenant, alive, up>>, faults' \in Nat,
         req[c][n].stage # "none",
         r.stage \in Refs \cup {"tenant", "insert"} => c \in Attributed,
         r.stage = "answer" => r.reply # "none",
         r.stage = "answer" /\ r.reply = "stored" => Stored(c) \/ ~tenant,
         r.stage = "answer" /\ r.reply = "ignored" => c \notin Attributed \/ ~tenant
  PROVE  IInv' /\ [Ledger!Next]_Ledger!vars
<1>1. TypeOK
  BY DEF IInv
<1>2. /\ req' \in [Calls -> [Posts -> ReqType]] /\ req'[c][n] = r
      /\ \A d \in Calls, m \in Posts : <<d, m>> # <<c, n>> => req'[d][m] = req[d][m]
  BY <1>1, OneHandler
<1>3. TypeOK'
  BY <1>1, <1>2 DEF TypeOK, ReqType
<1>4. \A d \in Calls : Stored(d)' <=> Stored(d)
  BY DEF Stored
<1>5. HandlerTrue(c, n)'
  <2>1. fs[c].at # "talking"
    BY DEF IInv, Truthful, HandlerTrue
  <2> QED
    BY <1>2, <1>4, <2>1 DEF HandlerTrue
<1>6. \A d \in Calls, m \in Posts : HandlerTrue(d, m)'
  <2>1. ASSUME NEW d \in Calls, NEW m \in Posts, <<d, m>> # <<c, n>>
        PROVE  HandlerTrue(d, m)'
    BY <1>2, <2>1, HandlerStays DEF IInv, Truthful
  <2> QED
    BY <1>5, <2>1
<1>7. IInv'
  BY <1>3, <1>6, SameTable
<1>8. UNCHANGED Ledger!vars
  BY <1>1, <1>4, NothingMoves
<1> QED
  BY <1>7, <1>8

LEMMA ReadStep ==
  ASSUME IInv, NEW c \in Calls, NEW n \in Posts,
         ReadTenant(c, n) \/ ReadRef(c, n) \/ DatabaseFails(c, n)
  PROVE  IInv' /\ [Ledger!Next]_Ledger!vars
<1>1. /\ req[c][n] \in ReqType /\ req \in [Calls -> [Posts -> ReqType]] /\ faults \in Nat
      /\ alive \subseteq Refs
  BY Types DEF IInv, TypeOK
<1>2. HandlerTrue(c, n)
  BY DEF IInv, Truthful
<1>3. CASE ReadTenant(c, n) /\ tenant
  <2> DEFINE r == [req[c][n] EXCEPT !.stage = "extension"]
  <2>1. r \in ReqType /\ r.stage = "extension" /\ c \in Attributed
    BY <1>1, <1>2, <1>3 DEF ReqType, Refs, ReadTenant, HandlerTrue
  <2>2. req' = [req EXCEPT ![c][n] = r]
    BY <1>3 DEF ReadTenant, To
  <2> HIDE DEF r
  <2> QED
    BY <1>1, <1>3, <2>1, <2>2, HandlerStep DEF ReadTenant
<1>4. CASE ReadTenant(c, n) /\ ~tenant
  <2> DEFINE r == [req[c][n] EXCEPT !.stage = "answer", !.reply = "ignored"]
  <2>1. r \in ReqType /\ r.stage = "answer" /\ r.reply = "ignored"
    BY <1>1 DEF ReqType, Refs
  <2>2. req' = [req EXCEPT ![c][n] = r]
    BY <1>1, <1>4 DEF ReadTenant, Reply
  <2> HIDE DEF r
  <2>3. ~(r.stage \in Refs \cup {"tenant", "insert"})
    BY <2>1 DEF Refs
  <2> QED
    BY <1>1, <1>4, <2>1, <2>2, <2>3, HandlerStep DEF ReadTenant
<1>5. CASE ReadRef(c, n)
  <2> DEFINE r == [stage |-> IF req[c][n].stage = "extension" THEN "trunk" ELSE "insert",
                   reply |-> "none",
                   refs |-> req[c][n].refs \cup ({req[c][n].stage} \cap alive)]
  <2>1. r.refs \in SUBSET Refs
    BY <1>1 DEF ReqType
  <2>2. r \in ReqType /\ r.stage # "answer" /\ c \in Attributed /\ req[c][n].stage # "none"
    BY <1>2, <1>5, <2>1 DEF ReqType, Refs, ReadRef, HandlerTrue
  <2>3. req' = [req EXCEPT ![c][n] = r]
    BY <1>5 DEF ReadRef
  <2> HIDE DEF r
  <2> QED
    BY <1>1, <1>5, <2>2, <2>3, HandlerStep DEF ReadRef
<1>6. CASE DatabaseFails(c, n)
  <2> DEFINE r == [req[c][n] EXCEPT !.stage = "answer", !.reply = "failed"]
  <2>1. r \in ReqType /\ r.stage = "answer" /\ r.reply = "failed"
    BY <1>1 DEF ReqType, Refs
  <2>2. req' = [req EXCEPT ![c][n] = r]
    BY <1>1, <1>6 DEF DatabaseFails, Reply
  <2>3. faults' \in Nat /\ req[c][n].stage # "none"
    BY <1>1, <1>6 DEF DatabaseFails, SpendFault, Refs
  <2> HIDE DEF r
  <2>4. ~(r.stage \in Refs \cup {"tenant", "insert"})
    BY <2>1 DEF Refs
  <2> QED
    BY <1>1, <1>6, <2>1, <2>2, <2>3, <2>4, HandlerStep DEF DatabaseFails
<1> QED
  BY <1>3, <1>4, <1>5, <1>6 DEF ReadTenant

LEMMA AnswerStep ==
  ASSUME IInv, NEW c \in Calls, NEW n \in Posts, Answer(c, n)
  PROVE  IInv' /\ [Ledger!Next]_Ledger!vars
<1>1. /\ TypeOK /\ OneRowPerCall /\ Truthful /\ HandlerTrue(c, n) /\ req[c][n].stage = "answer"
      /\ req' = [req EXCEPT ![c][n] = NoRequest]
      /\ UNCHANGED <<cdr, tenant, alive, up, faults>>
  BY DEF IInv, Truthful, Answer
<1>2. /\ req' \in [Calls -> [Posts -> ReqType]] /\ req'[c][n] = NoRequest
      /\ \A d \in Calls, m \in Posts : <<d, m>> # <<c, n>> => req'[d][m] = req[d][m]
  BY <1>1, NoRequestType, OneHandler
<1>3. fs \in [Calls -> FsType] /\ fs[c] \in FsType /\ req[c][n] \in ReqType
  BY <1>1, Types
<1>4. HandlerTrue(c, n)'
  BY <1>2 DEF HandlerTrue, NoRequest, Refs
<1>5. ASSUME \A d \in Calls : fs'[d].at = "talking" => fs[d].at = "talking"
      PROVE  \A d \in Calls, m \in Posts : HandlerTrue(d, m)'
  <2>1. ASSUME NEW d \in Calls, NEW m \in Posts, <<d, m>> # <<c, n>>
        PROVE  HandlerTrue(d, m)'
    BY <1>1, <1>2, <1>5, <2>1, HandlerStays DEF Truthful
  <2> QED
    BY <1>4, <2>1
<1>6. CASE ~(fs[c].at = "posting" /\ fs[c].posts = n)
  <2>1. fs' = fs /\ spool' = spool
    BY <1>6 DEF Answer
  <2>2. TypeOK'
    BY <1>1, <1>2, <2>1 DEF TypeOK, ReqType
  <2>3. IInv'
    BY <1>1, <1>5, <2>1, <2>2, SameTable
  <2>4. \A d \in Calls : Stored(d)' <=> Stored(d)
    BY <1>1 DEF Stored
  <2> QED
    BY <1>1, <2>1, <2>3, <2>4, NothingMoves
<1>7. CASE fs[c].at = "posting" /\ req[c][n].reply = "failed" /\ fs[c].posts = n
  <2>1. Fail(fs, {c})
    BY <1>7 DEF Answer
  <2>2. /\ fs' \in [Calls -> FsType] /\ spool' \subseteq Calls
        /\ \A d \in Calls : fs'[d].at \in {"talking", "waiting"} => fs'[d].posts < MaxPosts
        /\ \A d \in Calls \ {c} : fs'[d] = fs[d]
        /\ fs'[c].at \in {"waiting", "spooled"}
    BY <1>1, <1>3, <1>7, <2>1, FailEffect
  <2>3. TypeOK'
    BY <1>1, <1>2, <2>2 DEF TypeOK, FsType, ReqType
  <2>4. \A d \in Calls :
           /\ fs'[d].at = "talking" => fs[d].at = "talking"
           /\ fs'[d].at = "answered" => fs[d].at = "answered"
    BY <2>2
  <2>5. IInv'
    BY <1>1, <1>5, <2>3, <2>4, SameTable
  <2>6. [Ledger!Next]_Ledger!vars
    BY <1>1, <1>3, <1>7, <2>1, FailLedger
  <2> QED
    BY <2>5, <2>6
<1>8. CASE fs[c].at = "posting" /\ req[c][n].reply # "failed" /\ fs[c].posts = n
  <2>1. fs' = [fs EXCEPT ![c] = [fs[c] EXCEPT !.at = "answered"]] /\ spool' = spool
    BY <1>8 DEF Answer
  <2>2. [fs[c] EXCEPT !.at = "answered"] \in FsType
    BY <1>3 DEF FsType
  <2>3. /\ fs' \in [Calls -> FsType] /\ fs'[c].at = "answered"
        /\ \A d \in Calls \ {c} : fs'[d] = fs[d]
    BY <1>3, <2>1, <2>2 DEF FsType
  <2>4. TypeOK'
    BY <1>1, <1>2, <2>1, <2>3 DEF TypeOK, FsType, ReqType
  <2>5. Stored(c) \/ c \notin Attributed \/ ~tenant
    <3>1. req[c][n].reply \in {"ignored", "stored"}
      BY <1>1, <1>3, <1>8 DEF HandlerTrue, ReqType
    <3> QED
      BY <1>1, <3>1 DEF HandlerTrue
  <2>6. \A d \in Calls :
           /\ fs'[d].at = "talking" => fs[d].at = "talking"
           /\ fs'[d].at = "answered" =>
                 fs[d].at = "answered" \/ Stored(d) \/ d \notin Attributed \/ ~tenant
    BY <2>3, <2>5
  <2>7. IInv'
    BY <1>1, <1>5, <2>4, <2>6, SameTable
  <2>8. \A d \in Calls : Stored(d)' <=> Stored(d)
    BY <1>1 DEF Stored
  <2>9. \A d \in Calls \ {c} : Entry(d)' = Entry(d)
    <3> SUFFICES ASSUME NEW d \in Calls \ {c} PROVE Entry(d)' = Entry(d)
      OBVIOUS
    <3>1. fs'[d] = fs[d] /\ fs[d] \in FsType
      BY <1>1, <2>3, Types
    <3> QED
      BY <2>8, <3>1, EntryOf, EntryNext DEF FsType
  <2>10. CASE Stored(c)
    <3>1. Entry(c)' = Entry(c)
      BY <2>8, <2>10, EntryOf, EntryNext
    <3> QED
      BY <1>1, <2>7, <2>9, <3>1, LedgerStutter
  <2>11. CASE ~Stored(c)
    <3>1. Entry(c) = "owed" /\ Entry(c)' = "void"
      BY <1>8, <2>3, <2>8, <2>11, EntryOf, EntryNext
    <3>2. Ledger!All({c}, "void")
      BY <2>9, <3>1, LedgerAll
    <3>3. Ledger!Drop(c)
      BY <1>1, <2>5, <2>11, <3>1, <3>2 DEF Ledger!Drop
    <3> QED
      BY <2>7, <3>3 DEF Ledger!Next
  <2> QED
    BY <2>10, <2>11
<1> QED
  BY <1>6, <1>7, <1>8

LEMMA InsertStep ==
  ASSUME IInv, NEW c \in Calls, NEW n \in Posts, Insert(c, n)
  PROVE  IInv' /\ [Ledger!Next]_Ledger!vars
<1>1. /\ TypeOK /\ OneRowPerCall /\ Truthful /\ HandlerTrue(c, n) /\ req[c][n].stage = "insert"
      /\ UNCHANGED <<fs, spool, tenant, alive, up, faults>>
      /\ req[c][n] \in ReqType /\ req \in [Calls -> [Posts -> ReqType]] /\ faults \in Nat
      /\ c \in Attributed /\ fs[c].at # "talking"
  BY Types DEF IInv, Truthful, Insert, TypeOK, HandlerTrue
<1>2. CASE cdr' = cdr
  <2>1. PICK a \in {"stored", "failed"} : Reply(c, n, a) /\ (a = "stored" => Stored(c))
    <3>1. CASE Stored(c) /\ Reply(c, n, "stored")
      BY <3>1
    <3>2. CASE cdr' = cdr \cup {[call |-> c, post |-> n, refs |-> req[c][n].refs]}
               /\ Reply(c, n, "stored")
      <4>1. [call |-> c, post |-> n, refs |-> req[c][n].refs] \in cdr
        BY <1>2, <3>2
      <4>2. Stored(c)
        BY <4>1 DEF Stored
      <4> QED
        BY <3>2, <4>2
    <3>3. CASE Reply(c, n, "failed")
      BY <3>3
    <3> QED
      BY <3>1, <3>2, <3>3 DEF Insert
  <2> DEFINE r == [req[c][n] EXCEPT !.stage = "answer", !.reply = a]
  <2>2. r \in ReqType /\ r.stage = "answer" /\ r.reply = a
    BY <1>1 DEF ReqType, Refs
  <2>3. req' = [req EXCEPT ![c][n] = r]
    BY <1>1, <2>1 DEF Reply
  <2> HIDE DEF r
  <2>4. ~(r.stage \in Refs \cup {"tenant", "insert"})
    BY <2>2 DEF Refs
  <2> QED
    BY <1>1, <1>2, <2>1, <2>2, <2>3, <2>4, HandlerStep
<1>3. CASE cdr' # cdr
  <2> DEFINE row == [call |-> c, post |-> n, refs |-> req[c][n].refs]
             r == [req[c][n] EXCEPT !.stage = "answer", !.reply = "stored"]
  <2>1. /\ ~Stored(c) /\ tenant /\ cdr' = cdr \cup {row} /\ Reply(c, n, "stored")
    BY <1>3 DEF Insert
  <2>2. r \in ReqType /\ r.stage = "answer" /\ r.reply = "stored"
    BY <1>1 DEF ReqType, Refs
  <2>3. req' = [req EXCEPT ![c][n] = r]
    BY <1>1, <2>1 DEF Reply
  <2>4. row \in RowType /\ row.call = c
    BY <1>1 DEF RowType, ReqType
  <2>5. /\ req' \in [Calls -> [Posts -> ReqType]] /\ req'[c][n] = r
        /\ \A d \in Calls, m \in Posts : <<d, m>> # <<c, n>> => req'[d][m] = req[d][m]
    <3> HIDE DEF r
    <3> QED
      BY <1>1, <2>2, <2>3, OneHandler
  <2>6. TypeOK'
    BY <1>1, <2>1, <2>4, <2>5 DEF TypeOK, ReqType, RowType
  <2>7. OneRowPerCall'
    <3> SUFFICES ASSUME NEW x \in cdr', NEW y \in cdr', x.call = y.call PROVE x = y
      BY DEF OneRowPerCall
    <3> HIDE DEF row
    <3> QED
      BY <1>1, <2>1, <2>4 DEF OneRowPerCall, Stored
  <2>8. \A d \in Calls : Stored(d)' <=> (Stored(d) \/ d = c)
    <3> HIDE DEF row
    <3> QED
      BY <2>1, <2>4 DEF Stored
  <2>9. ASSUME NEW d \in Calls, NEW m \in Posts PROVE HandlerTrue(d, m)'
    <3>1. CASE <<d, m>> = <<c, n>>
      <4>1. req'[d][m].stage = "answer" /\ req'[d][m].reply = "stored"
            /\ Stored(d)' /\ fs'[d].at # "talking"
        BY <1>1, <2>2, <2>5, <2>8, <3>1
      <4> QED
        BY <4>1 DEF HandlerTrue, Refs
    <3>2. CASE <<d, m>> # <<c, n>>
      <4>1. HandlerTrue(d, m) /\ req'[d][m] = req[d][m] /\ fs' = fs /\ tenant' = tenant
            /\ (Stored(d) => Stored(d)')
        BY <1>1, <2>5, <2>8, <3>2 DEF Truthful
      <4> QED
        BY <4>1 DEF HandlerTrue
    <3> QED
      BY <3>1, <3>2
  <2>10. ASSUME NEW d \in Calls PROVE AnswerTrue(d)' /\ RowTrue(d)'
    <3>1. AnswerTrue(d) /\ RowTrue(d) /\ fs' = fs /\ tenant' = tenant
      BY <1>1 DEF Truthful
    <3> QED
      BY <1>1, <2>8, <3>1 DEF AnswerTrue, RowTrue
  <2>11. IInv'
    BY <2>6, <2>7, <2>9, <2>10 DEF IInv, Truthful
  <2>12. Entry(c) \in {"owed", "kept", "missing"}
    <3>1. fs[c].at \in {"waiting", "posting", "spooled", "lost"}
      <4>1. AnswerTrue(c) /\ fs[c] \in FsType
        BY <1>1, Types DEF Truthful
      <4> QED
        BY <1>1, <2>1, <4>1 DEF AnswerTrue, FsType
    <3> QED
      BY <2>1, <3>1, EntryOf
  <2>13. Entry(c)' = "billed"
    BY <2>8, EntryNext
  <2>14. \A d \in Calls \ {c} : Entry(d)' = Entry(d)
    <3> SUFFICES ASSUME NEW d \in Calls \ {c} PROVE Entry(d)' = Entry(d)
      OBVIOUS
    <3>1. fs'[d] = fs[d] /\ fs[d] \in FsType
      BY <1>1, Types
    <3> QED
      BY <2>8, <3>1, EntryOf, EntryNext DEF FsType
  <2>15. Ledger!All({c}, "billed")
    BY <2>13, <2>14, LedgerAll
  <2>16. Ledger!Bill(c)
    BY <1>1, <2>1, <2>12, <2>15 DEF Ledger!Bill
  <2> QED
    BY <2>11, <2>16 DEF Ledger!Next
<1> QED
  BY <1>2, <1>3

-----------------------------------------------------------------------------
(* The portal, and what fails. *)

LEMMA DeleteRefStep ==
  ASSUME IInv, NEW f \in Refs, DeleteRef(f)
  PROVE  IInv' /\ [Ledger!Next]_Ledger!vars
<1> DEFINE cut(r) == [r EXCEPT !.refs = @ \ {f}]
<1>1. /\ TypeOK /\ OneRowPerCall /\ Truthful
      /\ cdr' = {cut(r) : r \in cdr} /\ alive' = alive \ {f}
      /\ UNCHANGED <<fs, spool, req, tenant, up, faults>>
  BY DEF IInv, DeleteRef
<1>2. \A r \in cdr : cut(r) \in RowType /\ cut(r).call = r.call
  BY <1>1 DEF TypeOK, RowType
<1>3. TypeOK'
  BY <1>1, <1>2 DEF TypeOK, RowType
<1>4. OneRowPerCall'
  <2> SUFFICES ASSUME NEW x \in cdr', NEW y \in cdr', x.call = y.call PROVE x = y
    BY DEF OneRowPerCall
  <2>1. PICK r \in cdr, s \in cdr : x = cut(r) /\ y = cut(s)
    BY <1>1
  <2>2. r = s
    BY <1>1, <1>2, <2>1 DEF OneRowPerCall
  <2> QED
    BY <2>1, <2>2
<1>5. ASSUME NEW d \in Calls PROVE Stored(d)' <=> Stored(d)
  <2> HIDE DEF cut
  <2> QED
    BY <1>1, <1>2 DEF Stored
<1>6. Truthful'
  <2>1. ASSUME NEW d \in Calls, NEW m \in Posts PROVE HandlerTrue(d, m)'
    <3>1. HandlerTrue(d, m) /\ req' = req /\ fs' = fs /\ tenant' = tenant
          /\ (Stored(d)' <=> Stored(d))
      BY <1>1, <1>5 DEF Truthful
    <3> QED
      BY <3>1 DEF HandlerTrue
  <2>2. ASSUME NEW d \in Calls PROVE AnswerTrue(d)' /\ RowTrue(d)'
    <3>1. AnswerTrue(d) /\ RowTrue(d) /\ fs' = fs /\ tenant' = tenant
          /\ (Stored(d)' <=> Stored(d))
      BY <1>1, <1>5 DEF Truthful
    <3> QED
      BY <3>1 DEF AnswerTrue, RowTrue
  <2> QED
    BY <2>1, <2>2 DEF Truthful
<1>7. UNCHANGED Ledger!vars
  BY <1>1, <1>5, NothingMoves
<1> QED
  BY <1>3, <1>4, <1>6, <1>7 DEF IInv

LEMMA DeleteTenantStep ==
  ASSUME IInv, DeleteTenant
  PROVE  IInv' /\ [Ledger!Next]_Ledger!vars
<1>1. /\ TypeOK /\ Truthful /\ ~tenant' /\ alive' = {} /\ cdr' = {} /\ tenant' = FALSE
      /\ UNCHANGED <<fs, spool, req, up, faults>>
  BY DEF IInv, DeleteTenant
<1>2. TypeOK' /\ OneRowPerCall'
  BY <1>1 DEF TypeOK, OneRowPerCall
<1>3. \A d \in Calls : ~Stored(d)'
  BY <1>1 DEF Stored
<1>4. Truthful'
  <2>1. ASSUME NEW d \in Calls, NEW m \in Posts PROVE HandlerTrue(d, m)'
    <3>1. HandlerTrue(d, m) /\ req' = req /\ fs' = fs
      BY <1>1 DEF Truthful
    <3> QED
      BY <1>1, <3>1 DEF HandlerTrue
  <2>2. ASSUME NEW d \in Calls PROVE AnswerTrue(d)' /\ RowTrue(d)'
    BY <1>1, <1>3 DEF AnswerTrue, RowTrue
  <2> QED
    BY <2>1, <2>2 DEF Truthful
<1>5. ASSUME NEW d \in Calls
      PROVE  /\ Entry(d)' \in Ledger!Entry \ {"billed"}
             /\ Entry(d) # "billed" => Entry(d)' = Entry(d)
  <2>1. fs[d] \in FsType /\ fs'[d] = fs[d]
    BY <1>1, Types
  <2>2. Entry(d)' \in Ledger!Entry \ {"billed"}
    BY <1>3, <2>1, EntryNext DEF FsType, Ledger!Entry
  <2>3. Entry(d) # "billed" => Entry(d)' = Entry(d)
    BY <1>3, <2>1, EntryOf, EntryNext DEF FsType
  <2> QED
    BY <2>2, <2>3
<1>6. Ledger!Close
  BY <1>1, <1>5 DEF Ledger!Close
<1> QED
  BY <1>2, <1>4, <1>6 DEF IInv, Ledger!Next

LEMMA ApiCrashStep ==
  ASSUME IInv, ApiCrash
  PROVE  IInv' /\ [Ledger!Next]_Ledger!vars
<1> DEFINE S == {c \in Calls : fs[c].at = "posting"}
<1>1. /\ TypeOK /\ fs \in [Calls -> FsType] /\ up' = FALSE /\ Fail(fs, S)
      /\ req' = [c \in Calls |-> [n \in Posts |-> NoRequest]]
      /\ UNCHANGED <<cdr, tenant, alive>> /\ faults' \in Nat
  <2>1. TypeOK /\ faults \in Nat
    BY DEF IInv, TypeOK
  <2>2. fs \in [Calls -> FsType]
    BY DEF IInv, TypeOK, FsType
  <2> QED
    BY <2>1, <2>2 DEF ApiCrash, SpendFault
<1>2. /\ fs' \in [Calls -> FsType] /\ spool' \subseteq Calls
      /\ \A d \in Calls : fs'[d].at \in {"talking", "waiting"} => fs'[d].posts < MaxPosts
      /\ \A d \in Calls \ S : fs'[d] = fs[d]
      /\ \A d \in S : fs'[d].at \in {"waiting", "spooled"}
  BY <1>1, FailEffect
<1>3. req' \in [Calls -> [Posts -> ReqType]]
  BY <1>1, NoRequestType
<1>4. TypeOK'
  BY <1>1, <1>2, <1>3 DEF TypeOK, FsType, ReqType
<1>5. \A d \in Calls :
         /\ fs'[d].at = "talking" => fs[d].at = "talking"
         /\ fs'[d].at = "answered" => fs[d].at = "answered"
  BY <1>2
<1>6. \A d \in Calls, m \in Posts : HandlerTrue(d, m)'
  BY <1>1 DEF HandlerTrue, NoRequest, Refs
<1>7. IInv'
  BY <1>1, <1>4, <1>5, <1>6, SameTable
<1>8. [Ledger!Next]_Ledger!vars
  BY <1>1, FailLedger
<1> QED
  BY <1>7, <1>8

LEMMA ApiStartStep ==
  ASSUME IInv, ApiStart
  PROVE  IInv' /\ [Ledger!Next]_Ledger!vars
<1>1. TypeOK /\ UNCHANGED <<fs, spool, req, cdr, tenant, alive, faults>> /\ up' = TRUE
  BY DEF IInv, ApiStart
<1>2. TypeOK'
  BY <1>1 DEF TypeOK
<1>3. \A d \in Calls, m \in Posts : HandlerTrue(d, m)'
  BY <1>1, HandlerStays DEF IInv, Truthful
<1>4. IInv'
  BY <1>1, <1>2, <1>3, SameTable
<1>5. UNCHANGED Ledger!vars
  BY <1>1, NothingMoves DEF Stored
<1> QED
  BY <1>4, <1>5

LEMMA FsCrashStep ==
  ASSUME IInv, FsCrash
  PROVE  IInv' /\ [Ledger!Next]_Ledger!vars
<1> DEFINE S == {c \in Calls : fs[c].at \in {"talking", "waiting", "posting"}}
<1>1. /\ TypeOK /\ fs \in [Calls -> FsType]
      /\ fs' = [c \in Calls |-> IF c \in S THEN [fs[c] EXCEPT !.at = "lost"] ELSE fs[c]]
      /\ UNCHANGED <<spool, req, cdr, tenant, alive, up>> /\ faults' \in Nat
  <2>1. TypeOK /\ faults \in Nat
    BY DEF IInv, TypeOK
  <2>2. fs \in [Calls -> FsType]
    BY DEF IInv, TypeOK, FsType
  <2> QED
    BY <2>1, <2>2 DEF FsCrash, SpendFault
<1>2. /\ fs' \in [Calls -> FsType]
      /\ \A d \in S : fs'[d].at = "lost"
      /\ \A d \in Calls \ S : fs'[d] = fs[d]
  <2>1. \A d \in Calls : [fs[d] EXCEPT !.at = "lost"] \in FsType
                         /\ [fs[d] EXCEPT !.at = "lost"].at = "lost"
    BY <1>1 DEF FsType
  <2> QED
    BY <1>1, <2>1
<1>3. TypeOK'
  BY <1>1, <1>2 DEF TypeOK, FsType
<1>4. \A d \in Calls :
         /\ fs'[d].at = "talking" => fs[d].at = "talking"
         /\ fs'[d].at = "answered" => fs[d].at = "answered"
  BY <1>2
<1>5. \A d \in Calls, m \in Posts : HandlerTrue(d, m)'
  BY <1>1, <1>4, HandlerStays DEF IInv, Truthful
<1>6. IInv'
  BY <1>1, <1>3, <1>4, <1>5, SameTable
<1>7. \A d \in Calls : Stored(d)' <=> Stored(d)
  BY <1>1 DEF Stored
<1> DEFINE L == {c \in Calls : Entry(c) \in {"running", "owed"}}
<1>8. ASSUME NEW d \in Calls
      PROVE  Entry(d)' = IF d \in L THEN "missing" ELSE Entry(d)
  <2>1. fs[d] \in FsType
    BY <1>1
  <2>2. CASE d \in S
    BY <1>2, <1>7, <2>2, EntryOf, EntryNext
  <2>3. CASE d \notin S
    BY <1>2, <1>7, <2>1, <2>3, EntryOf, EntryNext DEF FsType
  <2> QED
    BY <2>2, <2>3
<1>9. Ledger!All(L, "missing")
  BY <1>8, LedgerAll
<1>10. Ledger!Lose
  BY <1>1, <1>9 DEF Ledger!Lose
<1> QED
  BY <1>6, <1>10 DEF Ledger!Next

-----------------------------------------------------------------------------
(* The theorems. *)

LEMMA InitIInv == Init => IInv /\ Ledger!Init
<1> SUFFICES ASSUME Init PROVE IInv /\ Ledger!Init
  OBVIOUS
<1>1. TypeOK
  BY PostsPositive DEF Init, TypeOK, NoRequest
<1>2. OneRowPerCall /\ \A c \in Calls : ~Stored(c)
  BY DEF Init, OneRowPerCall, Stored
<1>3. Truthful
  BY <1>2 DEF Init, Truthful, HandlerTrue, AnswerTrue, RowTrue, NoRequest, Refs
<1>4. \A c \in Calls : Entry(c) = "running"
  BY <1>2, EntryOf DEF Init
<1>5. Ledger!Init
  BY <1>4 DEF Init, Ledger!Init
<1> QED
  BY <1>1, <1>2, <1>3, <1>5 DEF IInv

LEMMA NextIInv == IInv /\ [Next]_vars => IInv' /\ [Ledger!Next]_Ledger!vars
<1> SUFFICES ASSUME IInv, [Next]_vars PROVE IInv' /\ [Ledger!Next]_Ledger!vars
  OBVIOUS
<1>1. ASSUME NEW c \in Calls, HangUp(c) \/ Post(c) \/ Timeout(c)
      PROVE  IInv' /\ [Ledger!Next]_Ledger!vars
  BY <1>1, HangUpStep, PostStep, TimeoutStep
<1>2. ASSUME NEW c \in Calls, NEW n \in Posts, Handle(c, n) \/ DatabaseFails(c, n)
      PROVE  IInv' /\ [Ledger!Next]_Ledger!vars
  BY <1>2, ReadStep, InsertStep, AnswerStep DEF Handle
<1>3. ASSUME NEW f \in Refs, DeleteRef(f)
      PROVE  IInv' /\ [Ledger!Next]_Ledger!vars
  BY <1>3, DeleteRefStep
<1>4. CASE DeleteTenant
  BY <1>4, DeleteTenantStep
<1>5. CASE ApiCrash
  BY <1>5, ApiCrashStep
<1>6. CASE ApiStart
  BY <1>6, ApiStartStep
<1>7. CASE FsCrash
  BY <1>7, FsCrashStep
<1>8. CASE UNCHANGED vars
  <2>1. UNCHANGED <<fs, spool, req, cdr, tenant, alive, up, faults>> /\ TypeOK
    BY <1>8 DEF vars, IInv
  <2>2. TypeOK'
    BY <2>1 DEF TypeOK
  <2>3. \A d \in Calls, m \in Posts : HandlerTrue(d, m)'
    BY <2>1, HandlerStays DEF IInv, Truthful
  <2>4. IInv'
    BY <2>1, <2>2, <2>3, SameTable
  <2>5. UNCHANGED Ledger!vars
    BY <2>1, NothingMoves DEF Stored
  <2> QED
    BY <2>4, <2>5
<1> QED
  BY <1>1, <1>2, <1>3, <1>4, <1>5, <1>6, <1>7, <1>8 DEF Next

LEMMA Inductive == Spec => []IInv
<1>1. Init => IInv
  BY InitIInv
<1>2. IInv /\ [Next]_vars => IInv'
  BY NextIInv
<1> QED
  BY <1>1, <1>2, PTL DEF Spec

\* Every variable keeps its type; no record is posted more often than configured.
THEOREM TypeCorrect == Spec => []TypeOK
<1>1. IInv => TypeOK
  BY DEF IInv
<1> QED
  BY Inductive, <1>1, PTL

\* However often a record is posted and however its handlers overlap, with crashes,
\* failing queries and deleted rows, the table holds at most one row for a call.
THEOREM BilledOnce == Spec => []OneRowPerCall
<1>1. IInv => OneRowPerCall
  BY DEF IInv
<1> QED
  BY Inductive, <1>1, PTL

\* The ingest implements the ledger: a record that names its tenant is dropped only when
\* the tenant is gone, and a stored record stays.
THEOREM ImplementsLedger == Spec => LedgerSpec
<1>1. Init => Ledger!Init
  BY InitIInv
<1>2. IInv /\ [Next]_vars => [Ledger!Next]_Ledger!vars
  BY NextIInv
<1> QED
  BY Inductive, <1>1, <1>2, PTL DEF Spec, LedgerSpec, Ledger!Spec

-----------------------------------------------------------------------------
(* The posts of a record. *)

\* The steps FreeSWITCH can still take with a call's record.
Due(f) ==
    IF f.at = "talking" THEN 2 * MaxPosts + 1
    ELSE IF f.at = "waiting" THEN 2 * (MaxPosts - f.posts)
    ELSE IF f.at = "posting" THEN 2 * (MaxPosts - f.posts) + 1
    ELSE 0

Onward(f, g) == g = f \/ Due(g) < Due(f)

LEMMA DueRange ==
  ASSUME NEW f \in FsType, f.at \in {"talking", "waiting"} => f.posts < MaxPosts
  PROVE  /\ Due(f) \in 0 .. (2 * MaxPosts + 1)
         /\ Due(f) = 0 <=> f.at \in {"answered", "spooled", "lost"}
  BY PostsPositive DEF FsType, Due

\* A post that fails brings the record to its next post, or to the directory.
LEMMA FailureIsOnward ==
  ASSUME NEW f \in FsType, f.at = "posting"
  PROVE  AfterFailure(f) \in FsType /\ Due(AfterFailure(f)) < Due(f)
  BY PostsPositive DEF FsType, Due, AfterFailure

LEMMA PostIsOnward ==
  ASSUME TypeOK, NEW c \in Calls, Post(c), NEW d \in Calls
  PROVE  Onward(fs[d], fs'[d])
<1>1. fs \in [Calls -> FsType] /\ fs[c].at = "waiting" /\ fs[c].posts < MaxPosts
  BY DEF TypeOK, FsType, Post
<1> DEFINE g == [at |-> "posting", posts |-> fs[c].posts + 1]
<1>2. g \in FsType /\ g.at = "posting" /\ Due(g) < Due(fs[c])
  BY <1>1, PostsPositive DEF FsType, Due
<1>3. Posted(c) = [fs EXCEPT ![c] = g]
  BY DEF Posted
<1> HIDE DEF g
<1>4. Posted(c)[d] = IF d = c THEN g ELSE fs[d]
  BY <1>1, <1>3
<1>5. CASE fs' = Posted(c)
  BY <1>2, <1>4, <1>5 DEF Onward
<1>6. CASE Fail(Posted(c), {c})
  <2>1. fs'[d] = IF d = c THEN AfterFailure(g) ELSE fs[d]
    BY <1>4, <1>6 DEF Fail
  <2>2. Due(AfterFailure(g)) < Due(g) /\ AfterFailure(g) \in FsType
    BY <1>2, FailureIsOnward
  <2>3. Due(AfterFailure(g)) \in Int /\ Due(g) \in Int /\ Due(fs[c]) \in Int
    BY <1>1, <1>2, <2>2, PostsPositive DEF FsType, Due
  <2> QED
    BY <1>2, <2>1, <2>2, <2>3 DEF Onward
<1> QED
  BY <1>5, <1>6 DEF Post

\* The posts under way of S fail.
LEMMA FailIsOnward ==
  ASSUME TypeOK, NEW S, \A c \in S : fs[c].at = "posting", S \subseteq Calls, Fail(fs, S),
         NEW d \in Calls
  PROVE  Onward(fs[d], fs'[d])
<1>1. fs[d] \in FsType /\ fs'[d] = IF d \in S THEN AfterFailure(fs[d]) ELSE fs[d]
  BY DEF TypeOK, FsType, Fail
<1> QED
  BY <1>1, FailureIsOnward DEF Onward

LEMMA EveryStepIsOnward ==
  ASSUME TypeOK, [Next]_vars, NEW d \in Calls
  PROVE  Onward(fs[d], fs'[d])
<1>0. fs \in [Calls -> FsType] /\ fs[d] \in FsType
  BY DEF TypeOK, FsType
<1>1. CASE UNCHANGED fs
  BY <1>1 DEF Onward
<1>2. ASSUME NEW c \in Calls, HangUp(c) PROVE Onward(fs[d], fs'[d])
  BY <1>0, <1>2, PostsPositive DEF HangUp, Onward, FsType, Due
<1>3. ASSUME NEW c \in Calls, Post(c) PROVE Onward(fs[d], fs'[d])
  BY <1>3, PostIsOnward
<1>4. ASSUME NEW c \in Calls, Timeout(c) PROVE Onward(fs[d], fs'[d])
  BY <1>4, FailIsOnward DEF Timeout
<1>5. ASSUME NEW c \in Calls, NEW n \in Posts, Answer(c, n) PROVE Onward(fs[d], fs'[d])
  <2>1. CASE fs[c].at = "posting" /\ Fail(fs, {c})
    BY <2>1, FailIsOnward
  <2>2. CASE fs[c].at = "posting" /\ fs' = [fs EXCEPT ![c].at = "answered"]
    BY <1>0, <2>2, PostsPositive DEF Onward, FsType, Due
  <2> QED
    BY <1>1, <1>5, <2>1, <2>2 DEF Answer
<1>6. ASSUME NEW c \in Calls, NEW n \in Posts,
             ReadTenant(c, n) \/ ReadRef(c, n) \/ Insert(c, n) \/ DatabaseFails(c, n)
      PROVE  UNCHANGED fs
  BY <1>6 DEF ReadTenant, ReadRef, Insert, DatabaseFails
<1>7. CASE ApiCrash
  BY <1>7, FailIsOnward DEF ApiCrash
<1>8. CASE FsCrash
  BY <1>0, <1>8, PostsPositive DEF FsCrash, Onward, FsType, Due, TypeOK
<1>9. ASSUME \/ \E f \in Refs : DeleteRef(f)
             \/ DeleteTenant \/ ApiStart \/ UNCHANGED vars
      PROVE  UNCHANGED fs
  BY <1>9 DEF DeleteRef, DeleteTenant, ApiStart, vars
<1> QED
  BY <1>1, <1>2, <1>3, <1>4, <1>5, <1>6, <1>7, <1>8, <1>9 DEF Next, Handle

\* Every step that concerns the record of a call leaves FreeSWITCH fewer steps to take
\* with it, whatever timeouts, late answers, crashes and restarts do; so it is not posted
\* for ever.  None is left once it was answered, kept on disk or lost.
RecordsRunOut ==
    [][\A c \in Calls :
          /\ Due(fs[c]) \in 0 .. (2 * MaxPosts + 1)
          /\ Due(fs[c]) = 0 <=> fs[c].at \in {"answered", "spooled", "lost"}
          /\ fs'[c] = fs[c] \/ Due(fs'[c]) < Due(fs[c])]_vars

\* mod_xml_cdr's retries: each step of a record brings it nearer its end, for any number
\* of posts, answers and faults.
THEOREM EveryRecordRunsOut == Spec => RecordsRunOut
<1> DEFINE Runs ==
      \A c \in Calls :
         /\ Due(fs[c]) \in 0 .. (2 * MaxPosts + 1)
         /\ Due(fs[c]) = 0 <=> fs[c].at \in {"answered", "spooled", "lost"}
         /\ fs'[c] = fs[c] \/ Due(fs'[c]) < Due(fs[c])
<1>1. TypeOK /\ [Next]_vars => Runs
  <2> SUFFICES ASSUME TypeOK, [Next]_vars, NEW c \in Calls
               PROVE  /\ Due(fs[c]) \in 0 .. (2 * MaxPosts + 1)
                      /\ Due(fs[c]) = 0 <=> fs[c].at \in {"answered", "spooled", "lost"}
                      /\ fs'[c] = fs[c] \/ Due(fs'[c]) < Due(fs[c])
    OBVIOUS
  <2>1. fs[c] \in FsType /\ (fs[c].at \in {"talking", "waiting"} => fs[c].posts < MaxPosts)
    BY DEF TypeOK, FsType
  <2> QED
    BY <2>1, DueRange, EveryStepIsOnward DEF Onward
<1> HIDE DEF Runs
<1>2. TypeOK /\ [Next]_vars => [Runs]_vars
  BY <1>1
<1>3. Spec => [][Runs]_vars
  BY <1>2, TypeCorrect, PTL DEF Spec
<1> QED
  BY <1>3 DEF RecordsRunOut, Runs

=============================================================================
