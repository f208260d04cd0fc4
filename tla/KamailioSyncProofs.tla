------------------------- MODULE KamailioSyncProofs -------------------------
(***************************************************************************)
(* Proofs about KamailioSync for any number of extensions, trunks,         *)
(* requests in flight and failures.                                        *)
(***************************************************************************)
EXTENDS KamailioSync, TLAPS

\* What a request can be about, and how far it can have got.
ExtShape(j) ==
    /\ j.op \in ExtOp /\ j.key \in Numbers
    /\ j.op = "deleteExt" => j.at \in {"commit", "unsub", "unloc"}
    /\ j.op \in {"createExt", "setPassword"} => j.at \in {"commit", "upsert"} /\ j.arg \in Passwords
    /\ j.op \in {"enableExt", "disableExt"} => j.at = "commit"

TrunkShape(j) ==
    /\ j.op \in TrunkOp /\ j.key \in Trunks
    /\ j.op = "deleteTrunk" => j.at \in {"commit", "remove", "reload"}
    /\ j.op # "deleteTrunk" => j.at \in {"commit", "insert", "reload"} /\ j.arg \in Columns
    /\ j.at = "insert" => j.arg.st = "ip"

ExtRow == [id : 0..MaxEdits, on : BOOLEAN, pw : Passwords \cup {None}]

Shape == \A w \in Workers : Busy(w) => ExtShape(job[w]) \/ TrunkShape(job[w])

Alone(w) == \A v \in Workers \ {w} : ~Projecting(v, job[w].key)

\* A projection that none overlaps carries what Postgres holds, and what it
\* has done so far stands.
CarriesExt(w) ==
    LET j == job[w] IN
    /\ j.at = "upsert" => ext[j.key].pw = j.arg
    /\ j.at = "unloc" => subs[j.key] = NoRow

CarriesTrunk(w) ==
    LET j == job[w] IN
    /\ j.at = "insert" => trunk[j.key] = j.arg
    /\ j.at = "remove" => trunk[j.key].st = "gone"
    /\ j.at = "reload" /\ j.op # "deleteTrunk" =>
         trunk[j.key] = j.arg /\ (j.arg.st = "ip" => <<j.arg.host, j.key>> \in addr)
    /\ j.at = "reload" /\ j.op = "deleteTrunk" =>
         trunk[j.key].st = "gone" /\ \A h \in Hosts : <<h, j.key>> \notin addr

Clean(w) == Busy(w) /\ job[w].at # "commit" /\ job[w].clean

Faithful == \A w \in Workers : Clean(w) => Alone(w) /\ CarriesExt(w) /\ CarriesTrunk(w)

IInv == TypeOK /\ Shape /\ Faithful /\ DigestFollows /\ TrunkTrusted

-----------------------------------------------------------------------------
(* What the ways to change a request do to it. *)

LEMMA IdleJob == Idle \in Job /\ Idle.op = "idle" /\ Idle.at = "idle" /\ Idle.clean
  BY Bounds DEF Idle, Job

\* The requests but w are as they were.
OthersStay(w) == \A v \in Workers \ {w} : job'[v] = job[v]

LEMMA LeaveFacts ==
    ASSUME TypeOK, NEW w \in Workers, job' = [job EXCEPT ![w] = Idle]
    PROVE  /\ job' \in [Workers -> Job] /\ OthersStay(w)
           /\ job'[w] = Idle /\ ~Busy(w)'
           /\ \A v \in Workers : Busy(v)' \/ job'[v] = Idle
  BY IdleJob DEF TypeOK, OthersStay, Busy

LEMMA AdvanceFacts ==
    ASSUME TypeOK, NEW w \in Workers, Busy(w), NEW at \in Step, NEW c \in BOOLEAN,
           job' = [job EXCEPT ![w] = [job[w] EXCEPT !.at = at, !.clean = c]]
    PROVE  /\ job' \in [Workers -> Job] /\ OthersStay(w)
           /\ job'[w].op = job[w].op /\ job'[w].key = job[w].key /\ job'[w].arg = job[w].arg
           /\ job'[w].at = at /\ job'[w].clean = c /\ Busy(w)'
           /\ \A v \in Workers : Busy(v)' \/ job'[v] = Idle
  BY DEF TypeOK, OthersStay, Busy, Job

LEMMA ProceedFacts ==
    ASSUME TypeOK, NEW w \in Workers, Busy(w), NEW at \in Step, Proceed(w, at)
    PROVE  /\ job' \in [Workers -> Job]
           /\ \A v \in Workers :
                /\ job'[v].op = job[v].op /\ job'[v].key = job[v].key /\ job'[v].arg = job[v].arg
                /\ Busy(v)' = Busy(v)
                /\ Busy(v)' \/ job'[v] = Idle
           /\ \A v \in Workers \ {w} :
                /\ job'[v].at = job[v].at
                /\ job'[v].clean => job[v].clean /\ ~Projecting(v, job[w].key)
           /\ job'[w].at = at
           /\ job'[w].clean => Alone(w)
  <1> DEFINE k == job[w].key
             others == {v \in Workers \ {w} : Projecting(v, k)}
             J(v) == IF v = w THEN [job[w] EXCEPT !.at = at, !.clean = others = {}]
                     ELSE [job[v] EXCEPT !.clean = job[v].clean /\ v \notin others]
  <1>1. job' = [v \in Workers |-> J(v)]
    BY DEF Proceed
  <1>2. ASSUME NEW v \in Workers
        PROVE  /\ J(v) \in Job /\ J(v).op = job[v].op /\ J(v).key = job[v].key
               /\ J(v).arg = job[v].arg
               /\ v # w => J(v).at = job[v].at /\ J(v).clean = (job[v].clean /\ v \notin others)
               /\ v = w => J(v).at = at /\ J(v).clean = (others = {})
    BY DEF TypeOK, Job
  <1>3. ASSUME NEW v \in Workers, ~Busy(v) PROVE J(v) = Idle
    <2>1. job[v] = Idle /\ v # w /\ v \notin others
      BY <1>3 DEF TypeOK, Projecting
    <2>2. job[v] \in Job /\ job[v].clean = TRUE
      BY <2>1, IdleJob DEF TypeOK, Idle
    <2> QED
      BY <2>1, <2>2 DEF Idle
  <1> HIDE DEF J, others
  <1>4. \A v \in Workers : Busy(v)' = Busy(v)
    BY <1>1, <1>2 DEF Busy
  <1>5. \A v \in Workers : Busy(v)' \/ job'[v] = Idle
    BY <1>1, <1>3, <1>4
  <1>6. \A v \in Workers \ {w} : v \notin others => ~Projecting(v, k)
    BY DEF others
  <1>7. \A v \in Workers \ {w} : job'[v].clean => job[v].clean /\ ~Projecting(v, k)
    BY <1>1, <1>2, <1>6
  <1>8. job'[w].clean => Alone(w)
    BY <1>1, <1>2, <1>6 DEF Alone
  <1> QED
    BY <1>1, <1>2, <1>4, <1>5, <1>7, <1>8

-----------------------------------------------------------------------------
(* Steps that leave every projection and every table alone. *)

Tables == <<trunk, subs, addr, mem, tainted>>

\* A request that has not committed comes or goes.
LEMMA Uncommitted ==
    ASSUME IInv, NEW w \in Workers, ~Busy(w) \/ job[w].at = "commit",
           OthersStay(w), UNCHANGED Tables, \A n \in Numbers : ext'[n].pw = ext[n].pw,
           TypeOK', Shape', Busy(w)' => job'[w].at = "commit"
    PROVE  IInv'
  <1>1. \A v \in Workers, k \in Key : Projecting(v, k)' = Projecting(v, k)
    BY DEF OthersStay, Projecting, Busy
  <1>2. \A v \in Workers : Clean(v)' => v # w /\ Clean(v) /\ job'[v] = job[v]
    BY DEF OthersStay, Clean, Busy
  <1>3. \A v \in Workers : Busy(v) => job[v].key \in Key
    BY DEF IInv, Shape, ExtShape, TrunkShape, Key
  <1>4. Faithful'
    <2> SUFFICES ASSUME NEW v \in Workers, Clean(v)'
                 PROVE  (Alone(v) /\ CarriesExt(v) /\ CarriesTrunk(v))'
      BY DEF Faithful
    <2>1. v # w /\ Clean(v) /\ job'[v] = job[v] /\ job[v].key \in Key
      BY <1>2, <1>3 DEF Clean
    <2>2. Alone(v) /\ CarriesExt(v) /\ CarriesTrunk(v)
      BY <2>1 DEF IInv, Faithful
    <2>3. ExtShape(job[v]) \/ TrunkShape(job[v])
      BY <2>1 DEF IInv, Shape, Clean
    <2>4. Alone(v)'
      BY <1>1, <2>1, <2>2 DEF Alone
    <2>5. CarriesExt(v)'
      BY <2>1, <2>2, <2>3 DEF CarriesExt, Tables, ExtShape, TrunkShape
    <2> QED
      BY <2>1, <2>2, <2>4, <2>5 DEF CarriesTrunk, Tables
  <1>5. DigestFollows' /\ TrunkTrusted'
    BY <1>1 DEF IInv, DigestFollows, TrunkTrusted, Settled, Tables, Key
  <1> QED
    BY <1>4, <1>5 DEF IInv

LEMMA BeginStep ==
    ASSUME IInv, NEW w \in Workers, NEW op, NEW k, NEW id \in 0..MaxEdits, NEW arg,
           Begin(w, op, k, id, arg),
           \/ op \in ExtOp /\ k \in Numbers /\ (op \in {"createExt", "setPassword"} => arg \in Passwords)
           \/ op \in TrunkOp /\ k \in Trunks /\ (op # "deleteTrunk" => arg \in Columns),
           arg \in Passwords \cup Columns \cup {None}
    PROVE  IInv'
  <1> DEFINE j == [op |-> op, key |-> k, id |-> id, arg |-> arg, at |-> "commit", clean |-> TRUE]
  <1>1. ~Busy(w) /\ job' = [job EXCEPT ![w] = j] /\ UNCHANGED <<ext, Tables>>
    BY DEF Begin, Tables
  <1>2. j \in Job /\ j.op # "idle" /\ j.op = op /\ j.key = k /\ j.arg = arg /\ j.at = "commit"
    BY DEF Job, Key, Step, ExtOp, TrunkOp
  <1> HIDE DEF j
  <1>3. job' \in [Workers -> Job] /\ job'[w] = j /\ OthersStay(w)
    BY <1>1, <1>2 DEF IInv, TypeOK, OthersStay
  <1>4. edits' \in 0..MaxEdits
    BY Bounds DEF IInv, TypeOK, Begin
  <1>5. TypeOK'
    BY <1>2, <1>3, <1>4 DEF IInv, TypeOK, OthersStay, Busy, Begin
  <1>6. Shape'
    BY <1>2, <1>3 DEF IInv, Shape, ExtShape, TrunkShape, OthersStay, Busy
  <1> QED
    BY <1>1, <1>2, <1>3, <1>5, <1>6, Uncommitted DEF Busy

LEMMA RequestStep ==
    ASSUME IInv, NEW w \in Workers, Request(w)
    PROVE  IInv'
  <1>1. ASSUME NEW n \in Numbers, NEW p \in Passwords, CreateExt(w, n, p) PROVE IInv'
    <2>1. edits + 1 \in 0..MaxEdits /\ Begin(w, "createExt", n, edits + 1, p)
      BY <1>1, Bounds DEF IInv, TypeOK, CreateExt, Begin
    <2> QED
      BY <2>1, BeginStep DEF ExtOp
  <1>2. ASSUME NEW n \in Numbers, NEW p \in Passwords, SetPassword(w, n, p) PROVE IInv'
    <2>1. ext[n].id \in 0..MaxEdits /\ Begin(w, "setPassword", n, ext[n].id, p)
      BY <1>2 DEF IInv, TypeOK, SetPassword
    <2> QED
      BY <2>1, BeginStep DEF ExtOp
  <1>3. ASSUME NEW n \in Numbers, DeleteExt(w, n) PROVE IInv'
    <2>1. ext[n].id \in 0..MaxEdits /\ Begin(w, "deleteExt", n, ext[n].id, None)
      BY <1>3 DEF IInv, TypeOK, DeleteExt
    <2> QED
      BY <2>1, BeginStep DEF ExtOp
  <1>8. ASSUME NEW n \in Numbers, EnableExt(w, n) \/ DisableExt(w, n) PROVE IInv'
    <2>1. PICK op \in {"enableExt", "disableExt"} : Begin(w, op, n, ext[n].id, None)
      BY <1>8 DEF EnableExt, DisableExt
    <2>2. ext[n].id \in 0..MaxEdits
      BY DEF IInv, TypeOK
    <2> QED
      BY <2>1, <2>2, BeginStep DEF ExtOp
  <1>4. 0 \in 0..MaxEdits
    BY Bounds
  <1>5. ASSUME NEW t \in Trunks, NEW c \in Columns, CreateTrunk(w, t, c) PROVE IInv'
    BY <1>4, <1>5, BeginStep DEF CreateTrunk, TrunkOp
  <1>6. ASSUME NEW t \in Trunks, NEW c \in Columns, PatchTrunk(w, t, c) PROVE IInv'
    BY <1>4, <1>6, BeginStep DEF PatchTrunk, TrunkOp
  <1>7. ASSUME NEW t \in Trunks, DeleteTrunk(w, t) PROVE IInv'
    BY <1>4, <1>7, BeginStep DEF DeleteTrunk, TrunkOp
  <1> QED
    BY <1>1, <1>2, <1>3, <1>5, <1>6, <1>7, <1>8 DEF Request

\* A request that ends without a projection.
LEMMA LeaveStep ==
    ASSUME IInv, NEW w \in Workers, Busy(w), job[w].at = "commit",
           job' = [job EXCEPT ![w] = Idle],
           UNCHANGED <<ext, trunk, subs, loc, reg, addr, mem, tainted, edits, faults>>
    PROVE  IInv'
  <1>1. /\ job' \in [Workers -> Job] /\ OthersStay(w)
        /\ job'[w] = Idle /\ ~Busy(w)'
        /\ \A v \in Workers : Busy(v)' \/ job'[v] = Idle
    BY LeaveFacts DEF IInv
  <1>2. TypeOK'
    BY <1>1 DEF IInv, TypeOK
  <1>3. Shape'
    BY <1>1 DEF IInv, Shape, OthersStay, Busy, ExtShape, TrunkShape
  <1> QED
    BY <1>1, <1>2, <1>3, Uncommitted DEF Tables

-----------------------------------------------------------------------------
(* Commits. *)

\* Where a commit leads, by the operation.
Leads(j, at) ==
    \/ j.op \in {"createExt", "setPassword"} /\ at = "upsert"
    \/ j.op = "deleteExt" /\ at = "unsub"
    \/ j.op = "deleteTrunk" /\ at = "remove"
    \/ j.op \in {"createTrunk", "patchTrunk"} /\ at = IF j.arg.st = "ip" THEN "insert" ELSE "reload"

\* A request commits: of the tables only the row it is about changes, and the
\* request, if it is clean, carries that row.
LEMMA CommitStep ==
    ASSUME IInv, NEW w \in Workers, Busy(w), job[w].at = "commit",
           NEW k, k = job[w].key, NEW at, Leads(job[w], at), Proceed(w, at),
           ext' \in [Numbers -> ExtRow],
           trunk' \in [Trunks -> TrunkRow],
           \A n \in Numbers : n # k => ext'[n] = ext[n],
           \A t \in Trunks : t # k => trunk'[t] = trunk[t],
           at = "upsert" => ext'[k].pw = job[w].arg,
           at \in {"insert", "reload"} => trunk'[k] = job[w].arg,
           at = "remove" => trunk'[k].st = "gone",
           UNCHANGED <<subs, loc, reg, addr, mem, tainted, edits, faults>>
    PROVE  IInv'
  <1>1. ExtShape(job[w]) \/ TrunkShape(job[w])
    BY DEF IInv, Shape
  <1>2. k \in Key /\ at \in Step
    BY <1>1 DEF ExtShape, TrunkShape, Key, Leads, Step
  <1>3. /\ job' \in [Workers -> Job]
        /\ \A v \in Workers :
             /\ job'[v].op = job[v].op /\ job'[v].key = job[v].key /\ job'[v].arg = job[v].arg
             /\ Busy(v)' = Busy(v)
             /\ Busy(v)' \/ job'[v] = Idle
        /\ \A v \in Workers \ {w} :
             /\ job'[v].at = job[v].at
             /\ job'[v].clean => job[v].clean /\ ~Projecting(v, k)
        /\ job'[w].at = at
        /\ job'[w].clean => Alone(w)
    BY <1>2, ProceedFacts DEF IInv
  <1>4. TypeOK'
    BY <1>3 DEF IInv, TypeOK, ExtRow
  <1>5. Shape'
    <2>1. ASSUME NEW v \in Workers \ {w}, Busy(v)' PROVE (ExtShape(job[v]) \/ TrunkShape(job[v]))'
      BY <1>3, <2>1 DEF IInv, Shape, ExtShape, TrunkShape
    <2>2. (ExtShape(job[w]) \/ TrunkShape(job[w]))'
      BY <1>1, <1>3 DEF Leads, ExtShape, TrunkShape, ExtOp, TrunkOp, Columns
    <2> QED
      BY <2>1, <2>2 DEF Shape
  <1>6. \A v \in Workers \ {w}, q \in Key : Projecting(v, q)' = Projecting(v, q)
    BY <1>3 DEF Projecting
  <1>7. Projecting(w, k)' /\ \A q \in Key \ {k} : Projecting(w, q)' = Projecting(w, q)
    BY <1>2, <1>3 DEF Projecting, Step, Leads
  <1>8. \A v \in Workers : Busy(v) => job[v].key \in Key
    BY DEF IInv, Shape, ExtShape, TrunkShape, Key
  <1>9. ASSUME NEW v \in Workers \ {w}, Clean(v)'
        PROVE  (Alone(v) /\ CarriesExt(v) /\ CarriesTrunk(v))'
    <2>1. Clean(v) /\ ~Projecting(v, k)
      BY <1>3, <1>9 DEF Clean
    <2>2. job[v].key # k /\ job[v].key \in Key
      BY <1>8, <2>1 DEF Projecting, Clean
    <2>3. Alone(v)'
      BY <1>3, <1>6, <1>7, <2>1, <2>2 DEF IInv, Faithful, Alone
    <2>4. ExtShape(job[v]) \/ TrunkShape(job[v])
      BY <2>1 DEF IInv, Shape, Clean
    <2>5. CarriesExt(v)'
      BY <1>3, <2>1, <2>2, <2>4 DEF IInv, Faithful, CarriesExt, ExtShape, TrunkShape
    <2>6. CarriesTrunk(v)'
      BY <1>3, <2>1, <2>2, <2>4 DEF IInv, Faithful, CarriesTrunk, ExtShape, TrunkShape, ExtOp
    <2> QED
      BY <2>3, <2>5, <2>6
  <1>10. ASSUME Clean(w)' PROVE (Alone(w) /\ CarriesExt(w) /\ CarriesTrunk(w))'
    <2>1. Alone(w)'
      BY <1>2, <1>3, <1>6, <1>10 DEF Clean, Alone
    <2>2. CarriesExt(w)'
      BY <1>3 DEF CarriesExt, Leads
    <2>3. CarriesTrunk(w)'
      BY <1>3 DEF CarriesTrunk, Leads
    <2> QED
      BY <2>1, <2>2, <2>3
  <1>11. Faithful'
    BY <1>9, <1>10 DEF Faithful
  <1>12. ~Settled(k)' /\ \A q \in Key \ {k} : Settled(q)' => Settled(q)
    BY <1>6, <1>7 DEF Settled
  <1>13. DigestFollows'
    BY <1>12 DEF IInv, DigestFollows, Key
  <1>14. ASSUME NEW t \in Trunks, Settled(t)'
         PROVE  Settled(t) /\ trunk'[t] = trunk[t]
    BY <1>12, <1>14 DEF Key
  <1>15. TrunkTrusted'
    BY <1>14 DEF IInv, TrunkTrusted
  <1> QED
    BY <1>4, <1>5, <1>11, <1>13, <1>15 DEF IInv

LEMMA ExtCommits ==
    ASSUME IInv, NEW w \in Workers, CommitCreate(w) \/ CommitPassword(w) \/ CommitDelete(w)
    PROVE  IInv'
  <1> DEFINE j == job[w]
  <1>1. /\ Busy(w) /\ j.at = "commit" /\ ExtShape(j)
        /\ UNCHANGED <<trunk, subs, loc, reg, addr, mem, tainted, edits, faults>>
    BY DEF IInv, Shape, Busy, CommitCreate, CommitPassword, CommitDelete, TrunkShape, TrunkOp
  <1>2. /\ j.key \in Numbers /\ j \in Job /\ ext[j.key] \in ExtRow
        /\ \A t \in Trunks : trunk'[t] = trunk[t]
        /\ trunk' \in [Trunks -> TrunkRow]
    BY <1>1 DEF IInv, TypeOK, ExtShape, ExtRow
  <1>3. CASE job' = [job EXCEPT ![w] = Idle] /\ UNCHANGED ext
    BY <1>1, <1>3, LeaveStep
  <1>4. CASE /\ CommitCreate(w) /\ ext' = [ext EXCEPT ![j.key] = [id |-> j.id, on |-> TRUE, pw |-> j.arg]]
             /\ Proceed(w, "upsert")
    <2>1. j.arg \in Passwords /\ j.id \in 0..MaxEdits /\ Leads(j, "upsert")
      BY <1>1, <1>2, <1>4 DEF ExtShape, CommitCreate, Job, Leads
    <2>2. /\ ext' \in [Numbers -> ExtRow]
          /\ ext'[j.key].pw = j.arg /\ \A n \in Numbers : n # j.key => ext'[n] = ext[n]
      BY <1>2, <1>4, <2>1 DEF IInv, TypeOK, ExtRow
    <2>3. Proceed(w, "upsert")
      BY <1>4
    <2> QED
      BY <1>1, <1>2, <2>1, <2>2, <2>3, CommitStep
  <1>5. CASE /\ CommitPassword(w) /\ ext' = [ext EXCEPT ![j.key].pw = j.arg]
             /\ Proceed(w, "upsert")
    <2> DEFINE r == [ext[j.key] EXCEPT !.pw = j.arg]
    <2>1. j.arg \in Passwords /\ Leads(j, "upsert")
      BY <1>1, <1>5 DEF ExtShape, CommitPassword, Leads
    <2>2. r \in ExtRow /\ r.pw = j.arg
      BY <1>2, <2>1 DEF ExtRow
    <2>3. ext' = [ext EXCEPT ![j.key] = r]
      BY <1>5
    <2> HIDE DEF r
    <2>4. /\ ext' \in [Numbers -> ExtRow]
          /\ ext'[j.key].pw = j.arg /\ \A n \in Numbers : n # j.key => ext'[n] = ext[n]
      BY <1>2, <2>2, <2>3 DEF IInv, TypeOK, ExtRow
    <2>5. Proceed(w, "upsert")
      BY <1>5
    <2> QED
      BY <1>1, <1>2, <2>1, <2>4, <2>5, CommitStep
  <1>6. CASE /\ CommitDelete(w) /\ Proceed(w, "unsub")
             /\ ext' = [ext EXCEPT ![j.key].pw = None] \/ ext' = ext
    <2>1. Leads(j, "unsub")
      BY <1>6 DEF CommitDelete, Leads
    <2>2. /\ ext' \in [Numbers -> ExtRow]
          /\ \A n \in Numbers : n # j.key => ext'[n] = ext[n]
      BY <1>2, <1>6 DEF IInv, TypeOK, ExtRow
    <2>3. Proceed(w, "unsub")
      BY <1>6
    <2> QED
      BY <1>1, <1>2, <2>1, <2>2, <2>3, CommitStep
  <1> QED
    BY <1>3, <1>4, <1>5, <1>6 DEF CommitCreate, CommitPassword, CommitDelete, Leave

\* A request that switches an extension on or off: no password of a row changes.
LEMMA EnabledCommit ==
    ASSUME IInv, NEW w \in Workers, CommitEnabled(w)
    PROVE  IInv'
  <1> DEFINE j == job[w]
             r == [ext[j.key] EXCEPT !.on = j.op = "enableExt"]
  <1>1. /\ Busy(w) /\ j.at = "commit" /\ ExtShape(j)
        /\ job' = [job EXCEPT ![w] = Idle]
        /\ UNCHANGED <<trunk, subs, loc, reg, addr, mem, tainted, edits, faults>>
    BY DEF IInv, Shape, Busy, CommitEnabled, TrunkShape, TrunkOp, Leave
  <1>2. j.key \in Numbers /\ ext \in [Numbers -> ExtRow]
    BY <1>1 DEF IInv, TypeOK, ExtShape, ExtRow
  <1>3. r \in ExtRow /\ r.pw = ext[j.key].pw
    BY <1>2 DEF ExtRow
  <1>4. ext' = [ext EXCEPT ![j.key] = r] \/ ext' = ext
    BY DEF CommitEnabled
  <1> HIDE DEF r
  <1>5. ext' \in [Numbers -> ExtRow] /\ \A n \in Numbers : ext'[n].pw = ext[n].pw
    BY <1>2, <1>3, <1>4
  <1>6. /\ job' \in [Workers -> Job] /\ OthersStay(w)
        /\ job'[w] = Idle /\ ~Busy(w)'
        /\ \A v \in Workers : Busy(v)' \/ job'[v] = Idle
    BY <1>1, LeaveFacts DEF IInv
  <1>7. TypeOK'
    BY <1>1, <1>5, <1>6 DEF IInv, TypeOK, ExtRow
  <1>8. Shape'
    BY <1>6 DEF IInv, Shape, OthersStay, Busy, ExtShape, TrunkShape
  <1> QED
    BY <1>1, <1>5, <1>6, <1>7, <1>8, Uncommitted DEF Tables

LEMMA TrunkCommit ==
    ASSUME IInv, NEW w \in Workers, CommitTrunk(w)
    PROVE  IInv'
  <1> DEFINE j == job[w]
             next == IF j.op = "deleteTrunk" THEN "remove"
                     ELSE IF j.arg.st = "ip" THEN "insert" ELSE "reload"
  <1>1. /\ Busy(w) /\ j.at = "commit" /\ TrunkShape(j)
        /\ UNCHANGED <<ext, subs, loc, reg, addr, mem, tainted, edits, faults>>
    BY DEF IInv, Shape, Busy, CommitTrunk, ExtShape, ExtOp, TrunkOp
  <1>2. /\ j.key \in Trunks /\ j \in Job /\ trunk[j.key] \in TrunkRow
        /\ \A n \in Numbers : ext'[n] = ext[n]
        /\ ext' \in [Numbers -> ExtRow]
        /\ Leads(j, next)
    BY <1>1 DEF IInv, TypeOK, ExtRow, TrunkShape, TrunkOp, Leads
  <1>3. CASE job' = [job EXCEPT ![w] = Idle] /\ UNCHANGED trunk
    BY <1>1, <1>3, LeaveStep
  <1>4. CASE /\ j.op = "deleteTrunk" /\ trunk' = [trunk EXCEPT ![j.key].st = "gone"]
             /\ Proceed(w, next)
    <2>1. /\ trunk' \in [Trunks -> TrunkRow] /\ trunk'[j.key].st = "gone"
          /\ \A t \in Trunks : t # j.key => trunk'[t] = trunk[t]
      BY <1>2, <1>4 DEF IInv, TypeOK, TrunkRow
    <2> QED
      BY <1>1, <1>2, <1>4, <2>1, CommitStep
  <1>5. CASE /\ j.op # "deleteTrunk" /\ trunk' = [trunk EXCEPT ![j.key] = j.arg]
             /\ Proceed(w, next)
    <2>1. j.arg \in Columns /\ j.arg \in TrunkRow
      BY <1>1, <1>5 DEF TrunkShape, Columns, TrunkRow
    <2>2. /\ trunk' \in [Trunks -> TrunkRow] /\ trunk'[j.key] = j.arg
          /\ \A t \in Trunks : t # j.key => trunk'[t] = trunk[t]
      BY <1>2, <1>5, <2>1 DEF IInv, TypeOK
    <2>3. next \in {"insert", "reload"}
      BY <1>5
    <2> QED
      BY <1>1, <1>2, <1>5, <2>2, <2>3, CommitStep
  <1> QED
    BY <1>3, <1>4, <1>5 DEF CommitTrunk, Leave

-----------------------------------------------------------------------------
(* The projection. *)

\* A request is over, and its key is settled only if it was clean.
LEMMA FinishStep ==
    ASSUME IInv, NEW w \in Workers, Busy(w), job[w].at \in {"upsert", "unloc", "reload"},
           NEW k, k = job[w].key, NEW bad \in BOOLEAN,
           job' = [job EXCEPT ![w] = Idle], tainted' = [tainted EXCEPT ![k] = bad],
           ~bad => job[w].clean /\ ~Late(w),
           UNCHANGED <<ext, trunk, addr, edits, faults>>,
           subs' \in [Numbers -> SubscriberRow \cup {NoRow}],
           \A n \in Numbers \ {k} : subs'[n] = subs[n],
           job[w].at = "upsert" => subs'[k].ha1 = job[w].arg,
           job[w].at # "upsert" => subs' = subs,
           loc' \subseteq Numbers, reg' = reg,
           mem' = mem \/ (mem' = Listed), job[w].at = "reload" => mem' = Listed
    PROVE  IInv'
  <1>1. /\ job' \in [Workers -> Job] /\ OthersStay(w)
        /\ job'[w] = Idle /\ ~Busy(w)'
        /\ \A v \in Workers : Busy(v)' \/ job'[v] = Idle
    BY LeaveFacts DEF IInv
  <1>2. (ExtShape(job[w]) \/ TrunkShape(job[w])) /\ k \in Key
    BY DEF IInv, Shape, ExtShape, TrunkShape, Key
  <1>3. mem' \subseteq Hosts
    BY DEF IInv, TypeOK, Listed
  <1>4. TypeOK'
    BY <1>1, <1>3 DEF IInv, TypeOK
  <1>5. Shape'
    BY <1>1 DEF IInv, Shape, OthersStay, Busy, ExtShape, TrunkShape
  <1>6. /\ \A v \in Workers \ {w}, q \in Key : Projecting(v, q)' = Projecting(v, q)
        /\ \A q \in Key : ~Projecting(w, q)'
        /\ Projecting(w, k) /\ \A q \in Key \ {k} : ~Projecting(w, q)
    BY <1>1 DEF OthersStay, Projecting, Busy
  <1>7. ASSUME NEW v \in Workers, Clean(v)'
        PROVE  (Alone(v) /\ CarriesExt(v) /\ CarriesTrunk(v))'
    <2>1. v # w /\ job'[v] = job[v] /\ Clean(v)
      BY <1>1, <1>7 DEF OthersStay, Clean, Busy
    <2>2. job[v].key \in Key /\ (ExtShape(job[v]) \/ TrunkShape(job[v]))
      BY <2>1 DEF IInv, Shape, Clean, ExtShape, TrunkShape, Key
    <2>3. Alone(v) /\ CarriesExt(v) /\ CarriesTrunk(v)
      BY <2>1 DEF IInv, Faithful
    <2>4. job[v].key # k
      BY <1>6, <2>1, <2>3 DEF Alone
    <2>5. Alone(v)'
      BY <1>6, <2>1, <2>2, <2>3 DEF Alone
    <2>6. CarriesExt(v)'
      BY <2>1, <2>2, <2>3, <2>4 DEF CarriesExt, ExtShape, TrunkShape
    <2>7. CarriesTrunk(v)'
      BY <2>1, <2>3 DEF CarriesTrunk
    <2> QED
      BY <2>5, <2>6, <2>7
  <1>8. Faithful'
    BY <1>7 DEF Faithful
  <1>9. \A q \in Key \ {k} : Settled(q)' => Settled(q)
    BY <1>6 DEF IInv, TypeOK, Settled
  <1>10. Settled(k)' => Clean(w) /\ ~Late(w)
    BY <1>2 DEF IInv, TypeOK, Settled, Clean
  <1>11. ASSUME NEW n \in Numbers, Settled(n)' PROVE subs'[n].ha1 = ext'[n].pw
    <2>1. CASE n # k
      BY <1>9, <1>11, <2>1 DEF IInv, DigestFollows, Key
    <2>2. CASE n = k
      <3>1. Clean(w) /\ ~Late(w) /\ ExtShape(job[w])
        BY <1>2, <1>10, <1>11, <2>2, KeysDisjoint DEF TrunkShape
      <3>2. CarriesExt(w)
        BY <3>1 DEF IInv, Faithful
      <3>3. CASE job[w].at = "upsert"
        BY <2>2, <3>2, <3>3 DEF CarriesExt
      <3>4. CASE job[w].at = "unloc"
        <4>1. job[w].op = "deleteExt" /\ ext[k].pw = None
          BY <3>1, <3>4 DEF ExtShape, ExtOp, Late
        <4> QED
          BY <2>2, <3>2, <3>4, <4>1 DEF CarriesExt, NoRow
      <3> QED
        BY <3>1, <3>3, <3>4 DEF ExtShape, ExtOp
    <2> QED
      BY <2>1, <2>2
  <1>12. ASSUME NEW t \in Trunks, Settled(t)'
         PROVE  /\ trunk'[t].st = "ip" => <<trunk'[t].host, t>> \in addr' /\ trunk'[t].host \in mem'
                /\ trunk'[t].st = "gone" => \A h \in Hosts : <<h, t>> \notin addr'
    <2>1. \A h, q : <<h, q>> \in addr => h \in Listed
      <3> SUFFICES ASSUME NEW h, NEW q, <<h, q>> \in addr PROVE h \in Listed
        OBVIOUS
      <3> QED
        BY DEF Listed
    <2>2. CASE t # k
      BY <1>9, <1>12, <2>1, <2>2 DEF IInv, TrunkTrusted, Key
    <2>3. CASE t = k
      <3>1. Clean(w) /\ TrunkShape(job[w]) /\ job[w].at = "reload"
        BY <1>2, <1>10, <1>12, <2>3, KeysDisjoint DEF TrunkShape, ExtShape
      <3>2. CarriesTrunk(w)
        BY <3>1 DEF IInv, Faithful
      <3>3. CASE job[w].op = "deleteTrunk"
        BY <2>3, <3>1, <3>2, <3>3 DEF CarriesTrunk
      <3>4. CASE job[w].op # "deleteTrunk"
        BY <2>1, <2>3, <3>1, <3>2, <3>4 DEF CarriesTrunk, TrunkShape, Columns
      <3> QED
        BY <3>3, <3>4
    <2> QED
      BY <2>2, <2>3
  <1>13. DigestFollows' /\ TrunkTrusted'
    BY <1>11, <1>12 DEF DigestFollows, TrunkTrusted
  <1> QED
    BY <1>4, <1>5, <1>8, <1>13 DEF IInv

\* A query of the projection was answered, or failed, and another one follows.
LEMMA AdvanceStep ==
    ASSUME IInv, NEW w \in Workers, Busy(w), NEW k, k = job[w].key,
           NEW at \in {"unloc", "reload"}, NEW c \in BOOLEAN,
           at = "unloc" => job[w].at = "unsub" /\ subs' = [subs EXCEPT ![k] = NoRow],
           at = "reload" => job[w].at \in {"insert", "remove"} /\ subs' = subs,
           job' = [job EXCEPT ![w] = [job[w] EXCEPT !.at = at, !.clean = c]],
           c => job[w].clean,
           UNCHANGED <<ext, trunk, loc, reg, mem, tainted, edits>>,
           faults' \in 0..MaxFaults,
           addr' \subseteq Hosts \X Trunks,
           \A h \in Hosts, t \in Trunks \ {k} : <<h, t>> \in addr' <=> <<h, t>> \in addr,
           c /\ job[w].at = "insert" => <<job[w].arg.host, k>> \in addr',
           c /\ job[w].at = "remove" => \A h \in Hosts : <<h, k>> \notin addr'
    PROVE  IInv'
  <1>0. at \in Step
    BY DEF Step
  <1>1. /\ job' \in [Workers -> Job] /\ OthersStay(w)
        /\ job'[w].op = job[w].op /\ job'[w].key = k /\ job'[w].arg = job[w].arg
        /\ job'[w].at = at /\ job'[w].clean = c /\ Busy(w)'
        /\ \A v \in Workers : Busy(v)' \/ job'[v] = Idle
    BY <1>0, AdvanceFacts DEF IInv
  <1>2. (ExtShape(job[w]) \/ TrunkShape(job[w])) /\ k \in Key
    BY DEF IInv, Shape, ExtShape, TrunkShape, Key
  <1>3. TypeOK'
    <2>1. subs' \in [Numbers -> SubscriberRow \cup {NoRow}]
      BY DEF IInv, TypeOK
    <2> QED
      BY <1>1, <2>1 DEF IInv, TypeOK
  <1>4. Shape'
    <2>1. (ExtShape(job[w]) \/ TrunkShape(job[w]))'
      BY <1>1, <1>2 DEF ExtShape, TrunkShape
    <2>2. ASSUME NEW v \in Workers \ {w}, Busy(v)' PROVE (ExtShape(job[v]) \/ TrunkShape(job[v]))'
      BY <1>1, <2>2 DEF IInv, Shape, OthersStay, Busy, ExtShape, TrunkShape
    <2> QED
      BY <2>1, <2>2 DEF Shape
  <1>5. /\ \A v \in Workers, q \in Key : Projecting(v, q)' = Projecting(v, q)
        /\ Projecting(w, k)
    BY <1>1 DEF OthersStay, Projecting, Busy
  <1>6. ASSUME NEW v \in Workers \ {w}, Clean(v)'
        PROVE  (Alone(v) /\ CarriesExt(v) /\ CarriesTrunk(v))'
    <2>1. job'[v] = job[v] /\ Clean(v)
      BY <1>1, <1>6 DEF OthersStay, Clean, Busy
    <2>2. job[v].key \in Key /\ (ExtShape(job[v]) \/ TrunkShape(job[v])) /\ job[v] \in Job
      BY <2>1 DEF IInv, TypeOK, Shape, Clean, ExtShape, TrunkShape, Key
    <2>3. Alone(v) /\ CarriesExt(v) /\ CarriesTrunk(v)
      BY <2>1 DEF IInv, Faithful
    <2>4. job[v].key # k
      BY <1>5, <2>3 DEF Alone
    <2>5. Alone(v)'
      BY <1>5, <2>1, <2>2, <2>3 DEF Alone
    <2>6. CarriesExt(v)'
      BY <2>1, <2>2, <2>3, <2>4 DEF IInv, TypeOK, CarriesExt, ExtShape, TrunkShape
    <2>7. CarriesTrunk(v)'
      BY <2>1, <2>2, <2>3, <2>4 DEF CarriesTrunk, ExtShape, TrunkShape, Columns, ExtOp
    <2> QED
      BY <2>5, <2>6, <2>7
  <1>7. ASSUME Clean(w)' PROVE (Alone(w) /\ CarriesExt(w) /\ CarriesTrunk(w))'
    <2>1. Clean(w)
      BY <1>1, <1>2, <1>7 DEF Clean
    <2>2. Alone(w) /\ CarriesTrunk(w)
      BY <2>1 DEF IInv, Faithful
    <2>3. Alone(w)'
      BY <1>1, <1>2, <1>5, <2>2 DEF Alone
    <2>4. CarriesExt(w)'
      BY <1>1, <1>2 DEF IInv, TypeOK, CarriesExt, ExtShape, TrunkShape
    <2>5. c
      BY <1>1, <1>7 DEF Clean
    <2>6. CarriesTrunk(w)'
      BY <1>1, <1>2, <2>2, <2>5 DEF CarriesTrunk, ExtShape, TrunkShape, ExtOp
    <2> QED
      BY <2>3, <2>4, <2>6
  <1>8. Faithful'
    BY <1>6, <1>7 DEF Faithful
  <1>9. \A q \in Key : Settled(q)' => Settled(q) /\ q # k
    BY <1>1, <1>2, <1>5 DEF Settled
  <1>10. DigestFollows'
    <2>1. \A n \in Numbers \ {k} : subs'[n] = subs[n]
      BY DEF IInv, TypeOK
    <2> QED
      BY <1>9, <2>1 DEF IInv, DigestFollows, Key
  <1>11. TrunkTrusted'
    <2> SUFFICES ASSUME NEW t \in Trunks, Settled(t)'
                 PROVE  /\ trunk[t].st = "ip" => <<trunk[t].host, t>> \in addr' /\ trunk[t].host \in mem
                        /\ trunk[t].st = "gone" => \A h \in Hosts : <<h, t>> \notin addr'
      BY DEF TrunkTrusted
    <2>1. Settled(t) /\ t # k
      BY <1>9 DEF Key
    <2>2. <<trunk[t].host, t>> \in addr => trunk[t].host \in Hosts
      BY DEF IInv, TypeOK
    <2> QED
      BY <2>1, <2>2 DEF IInv, TrunkTrusted
  <1> QED
    BY <1>3, <1>4, <1>8, <1>10, <1>11 DEF IInv

\* A step of a projection has a request, of a shape its place gives away.
LEMMA AtFacts ==
    ASSUME IInv, NEW w \in Workers, NEW at, At(w, at), at \in Step \ {"commit"}
    PROVE  /\ Busy(w) /\ job[w].at = at /\ job[w] \in Job /\ job[w].clean \in BOOLEAN
           /\ job[w].key \in Key /\ Late(w) \in BOOLEAN
           /\ at \in {"upsert", "unsub", "unloc"} => ExtShape(job[w])
           /\ at \in {"insert", "remove"} => TrunkShape(job[w])
           /\ at = "reload" => TrunkShape(job[w])
  BY DEF IInv, TypeOK, Shape, At, ExtShape, TrunkShape, Key, Job, Late, Step, ExtOp

LEMMA AdvanceIs ==
    ASSUME TypeOK, NEW w \in Workers, NEW at, Advance(w, at)
    PROVE  job' = [job EXCEPT ![w] = [job[w] EXCEPT !.at = at, !.clean = job[w].clean]]
  <1>1. job[w] \in Job
    BY DEF TypeOK
  <1>2. [job[w] EXCEPT !.at = at] = [job[w] EXCEPT !.at = at, !.clean = job[w].clean]
    BY <1>1 DEF Job
  <1>3. job' = [job EXCEPT ![w] = [job[w] EXCEPT !.at = at]]
    BY DEF Advance
  <1> QED
    BY <1>2, <1>3

LEMMA SubscriberStep ==
    ASSUME IInv, NEW w \in Workers, SyncSubscriber(w)
    PROVE  IInv'
  <1> DEFINE bad == ~job[w].clean \/ Late(w)
  <1>1. At(w, "upsert") /\ "upsert" \in Step \ {"commit"}
    BY DEF SyncSubscriber, Step
  <1>2. /\ Busy(w) /\ job[w].at = "upsert" /\ ExtShape(job[w])
        /\ job[w].clean \in BOOLEAN /\ Late(w) \in BOOLEAN
    BY <1>1, AtFacts
  <1>3. job[w].key \in Numbers /\ job[w].arg \in Passwords
    BY <1>2 DEF ExtShape, ExtOp
  <1>4. subs' = [subs EXCEPT ![job[w].key] = [ha1 |-> job[w].arg, password |-> Empty]]
    BY DEF SyncSubscriber
  <1>5. /\ subs' \in [Numbers -> SubscriberRow \cup {NoRow}]
        /\ \A n \in Numbers \ {job[w].key} : subs'[n] = subs[n]
        /\ subs'[job[w].key].ha1 = job[w].arg
    BY <1>3, <1>4 DEF IInv, TypeOK, SubscriberRow
  <1>6. /\ job' = [job EXCEPT ![w] = Idle] /\ tainted' = [tainted EXCEPT ![job[w].key] = bad]
        /\ UNCHANGED <<ext, trunk, loc, reg, addr, mem, edits, faults>>
    BY DEF SyncSubscriber, Finish
  <1>7. bad \in BOOLEAN /\ (~bad => job[w].clean /\ ~Late(w))
    BY <1>2
  <1>8. loc' \subseteq Numbers
    BY <1>6 DEF IInv, TypeOK
  <1> HIDE DEF bad
  <1> QED
    BY <1>2, <1>5, <1>6, <1>7, <1>8, FinishStep

LEMMA RemoveSubscriberStep ==
    ASSUME IInv, NEW w \in Workers, RemoveSubscriber(w)
    PROVE  IInv'
  <1>1. At(w, "unsub") /\ "unsub" \in Step \ {"commit"}
    BY DEF RemoveSubscriber, Step
  <1>2. Busy(w) /\ job[w].at = "unsub" /\ job[w].clean \in BOOLEAN
    BY <1>1, AtFacts
  <1>3. job' = [job EXCEPT ![w] = [job[w] EXCEPT !.at = "unloc", !.clean = job[w].clean]]
    BY AdvanceIs DEF IInv, RemoveSubscriber
  <1>4. /\ subs' = [subs EXCEPT ![job[w].key] = NoRow]
        /\ UNCHANGED <<ext, trunk, loc, reg, addr, mem, tainted, edits, faults>>
    BY DEF RemoveSubscriber
  <1>5. faults' \in 0..MaxFaults /\ addr' \subseteq Hosts \X Trunks
    BY <1>4 DEF IInv, TypeOK
  <1> QED
    BY <1>2, <1>3, <1>4, <1>5, AdvanceStep

LEMMA RemoveLocationStep ==
    ASSUME IInv, NEW w \in Workers, RemoveLocation(w)
    PROVE  IInv'
  <1> DEFINE bad == ~job[w].clean \/ Late(w)
  <1>1. At(w, "unloc") /\ "unloc" \in Step \ {"commit"}
    BY DEF RemoveLocation, Step
  <1>2. Busy(w) /\ job[w].at = "unloc" /\ job[w].clean \in BOOLEAN /\ Late(w) \in BOOLEAN
    BY <1>1, AtFacts
  <1>3. /\ job' = [job EXCEPT ![w] = Idle] /\ tainted' = [tainted EXCEPT ![job[w].key] = bad]
        /\ UNCHANGED <<ext, trunk, subs, reg, addr, mem, edits, faults>>
    BY DEF RemoveLocation, Finish
  <1>4. bad \in BOOLEAN /\ (~bad => job[w].clean /\ ~Late(w))
    BY <1>2
  <1>5. subs' \in [Numbers -> SubscriberRow \cup {NoRow}] /\ loc' \subseteq Numbers
    BY <1>3 DEF IInv, TypeOK, RemoveLocation
  <1> HIDE DEF bad
  <1> QED
    BY <1>2, <1>3, <1>4, <1>5, FinishStep

LEMMA SyncAddressStep ==
    ASSUME IInv, NEW w \in Workers, SyncTrunkAddress(w)
    PROVE  IInv'
  <1> DEFINE k == job[w].key
             h == job[w].arg.host
  <1>1. At(w, "insert") /\ "insert" \in Step \ {"commit"}
    BY DEF SyncTrunkAddress, Step
  <1>2. /\ Busy(w) /\ job[w].at = "insert" /\ job[w].clean \in BOOLEAN
        /\ TrunkShape(job[w])
    BY <1>1, AtFacts
  <1>3. k \in Trunks /\ h \in Hosts
    BY <1>2 DEF TrunkShape, Columns
  <1>4. job' = [job EXCEPT ![w] = [job[w] EXCEPT !.at = "reload", !.clean = job[w].clean]]
    BY AdvanceIs DEF IInv, SyncTrunkAddress
  <1>5. /\ addr' = addr \cup {<<h, k>>}
        /\ UNCHANGED <<ext, trunk, subs, loc, reg, mem, tainted, edits, faults>>
    BY DEF SyncTrunkAddress
  <1>6. /\ faults' \in 0..MaxFaults /\ addr' \subseteq Hosts \X Trunks
        /\ <<h, k>> \in addr'
        /\ \A g \in Hosts, t \in Trunks \ {k} : <<g, t>> \in addr' <=> <<g, t>> \in addr
    BY <1>3, <1>5 DEF IInv, TypeOK
  <1> QED
    BY <1>2, <1>4, <1>5, <1>6, AdvanceStep

LEMMA RemoveAddressStep ==
    ASSUME IInv, NEW w \in Workers, RemoveTrunkAddress(w)
    PROVE  IInv'
  <1> DEFINE k == job[w].key
  <1>1. At(w, "remove") /\ "remove" \in Step \ {"commit"}
    BY DEF RemoveTrunkAddress, Step
  <1>2. Busy(w) /\ job[w].at = "remove" /\ job[w].clean \in BOOLEAN
    BY <1>1, AtFacts
  <1>3. job' = [job EXCEPT ![w] = [job[w] EXCEPT !.at = "reload", !.clean = job[w].clean]]
    BY AdvanceIs DEF IInv, RemoveTrunkAddress
  <1>4. /\ addr' = {a \in addr : a[2] # k}
        /\ UNCHANGED <<ext, trunk, subs, loc, reg, mem, tainted, edits, faults>>
    BY DEF RemoveTrunkAddress
  <1>5. /\ faults' \in 0..MaxFaults /\ addr' \subseteq Hosts \X Trunks
        /\ \A g \in Hosts : <<g, k>> \notin addr'
        /\ \A g \in Hosts, t \in Trunks \ {k} : <<g, t>> \in addr' <=> <<g, t>> \in addr
    BY <1>4 DEF IInv, TypeOK
  <1> QED
    BY <1>2, <1>3, <1>4, <1>5, AdvanceStep

LEMMA ReloadStep ==
    ASSUME IInv, NEW w \in Workers, ReloadKamailio(w)
    PROVE  IInv'
  <1> DEFINE bad == ~job[w].clean \/ Late(w)
  <1>1. At(w, "reload") /\ "reload" \in Step \ {"commit"}
    BY DEF ReloadKamailio, Step
  <1>2. Busy(w) /\ job[w].at = "reload" /\ job[w].clean \in BOOLEAN /\ Late(w) \in BOOLEAN
    BY <1>1, AtFacts
  <1>3. /\ job' = [job EXCEPT ![w] = Idle] /\ tainted' = [tainted EXCEPT ![job[w].key] = bad]
        /\ mem' = Listed
        /\ UNCHANGED <<ext, trunk, subs, loc, reg, addr, edits, faults>>
    BY DEF ReloadKamailio, Finish
  <1>4. bad \in BOOLEAN /\ (~bad => job[w].clean /\ ~Late(w))
    BY <1>2
  <1>5. subs' \in [Numbers -> SubscriberRow \cup {NoRow}] /\ loc' \subseteq Numbers
    BY <1>3 DEF IInv, TypeOK
  <1> HIDE DEF bad
  <1> QED
    BY <1>2, <1>3, <1>4, <1>5, FinishStep

-----------------------------------------------------------------------------
(* Failures. *)

LEMMA FaultType ==
    ASSUME TypeOK, Fault
    PROVE  faults' \in 0..MaxFaults
  BY Bounds DEF TypeOK, Fault

\* A request that is given up leaves its key to nobody.
LEMMA GivenUp ==
    ASSUME IInv, faults' \in 0..MaxFaults, NEW W \in SUBSET Workers,
           job' = [v \in Workers |-> IF v \in W THEN Idle ELSE job[v]],
           tainted' \in [Key -> BOOLEAN],
           \A k \in Key : tainted[k] => tainted'[k] \/ \E v \in Workers \ W : Projecting(v, k),
           \A k \in Key, w \in W : Projecting(w, k) => tainted'[k],
           UNCHANGED <<ext, trunk, subs, loc, reg, addr, mem, edits>>
    PROVE  IInv'
  <1>1. \A v \in Workers : /\ v \in W => job'[v] = Idle /\ ~Busy(v)'
                           /\ v \notin W => job'[v] = job[v] /\ Busy(v)' = Busy(v)
    BY IdleJob DEF Busy
  <1>2. TypeOK'
    <2>1. job' \in [Workers -> Job]
      BY IdleJob DEF IInv, TypeOK
    <2> QED
      BY <1>1, <2>1 DEF IInv, TypeOK
  <1>3. Shape'
    BY <1>1 DEF IInv, Shape, ExtShape, TrunkShape
  <1>4. \A v \in Workers, k \in Key :
          Projecting(v, k)' <=> v \notin W /\ Projecting(v, k)
    BY <1>1 DEF Projecting
  <1>5. Faithful'
    <2> SUFFICES ASSUME NEW v \in Workers, Clean(v)'
                 PROVE  (Alone(v) /\ CarriesExt(v) /\ CarriesTrunk(v))'
      BY DEF Faithful
    <2>1. job'[v] = job[v] /\ Clean(v)
      BY <1>1 DEF Clean
    <2>2. job[v].key \in Key /\ Alone(v) /\ CarriesExt(v) /\ CarriesTrunk(v)
      BY <2>1 DEF IInv, Shape, Faithful, Clean, ExtShape, TrunkShape, Key
    <2>3. Alone(v)'
      BY <1>4, <2>1, <2>2 DEF Alone
    <2> QED
      BY <2>1, <2>2, <2>3 DEF CarriesExt, CarriesTrunk
  <1>6. \A k \in Key : Settled(k)' => Settled(k)
    BY <1>4 DEF Settled
  <1>7. DigestFollows' /\ TrunkTrusted'
    BY <1>6 DEF IInv, DigestFollows, TrunkTrusted, Key
  <1> QED
    BY <1>2, <1>3, <1>5, <1>7 DEF IInv

LEMMA QueryFailsStep ==
    ASSUME IInv, NEW w \in Workers, QueryFails(w)
    PROVE  IInv'
  <1> DEFINE k == job[w].key
  <1>1. /\ Busy(w) /\ job[w].at \in Step \ {"commit"} /\ faults' \in 0..MaxFaults
        /\ UNCHANGED <<ext, trunk, subs, loc, reg, addr, mem, edits>>
    BY FaultType DEF IInv, QueryFails
  <1>2. k \in Key /\ job[w] \in Job
    BY <1>1 DEF IInv, TypeOK, Shape, ExtShape, TrunkShape, Key
  <1>3. CASE /\ job[w].at \in {"insert", "remove"}
    <2>1. job' = [job EXCEPT ![w] = [job[w] EXCEPT !.at = "reload", !.clean = FALSE]]
      BY <1>2, <1>3 DEF QueryFails, IInv, TypeOK
    <2>2. tainted' = tainted /\ addr' \subseteq Hosts \X Trunks
      BY <1>1, <1>3 DEF QueryFails, IInv, TypeOK
    <2> QED
      BY <1>1, <1>3, <2>1, <2>2, AdvanceStep
  <1>4. CASE job[w].at \notin {"insert", "remove"}
    <2>1. job' = [job EXCEPT ![w] = Idle] /\ tainted' = [tainted EXCEPT ![k] = TRUE]
      BY <1>4 DEF QueryFails
    <2>2. PICK W \in SUBSET Workers : W = {w}
      OBVIOUS
    <2>3. job' = [v \in Workers |-> IF v \in W THEN Idle ELSE job[v]]
      BY <2>2, <2>1 DEF IInv, TypeOK
    <2>4. tainted' \in [Key -> BOOLEAN] /\ \A q \in Key : tainted[q] => tainted'[q]
      BY <1>2, <2>1 DEF IInv, TypeOK
    <2>5. \A q \in Key, v \in W : Projecting(v, q) => tainted'[q]
      BY <1>2, <2>1, <2>2 DEF IInv, TypeOK, Projecting
    <2> QED
      BY <1>1, <2>3, <2>4, <2>5, GivenUp
  <1> QED
    BY <1>3, <1>4

LEMMA CrashStep ==
    ASSUME IInv, Crash
    PROVE  IInv'
  <1>1. /\ faults' \in 0..MaxFaults
        /\ tainted' = [k \in Key |-> tainted[k] \/ \E w \in Workers : Projecting(w, k)]
        /\ UNCHANGED <<ext, trunk, subs, loc, reg, addr, mem, edits>>
    BY FaultType DEF IInv, Crash
  <1>2. job' = [v \in Workers |-> IF v \in Workers THEN Idle ELSE job[v]]
    BY DEF Crash
  <1>3. /\ tainted' \in [Key -> BOOLEAN]
        /\ \A q \in Key : tainted[q] => tainted'[q]
        /\ \A q \in Key, w \in Workers : Projecting(w, q) => tainted'[q]
    BY <1>1 DEF IInv, TypeOK, Projecting
  <1> QED
    BY <1>1, <1>2, <1>3, GivenUp

-----------------------------------------------------------------------------
(* Kamailio. *)

\* What Kamailio does with its registrations touches no table of the API.
LEMMA RegistrarStep ==
    ASSUME IInv, reg' \in [Numbers -> {"none", "new", "saved"}], loc' \subseteq Numbers,
           mem' = mem \/ mem' = Listed, faults' \in 0..MaxFaults,
           UNCHANGED <<ext, trunk, subs, addr, job, tainted, edits>>
    PROVE  IInv'
  <1>1. \A h, q : <<h, q>> \in addr => h \in Listed
    <2> SUFFICES ASSUME NEW h, NEW q, <<h, q>> \in addr PROVE h \in Listed
      OBVIOUS
    <2> QED
      BY DEF Listed
  <1>2. mem' \subseteq Hosts
    BY DEF IInv, TypeOK, Listed
  <1>3. TypeOK'
    BY <1>2 DEF IInv, TypeOK, Busy
  <1>4. Shape' /\ Faithful'
    BY DEF IInv, Shape, ExtShape, TrunkShape, Busy, Faithful, Clean, Alone, Projecting,
           CarriesExt, CarriesTrunk
  <1>5. \A k \in Key : Settled(k)' = Settled(k)
    BY DEF Settled, Projecting, Busy
  <1>6. DigestFollows'
    BY <1>5 DEF IInv, DigestFollows, Key
  <1>7. TrunkTrusted'
    BY <1>1, <1>5 DEF IInv, TrunkTrusted, Key
  <1> QED
    BY <1>3, <1>4, <1>6, <1>7 DEF IInv

LEMMA KamailioStep ==
    ASSUME IInv, Kamailio \/ KamailioRestart
    PROVE  IInv'
  <1>1. /\ reg' \in [Numbers -> {"none", "new", "saved"}] /\ loc' \subseteq Numbers
        /\ mem' = mem \/ mem' = Listed
        /\ UNCHANGED <<ext, trunk, subs, addr, job, tainted, edits>>
    BY DEF IInv, TypeOK, Kamailio, Register, WriteBack, Expire, KamailioRestart
  <1>2. faults' \in 0..MaxFaults
    BY FaultType DEF IInv, TypeOK, Kamailio, Register, WriteBack, Expire, KamailioRestart
  <1> QED
    BY <1>1, <1>2, RegistrarStep

-----------------------------------------------------------------------------
LEMMA InitIInv == Init => IInv
  <1> SUFFICES ASSUME Init PROVE IInv
    OBVIOUS
  <1>1. \A w \in Workers : job[w] = Idle /\ ~Busy(w)
    BY IdleJob DEF Init, Busy
  <1>2. job \in [Workers -> Job]
    BY IdleJob DEF Init
  <1>3. TypeOK
    BY <1>1, <1>2, Bounds DEF Init, TypeOK, TrunkRow
  <1>4. Shape /\ Faithful
    BY <1>1 DEF Shape, Faithful, Clean
  <1>5. DigestFollows /\ TrunkTrusted
    BY DEF Init, DigestFollows, TrunkTrusted, NoRow
  <1> QED
    BY <1>3, <1>4, <1>5 DEF IInv

LEMMA NextIInv == IInv /\ [Next]_vars => IInv'
  <1> SUFFICES ASSUME IInv, [Next]_vars PROVE IInv'
    OBVIOUS
  <1>1. ASSUME NEW w \in Workers, Request(w) PROVE IInv'
    BY <1>1, RequestStep
  <1>2. ASSUME NEW w \in Workers, Work(w) PROVE IInv'
    BY <1>2, ExtCommits, EnabledCommit, TrunkCommit, SubscriberStep, RemoveSubscriberStep,
       RemoveLocationStep, SyncAddressStep, RemoveAddressStep, ReloadStep DEF Work
  <1>3. ASSUME NEW w \in Workers, QueryFails(w) PROVE IInv'
    BY <1>3, QueryFailsStep
  <1>4. CASE Crash
    BY <1>4, CrashStep
  <1>5. CASE Kamailio \/ KamailioRestart
    BY <1>5, KamailioStep
  <1>6. CASE UNCHANGED vars
    BY <1>6 DEF vars, IInv, TypeOK, Shape, ExtShape, TrunkShape, Faithful, Clean, Alone,
         CarriesExt, CarriesTrunk, DigestFollows, TrunkTrusted, Settled, Projecting, Busy
  <1> QED
    BY <1>1, <1>2, <1>3, <1>4, <1>5, <1>6 DEF Next

LEMMA Inductive == Spec => []IInv
  BY InitIInv, NextIInv, PTL DEF Spec

\* Every variable keeps to its type, and no handler leaves half a request.
THEOREM TypeCorrect == Spec => []TypeOK
  <1>1. IInv => TypeOK
    BY DEF IInv
  <1> QED
    BY <1>1, Inductive, PTL

\* syncSubscriber and removeSubscriber: the digests in Kamailio's table are those of the
\* extension's password, and there are none without an extension, once nothing of the
\* number is under way and nothing of it failed or overlapped.
THEOREM DigestsFollow == Spec => []DigestFollows
  <1>1. IInv => DigestFollows
    BY DEF IInv
  <1> QED
    BY <1>1, Inductive, PTL

\* The same of a carrier's address, in the table and in Kamailio's memory.
THEOREM TrunksTrusted == Spec => []TrunkTrusted
  <1>1. IInv => TrunkTrusted
    BY DEF IInv
  <1> QED
    BY <1>1, Inductive, PTL

-----------------------------------------------------------------------------
(* Registrations. *)

\* A row of the location table stands for a contact that Kamailio has in memory and
\* has written there: neither removeSubscriber, which deletes the row under Kamailio's
\* feet, nor an expiry or a restart leaves a row without its contact.
LocationBacked == \A n \in loc : reg[n] = "saved"

LEMMA RegistrarOnly ==
    ASSUME [Next]_vars, ~Kamailio, ~KamailioRestart
    PROVE  reg' = reg /\ loc' \subseteq loc
  <1>1. ASSUME NEW w \in Workers, Request(w) PROVE UNCHANGED <<reg, loc>>
    BY <1>1 DEF Request, CreateExt, SetPassword, EnableExt, DisableExt, DeleteExt, CreateTrunk, PatchTrunk,
         DeleteTrunk, Begin
  <1>2. ASSUME NEW w \in Workers, Work(w) PROVE reg' = reg /\ loc' \subseteq loc
    BY <1>2 DEF Work, CommitCreate, CommitPassword, CommitEnabled, CommitDelete, CommitTrunk,
         SyncSubscriber, RemoveSubscriber, RemoveLocation, SyncTrunkAddress,
         RemoveTrunkAddress, ReloadKamailio
  <1>3. ASSUME NEW w \in Workers, QueryFails(w) PROVE UNCHANGED <<reg, loc>>
    BY <1>3 DEF QueryFails
  <1>4. CASE Crash
    BY <1>4 DEF Crash
  <1>5. CASE UNCHANGED vars
    BY <1>5 DEF vars
  <1> QED
    BY <1>1, <1>2, <1>3, <1>4, <1>5 DEF Next

LEMMA LocationStep == TypeOK /\ LocationBacked /\ [Next]_vars => LocationBacked'
  <1> SUFFICES ASSUME TypeOK, LocationBacked, [Next]_vars PROVE LocationBacked'
    OBVIOUS
  <1>1. CASE Kamailio
    BY <1>1 DEF Kamailio, Register, WriteBack, Expire, LocationBacked, TypeOK
  <1>2. CASE KamailioRestart
    BY <1>2 DEF KamailioRestart, LocationBacked, TypeOK
  <1>3. CASE ~Kamailio /\ ~KamailioRestart
    BY <1>3, RegistrarOnly DEF LocationBacked
  <1> QED
    BY <1>1, <1>2, <1>3

\* usrloc, db_mode 2, and removeSubscriber: for any number of requests, faults and
\* restarts, no row of the location table outlives its contact.
THEOREM LocationsAreBacked == Spec => []LocationBacked
  <1>1. Init => LocationBacked
    BY DEF Init, LocationBacked
  <1> QED
    BY <1>1, LocationStep, TypeCorrect, PTL DEF Spec

\* How far a registration is from being forgotten.
Rank(r) == IF r = "none" THEN 0 ELSE IF r = "saved" THEN 1 ELSE 2

\* With no extension of the number, and no request of it under way or failed, every
\* step of the API, of usrloc's write-back and of a Kamailio restart only brings the
\* number's registration closer to being forgotten; once it is, it does not come back.
RegistrationsFade ==
    [][\A n \in Numbers :
          Settled(n) /\ ext[n].pw = None =>
             /\ Rank(reg'[n]) <= Rank(reg[n])
             /\ reg[n] = "none" => n \notin loc /\ n \notin loc']_vars

\* extensions.ts, DELETE: of a number that was deleted undisturbed, a registration only
\* runs out, and its row with it.
THEOREM RegistrationsOnlyFade == Spec => RegistrationsFade
  <1> DEFINE Fades ==
        \A n \in Numbers :
           Settled(n) /\ ext[n].pw = None =>
              /\ Rank(reg'[n]) <= Rank(reg[n])
              /\ reg[n] = "none" => n \notin loc /\ n \notin loc'
  <1>1. IInv /\ LocationBacked /\ [Next]_vars => Fades
    <2> SUFFICES ASSUME IInv, LocationBacked, [Next]_vars, NEW n \in Numbers,
                        Settled(n), ext[n].pw = None
                 PROVE  /\ Rank(reg'[n]) <= Rank(reg[n])
                        /\ reg[n] = "none" => n \notin loc /\ n \notin loc'
      OBVIOUS
    <2>1. /\ \A p \in Passwords : ~Accepts(n, p)
          /\ n \in loc => reg[n] = "saved"
          /\ reg \in [Numbers -> {"none", "new", "saved"}]
      BY NoneApart DEF IInv, DigestFollows, LocationBacked, TypeOK, Accepts, SubscriberRow, NoRow
    <2>2. CASE Kamailio
      <3>1. PICK m \in Numbers : (\E p \in Passwords : Register(m, p)) \/ WriteBack(m) \/ Expire(m)
        BY <2>2 DEF Kamailio
      <3>2. CASE m = n
        BY <2>1, <3>1, <3>2 DEF Register, WriteBack, Expire, Rank
      <3>3. CASE m # n
        BY <2>1, <3>1, <3>3 DEF Register, WriteBack, Expire, Rank
      <3> QED
        BY <3>2, <3>3
    <2>3. CASE KamailioRestart
      BY <2>1, <2>3 DEF KamailioRestart, Rank
    <2>4. CASE ~Kamailio /\ ~KamailioRestart
      BY <2>1, <2>4, RegistrarOnly DEF Rank
    <2> QED
      BY <2>2, <2>3, <2>4
  <1> HIDE DEF Fades
  <1>2. IInv /\ LocationBacked /\ [Next]_vars => [Fades]_vars
    BY <1>1
  <1>3. Spec => [][Fades]_vars
    BY <1>2, Inductive, LocationsAreBacked, PTL DEF Spec
  <1> QED
    BY <1>3 DEF RegistrationsFade, Fades

=============================================================================
