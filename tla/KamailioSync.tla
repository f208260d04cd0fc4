---------------------------- MODULE KamailioSync ----------------------------
(***************************************************************************)
(* The projection of one tenant's extensions and trunks into Kamailio's    *)
(* database: portal/api/src/services/kamailio-sync.ts, and the routes that *)
(* call it in routes/extensions.ts and routes/telephony.ts.                *)
(*                                                                         *)
(* A request reads, commits its row in Postgres, and then runs one query   *)
(* after the other against Kamailio's database.  Each of these awaits lets *)
(* other requests run.  A query of the projection that fails is logged and *)
(* forgotten, and nothing ever projects a row again by itself.             *)
(*                                                                         *)
(* Kamailio reads subscriber on every REGISTER, and there the column       *)
(* password, not the digests the API writes; it keeps registrations in     *)
(* memory (usrloc, db_mode 2, which writes location behind) and the        *)
(* address table as well (permissions, db_mode 1).                         *)
(***************************************************************************)
EXTENDS Integers

CONSTANTS
    Numbers,    \* extension numbers
    Passwords,  \* SIP passwords
    Empty,      \* the empty one among them, ''
    Trunks,     \* trunk ids, fresh for every trunk created
    Hosts,      \* carrier addresses
    Workers,    \* requests the API can have in flight
    None,       \* no password, no row
    MaxEdits,   \* bound of a behaviour: requests by administrators
    MaxFaults   \* bound of a behaviour: failed queries, crashes, restarts

Key == Numbers \cup Trunks

ASSUME KeysDisjoint == Numbers \cap Trunks = {}
ASSUME EmptyPassword == Empty \in Passwords
ASSUME NoneApart == None \notin Passwords /\ None \notin Hosts
ASSUME Bounds == MaxEdits \in Nat /\ MaxFaults \in Nat

VARIABLES
    ext,      \* extension rows by number: id, enabled, and password or None if there is no row
    trunk,    \* trunk rows by id: how the carrier authenticates, and its host
    subs,     \* Kamailio's subscriber table: the column password, and what HA1 is a digest of
    loc,      \* Kamailio's location table: numbers with a row
    reg,      \* registrations in Kamailio's memory
    addr,     \* Kamailio's address table: host and tag
    mem,      \* the hosts permissions holds in memory
    job,      \* what each request has still to do
    tainted,  \* history: the code promises nothing of this key's projection
    edits, faults

vars == <<ext, trunk, subs, loc, reg, addr, mem, job, tainted, edits, faults>>

-----------------------------------------------------------------------------
(* Requests. *)

ExtOp == {"createExt", "setPassword", "enableExt", "disableExt", "deleteExt"}
TrunkOp == {"createTrunk", "patchTrunk", "deleteTrunk"}

\* The awaits of a request after its first read, in the order of the code.
Step == {"commit", "upsert", "unsub", "unloc", "insert", "remove", "reload"}

\* id: the extension row a PATCH or DELETE has read; arg: the password, or the
\* columns of the trunk; clean: no other request on the key came in between.
Idle == [op |-> "idle", key |-> None, id |-> 0, arg |-> None, at |-> "idle", clean |-> TRUE]
Busy(w) == job[w].op # "idle"

\* A request that has committed, and whose projection is still under way.
Projecting(w, k) == Busy(w) /\ job[w].key = k /\ job[w].at # "commit"

\* A row of subscriber, and what its columns hold if there is none.
NoRow == [ha1 |-> None, password |-> None]
SubscriberRow == [ha1 : Passwords, password : {Empty}]

TrunkRow == [st : {"unborn", "ip", "register", "gone"}, host : Hosts \cup {None}]
Columns == [st : {"ip", "register"}, host : Hosts]

Job == [op : ExtOp \cup TrunkOp \cup {"idle"}, key : Key \cup {None}, id : 0..MaxEdits,
        arg : Passwords \cup Columns \cup {None}, at : Step \cup {"idle"}, clean : BOOLEAN]

Init ==
    /\ ext = [n \in Numbers |-> [id |-> 0, on |-> TRUE, pw |-> None]]
    /\ trunk = [t \in Trunks |-> [st |-> "unborn", host |-> None]]
    /\ subs = [n \in Numbers |-> NoRow]
    /\ loc = {}
    /\ reg = [n \in Numbers |-> "none"]
    /\ addr = {}
    /\ mem = {}
    /\ job = [w \in Workers |-> Idle]
    /\ tainted = [k \in Key |-> FALSE]
    /\ edits = 0 /\ faults = 0

Begin(w, op, k, id, arg) ==
    /\ ~Busy(w) /\ edits < MaxEdits
    /\ edits' = edits + 1
    /\ job' = [job EXCEPT ![w] = [op |-> op, key |-> k, id |-> id, arg |-> arg,
                                  at |-> "commit", clean |-> TRUE]]
    /\ UNCHANGED <<ext, trunk, subs, loc, reg, addr, mem, tainted, faults>>

\* POST of an extension answers 409 if the number is taken when it looks.
CreateExt(w, n, p) == ext[n].pw = None /\ Begin(w, "createExt", n, edits + 1, p)

\* PATCH and DELETE name a row, and answer 404 if they do not find it.
SetPassword(w, n, p) == ext[n].pw # None /\ Begin(w, "setPassword", n, ext[n].id, p)
EnableExt(w, n) == ext[n].pw # None /\ Begin(w, "enableExt", n, ext[n].id, None)
DisableExt(w, n) == ext[n].pw # None /\ Begin(w, "disableExt", n, ext[n].id, None)
DeleteExt(w, n) == ext[n].pw # None /\ Begin(w, "deleteExt", n, ext[n].id, None)

CreateTrunk(w, t, c) ==
    /\ trunk[t].st = "unborn"
    /\ \A v \in Workers : job[v].key # t
    /\ Begin(w, "createTrunk", t, 0, c)

PatchTrunk(w, t, c) == trunk[t].st \in {"ip", "register"} /\ Begin(w, "patchTrunk", t, 0, c)
DeleteTrunk(w, t) == trunk[t].st \in {"ip", "register"} /\ Begin(w, "deleteTrunk", t, 0, None)

-----------------------------------------------------------------------------
(* The commit, and what it makes of the projection's history. *)

\* w goes on with its projection.  Two projections of one key that overlap
\* may reach Kamailio in either order: neither is clean any more.
Proceed(w, at) ==
    LET k == job[w].key
        others == {v \in Workers \ {w} : Projecting(v, k)}
    IN job' = [v \in Workers |->
                 IF v = w THEN [job[w] EXCEPT !.at = at, !.clean = others = {}]
                 ELSE [job[v] EXCEPT !.clean = job[v].clean /\ v \notin others]]

\* Mutant: an aborted create leaves its request behind.
LeaveBusy(w) == job' = [job EXCEPT ![w].op = "idle"]

\* The request is answered, with no projection.
Leave(w) == job' = [job EXCEPT ![w] = Idle]

\* The unique index on (organization, number) stops the second of two creates.
CommitCreate(w) ==
    LET j == job[w] IN
    /\ j.op = "createExt" /\ j.at = "commit"
    /\ IF ext[j.key].pw = None
       THEN ext' = [ext EXCEPT ![j.key] = [id |-> j.id, on |-> TRUE, pw |-> j.arg]] /\ Proceed(w, "upsert")
       ELSE Leave(w) /\ UNCHANGED ext
    /\ UNCHANGED <<trunk, subs, loc, reg, addr, mem, tainted, edits, faults>>

\* The row a PATCH or DELETE has read is still there.
Found(w) == ext[job[w].key].pw # None /\ ext[job[w].key].id = job[w].id

\* Mutant: the handler answers before the registrar has the new password.
CommitPasswordUnsynced(w) ==
    LET j == job[w] IN
    /\ j.op = "setPassword" /\ j.at = "commit"
    /\ IF Found(w)
       THEN ext' = [ext EXCEPT ![j.key].pw = j.arg] ELSE UNCHANGED ext
    /\ Leave(w)
    /\ UNCHANGED <<trunk, subs, loc, reg, addr, mem, tainted, edits, faults>>

\* An UPDATE that matches no row ends the request.
CommitPassword(w) ==
    LET j == job[w] IN
    /\ j.op = "setPassword" /\ j.at = "commit"
    /\ IF Found(w)
       THEN ext' = [ext EXCEPT ![j.key].pw = j.arg] /\ Proceed(w, "upsert")
       ELSE Leave(w) /\ UNCHANGED ext
    /\ UNCHANGED <<trunk, subs, loc, reg, addr, mem, tainted, edits, faults>>

\* A PATCH of the other columns, enabled among them, projects nothing: the row of a
\* disabled extension stays in subscriber.
CommitEnabled(w) ==
    LET j == job[w] IN
    /\ j.op \in {"enableExt", "disableExt"} /\ j.at = "commit"
    /\ ext' = IF Found(w) THEN [ext EXCEPT ![j.key].on = j.op = "enableExt"] ELSE ext
    /\ Leave(w)
    /\ UNCHANGED <<trunk, subs, loc, reg, addr, mem, tainted, edits, faults>>

\* A DELETE that matches no row goes on all the same: what it removes next is
\* the credential of whatever extension has the number by now.
CommitDelete(w) ==
    LET j == job[w] IN
    /\ j.op = "deleteExt" /\ j.at = "commit"
    /\ ext' = IF Found(w) THEN [ext EXCEPT ![j.key].pw = None] ELSE ext
    /\ Proceed(w, "unsub")
    /\ UNCHANGED <<trunk, subs, loc, reg, addr, mem, tainted, edits, faults>>

\* afterChange of the trunk routes runs on the row the statement returned: an
\* address is inserted for a carrier known by its address, none is taken back.
\* As with extensions, an UPDATE that finds no row ends the request and a
\* DELETE goes on.
CommitTrunk(w) ==
    LET j == job[w]
        next == IF j.op = "deleteTrunk" THEN "remove"
                ELSE IF j.arg.st = "ip" THEN "insert" ELSE "reload"
    IN
    /\ j.op \in TrunkOp /\ j.at = "commit"
    /\ \/ /\ j.op = "deleteTrunk"
          /\ trunk' = [trunk EXCEPT ![j.key].st = "gone"]
          /\ Proceed(w, next)
       \/ /\ j.op # "deleteTrunk" /\ trunk[j.key].st # "gone"
          /\ trunk' = [trunk EXCEPT ![j.key] = j.arg]
          /\ Proceed(w, next)
       \/ /\ j.op # "deleteTrunk" /\ trunk[j.key].st = "gone"
          /\ Leave(w) /\ UNCHANGED trunk
    /\ UNCHANGED <<ext, subs, loc, reg, addr, mem, tainted, edits, faults>>

-----------------------------------------------------------------------------
(* The projection, query by query. *)

At(w, at) == Busy(w) /\ job[w].at = at

Advance(w, at) == job' = [job EXCEPT ![w].at = at]

\* A DELETE that came too late has taken the credential of a new extension.
Late(w) == job[w].op = "deleteExt" /\ ext[job[w].key].pw # None

\* The request is answered; its key is as good as its projection was clean.
Finish(w) ==
    /\ job' = [job EXCEPT ![w] = Idle]
    /\ tainted' = [tainted EXCEPT ![job[w].key] = ~job[w].clean \/ Late(w)]

\* syncSubscriber: the number of the row, the digests of the password of the request's
\* body, and '' in the column password.
SyncSubscriber(w) ==
    /\ At(w, "upsert")
    /\ subs' = [subs EXCEPT ![job[w].key] = [ha1 |-> job[w].arg, password |-> Empty]]
    /\ Finish(w)
    /\ UNCHANGED <<ext, trunk, loc, reg, addr, mem, edits, faults>>

\* Mutant: only the location row is removed.
RemoveSubscriberNot(w) ==
    /\ At(w, "unsub")
    /\ Advance(w, "unloc")
    /\ UNCHANGED <<ext, trunk, subs, loc, reg, addr, mem, tainted, edits, faults>>

\* removeSubscriber: two queries in one try block.
RemoveSubscriber(w) ==
    /\ At(w, "unsub")
    /\ subs' = [subs EXCEPT ![job[w].key] = NoRow]
    /\ Advance(w, "unloc")
    /\ UNCHANGED <<ext, trunk, loc, reg, addr, mem, tainted, edits, faults>>

RemoveLocation(w) ==
    /\ At(w, "unloc")
    /\ loc' = loc \ {job[w].key}
    /\ Finish(w)
    /\ UNCHANGED <<ext, trunk, subs, reg, addr, mem, edits, faults>>

\* The hosts of the address table.
Listed == {a[1] : a \in addr}

\* Mutant: Kamailio is told to reload before the address is inserted.
SyncTrunkAddressLast(w) ==
    /\ At(w, "insert")
    /\ addr' = addr \cup {<<job[w].arg.host, job[w].key>>}
    /\ mem' = Listed
    /\ Finish(w)
    /\ UNCHANGED <<ext, trunk, subs, loc, reg, edits, faults>>

\* syncTrunkAddress only ever adds: ON CONFLICT DO NOTHING.
SyncTrunkAddress(w) ==
    /\ At(w, "insert")
    /\ addr' = addr \cup {<<job[w].arg.host, job[w].key>>}
    /\ Advance(w, "reload")
    /\ UNCHANGED <<ext, trunk, subs, loc, reg, mem, tainted, edits, faults>>

RemoveTrunkAddress(w) ==
    /\ At(w, "remove")
    /\ addr' = {a \in addr : a[2] # job[w].key}
    /\ Advance(w, "reload")
    /\ UNCHANGED <<ext, trunk, subs, loc, reg, mem, tainted, edits, faults>>

ReloadKamailio(w) ==
    /\ At(w, "reload")
    /\ mem' = Listed
    /\ Finish(w)
    /\ UNCHANGED <<ext, trunk, subs, loc, reg, addr, edits, faults>>

-----------------------------------------------------------------------------
(* Failures. *)

Fault == faults < MaxFaults /\ faults' = faults + 1

\* A query of the projection fails: the function returns false, and nobody
\* looks.  Of removeSubscriber the second query is skipped with the first; a
\* trunk goes on to its reload.
QueryFails(w) ==
    /\ Fault
    /\ Busy(w) /\ job[w].at \in Step \ {"commit"}
    /\ IF job[w].at \in {"insert", "remove"}
       THEN /\ job' = [job EXCEPT ![w].at = "reload", ![w].clean = FALSE]
            /\ UNCHANGED tainted
       ELSE /\ job' = [job EXCEPT ![w] = Idle]
            /\ tainted' = [tainted EXCEPT ![job[w].key] = TRUE]
    /\ UNCHANGED <<ext, trunk, subs, loc, reg, addr, mem, edits>>

\* The API dies: what its requests have committed stays, the rest is gone.
Crash ==
    /\ Fault
    /\ \E w \in Workers : Busy(w)
    /\ tainted' = [k \in Key |-> tainted[k] \/ \E w \in Workers : Projecting(w, k)]
    /\ job' = [w \in Workers |-> Idle]
    /\ UNCHANGED <<ext, trunk, subs, loc, reg, addr, mem, edits>>

-----------------------------------------------------------------------------
(* Kamailio. *)

\* auth_db: with calculate_ha1=yes it takes the password_column for a plain password,
\* computes the HA1 itself, and leaves the columns with the digests alone.
Accepts(n, p) == subs[n].password = p

\* A phone registers with a password that Kamailio accepts for its number.
Register(n, p) ==
    /\ Accepts(n, p) /\ reg[n] = "none"
    /\ reg' = [reg EXCEPT ![n] = "new"]
    /\ UNCHANGED <<ext, trunk, subs, loc, addr, mem, job, tainted, edits, faults>>

\* usrloc writes a new contact to the location table some time later.
WriteBack(n) ==
    /\ reg[n] = "new"
    /\ reg' = [reg EXCEPT ![n] = "saved"]
    /\ loc' = loc \cup {n}
    /\ UNCHANGED <<ext, trunk, subs, addr, mem, job, tainted, edits, faults>>

\* A contact that is not refreshed expires, in memory and in the table.
Expire(n) ==
    /\ reg[n] # "none"
    /\ reg' = [reg EXCEPT ![n] = "none"]
    /\ loc' = loc \ {n}
    /\ UNCHANGED <<ext, trunk, subs, addr, mem, job, tainted, edits, faults>>

\* A restart reads contacts and addresses from the tables.
KamailioRestart ==
    /\ Fault
    /\ reg' = [n \in Numbers |-> IF n \in loc THEN "saved" ELSE "none"]
    /\ mem' = Listed
    /\ UNCHANGED <<ext, trunk, subs, loc, addr, job, tainted, edits>>

-----------------------------------------------------------------------------
Request(w) ==
    \/ \E n \in Numbers, p \in Passwords : CreateExt(w, n, p) \/ SetPassword(w, n, p)
    \/ \E n \in Numbers : EnableExt(w, n) \/ DisableExt(w, n) \/ DeleteExt(w, n)
    \/ \E t \in Trunks, c \in Columns : CreateTrunk(w, t, c) \/ PatchTrunk(w, t, c)
    \/ \E t \in Trunks : DeleteTrunk(w, t)

Work(w) ==
    \/ CommitCreate(w) \/ CommitPassword(w) \/ CommitEnabled(w) \/ CommitDelete(w)
    \/ CommitTrunk(w)
    \/ SyncSubscriber(w) \/ RemoveSubscriber(w) \/ RemoveLocation(w)
    \/ SyncTrunkAddress(w) \/ RemoveTrunkAddress(w) \/ ReloadKamailio(w)

Kamailio ==
    \E n \in Numbers : (\E p \in Passwords : Register(n, p)) \/ WriteBack(n) \/ Expire(n)

Next ==
    \/ \E w \in Workers : Request(w) \/ Work(w) \/ QueryFails(w)
    \/ Crash
    \/ Kamailio
    \/ KamailioRestart

Spec == Init /\ [][Next]_vars

\* Every query is answered, and registrations that are not refreshed expire.
Fairness ==
    /\ \A w \in Workers : WF_vars(Work(w))
    /\ \A n \in Numbers : WF_vars(Expire(n))

FairSpec == Spec /\ Fairness

-----------------------------------------------------------------------------
(* Properties. *)

\* The variables hold values of their types, and a request that is idle holds
\* nothing: no path through a handler leaves a half-filled request behind.
TypeOK ==
    /\ ext \in [Numbers -> [id : 0..MaxEdits, on : BOOLEAN, pw : Passwords \cup {None}]]
    /\ trunk \in [Trunks -> TrunkRow]
    /\ subs \in [Numbers -> SubscriberRow \cup {NoRow}]
    /\ loc \subseteq Numbers
    /\ reg \in [Numbers -> {"none", "new", "saved"}]
    /\ addr \subseteq Hosts \X Trunks
    /\ mem \subseteq Hosts
    /\ job \in [Workers -> Job]
    /\ \A w \in Workers : Busy(w) \/ job[w] = Idle
    /\ tainted \in [Key -> BOOLEAN]
    /\ edits \in 0..MaxEdits /\ faults \in 0..MaxFaults

Settled(k) == ~tainted[k] /\ \A w \in Workers : ~Projecting(w, k)

\* The digests in the subscriber table are those of the extension's password, and
\* there is no row for a number without extension, whenever no projection of the
\* number is under way and the last one neither failed nor overlapped another.
\* Reads, commits and projections of other requests interleave with it freely.
\* This speaks of what syncSubscriber and removeSubscriber write, enabled or not;
\* what Kamailio accepts is SubscriberAuthenticates below.
DigestFollows == \A n \in Numbers : Settled(n) => subs[n].ha1 = ext[n].pw

\* kamailio-sync.ts:36: "Writes a subscriber Kamailio can authenticate."  A phone that
\* has its extension's password registers, once the extension's projection settled.
SubscriberAuthenticates == \A n \in Numbers :
    Settled(n) /\ ext[n].pw # None => Accepts(n, ext[n].pw)

\* A carrier known by its address is in the address table and in Kamailio's
\* memory, and a deleted trunk has no address left, once its requests settle;
\* reloads for other trunks, in whatever order, do not undo it.
TrunkTrusted == \A t \in Trunks : Settled(t) =>
    /\ trunk[t].st = "ip" => <<trunk[t].host, t>> \in addr /\ trunk[t].host \in mem
    /\ trunk[t].st = "gone" => \A h \in Hosts : <<h, t>> \notin addr

\* A deleted extension that is not created again ends up without registration,
\* in memory and in the location table, and stays so: the location row that is
\* deleted with it may be written once more from memory, and a restart may read
\* it back, but with the subscriber row gone nothing renews it.
DeletedIsForgotten == \A n \in Numbers :
    <>[](ext[n].pw = None /\ Settled(n)) => <>[](reg[n] = "none" /\ n \notin loc)
=============================================================================
