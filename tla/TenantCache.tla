---------------------------- MODULE TenantCache ----------------------------
(***************************************************************************)
(* The Redis write-through cache of one tenant: portal/api/src/services/   *)
(* cache.ts and redis.ts, the cache watchdog of portal/api/src/index.ts,   *)
(* and the tests resources/lua/xml_handler.lua makes before it answers a   *)
(* call.                                                                   *)
(*                                                                         *)
(* Postgres is the source of truth.  Every route handler commits its row   *)
(* and then runs one of the builders of cache.ts.  A builder awaits a read *)
(* of Postgres and then awaits one Redis command per key, so on the event  *)
(* loop of one API process, or in several processes, the commits, reads,   *)
(* purges and writes of different requests interleave.  A worker is one    *)
(* such request, or one run of the watchdog.                               *)
(*                                                                         *)
(* Row contents are abstracted to the version of the row, and what a key   *)
(* holds to the versions it was rendered from: an extension's keys carry   *)
(* defaults of the tenant's settings as well, and a ring group's key lists *)
(* its members that are enabled.                                           *)
(***************************************************************************)
EXTENDS Integers

CONSTANTS
    Exts,      \* extension numbers
    Dids,      \* inbound DID numbers
    Groups,    \* ring groups
    Menus,     \* IVR menus
    Conds,     \* time conditions
    Procs,     \* API processes, one per node
    Workers,   \* requests and timers a process can have in flight
    Home,      \* the process each worker runs in
    Faults,    \* the kinds of fault that may happen
    MaxEdits,  \* bound of a behaviour: requests by administrators
    MaxFaults  \* bound of a behaviour: faults

FaultKind == {"restart", "evict", "crash", "abort", "lost"}

\* The two rows every tenant has exactly one of.
TenantRow == "tenant_settings"
RoutesRow == "outbound_routes"

Row == Exts \cup Dids \cup Groups \cup Menus \cup Conds \cup {TenantRow, RoutesRow}

\* The five kinds of row are told apart; the two bounds are numbers.
ASSUME RowsDisjoint ==
    /\ Exts \cap (Dids \cup Groups \cup Menus \cup Conds \cup {TenantRow, RoutesRow}) = {}
    /\ Dids \cap (Groups \cup Menus \cup Conds \cup {TenantRow, RoutesRow}) = {}
    /\ Groups \cap (Menus \cup Conds \cup {TenantRow, RoutesRow}) = {}
    /\ Menus \cap (Conds \cup {TenantRow, RoutesRow}) = {}
    /\ Conds \cap {TenantRow, RoutesRow} = {}

ASSUME HomeAndBounds ==
    /\ Home \in [Workers -> Procs]
    /\ Faults \subseteq FaultKind
    /\ MaxEdits \in Nat /\ MaxFaults \in Nat

-----------------------------------------------------------------------------
(* The key space, and the two orders rebuildTenant works in. *)

\* The nine key patterns of keys.tenantPatterns, in the order they are purged.
Pattern == {"dir", "did", "num", "call", "rg", "ivr", "tc", "routes", "tenant"}

PurgeRank ==
    [p \in Pattern |->
        CASE p = "dir" -> 1 [] p = "did" -> 2 [] p = "num" -> 3
          [] p = "call" -> 4 [] p = "rg" -> 5 [] p = "ivr" -> 6
          [] p = "tc" -> 7 [] p = "routes" -> 8 [] p = "tenant" -> 9]

\* The builders, in the order rebuildTenant calls them.
Builder == {"tenant", "routes", "did", "rg", "ivr", "tc", "ext"}

BuildRank ==
    [b \in Builder |->
        CASE b = "tenant" -> 1 [] b = "routes" -> 2 [] b = "did" -> 3
          [] b = "rg" -> 4 [] b = "ivr" -> 5 [] b = "tc" -> 6 [] b = "ext" -> 7]

\* The patterns of the keys a row is rendered into.
PatternsOf(r) ==
    IF r \in Exts THEN {"dir", "call"}
    ELSE IF r \in Dids THEN {"did"}
    ELSE IF r \in Groups THEN {"rg", "num"}
    ELSE IF r \in Menus THEN {"ivr", "num"}
    ELSE IF r \in Conds THEN {"tc"}
    ELSE IF r = TenantRow THEN {"tenant"} ELSE {"routes"}

\* The builder that reads a row.
BuilderOf(r) ==
    IF r \in Exts THEN "ext"
    ELSE IF r \in Dids THEN "did"
    ELSE IF r \in Groups THEN "rg"
    ELSE IF r \in Menus THEN "ivr"
    ELSE IF r \in Conds THEN "tc"
    ELSE IF r = TenantRow THEN "tenant" ELSE "routes"

\* A Redis key: the pattern it belongs to and the row it is rendered from.
Key == {k \in Pattern \X Row : k[1] \in PatternsOf(k[2])}

TenantKey == <<"tenant", TenantRow>>

UsedPatterns == {k[1] : k \in Key}
UsedBuilders == {BuilderOf(r) : r \in Row}

\* What a key holds: the version of its own row, that of the tenant's settings it
\* carries defaults of, and the members of a ring group it lists.
Doc == [own : Int, settings : Nat, members : SUBSET Exts]

Absent == [own |-> 0, settings |-> 0, members |-> {}]   \* no such key; as a pending write, a DEL
None == [own |-> -1, settings |-> 0, members |-> {}]    \* nothing to write to this key

\* What cacheExtension holds after its first read: the version of each extension
\* read, Disabled, or Unseen.
Disabled == 0
Unseen == -1

-----------------------------------------------------------------------------
VARIABLES
    pg,         \* Postgres: state and version of each row, members of a ring group
    cache,      \* Redis: what each key was rendered from, or Absent
    sentinel,   \* Redis: the key voip:warm exists
    up,         \* which API processes run
    job,        \* what each worker has left to do
    tainted,    \* history: rows whose keys a lone rebuild has yet to repair
    edits,      \* requests so far, bounded by MaxEdits
    faults      \* faults so far, bounded by MaxFaults

counters == <<edits, faults>>
vars == <<pg, cache, sentinel, up, job, tainted, edits, faults>>

\* An idle worker, and the work of one rebuildTenant call.  Purging a pattern no
\* key matches and reading a table with no rows change nothing and are left out.
NoWrites == [k \in Key |-> None]
NothingRead == [e \in Exts |-> Unseen]
Idle == [kind |-> "idle", purge |-> {}, build |-> {}, exts |-> {}, got |-> NothingRead,
         pend |-> NoWrites, alone |-> FALSE]

\* Mutants: a rebuild that purges nothing, and one that forgets the inbound routes.
RebuildWithoutPurge(kind) == [Idle EXCEPT !.kind = kind, !.build = UsedBuilders]
RebuildSkipsDids(kind) ==
    [Idle EXCEPT !.kind = kind, !.purge = UsedPatterns, !.build = UsedBuilders \ {"did"}]

Rebuild(kind) == [Idle EXCEPT !.kind = kind, !.purge = UsedPatterns, !.build = UsedBuilders]

RebuildKinds == {"rebuild", "watchdog", "startup"}

\* The members a ring group rings: disabled extensions are filtered.
Ringing(g) == {e \in pg[g].mem : pg[e].st = "on"}

\* What the builders would render into a key now: nothing of a disabled or deleted row.
Served(k) ==
    IF pg[k[2]].st = "on"
    THEN [own |-> pg[k[2]].v,
          settings |-> IF k[2] \in Exts THEN pg[TenantRow].v ELSE 0,
          members |-> IF k[1] = "rg" THEN Ringing(k[2]) ELSE {}]
    ELSE Absent

PendingRow(w, r) == \E k \in Key : k[2] = r /\ job[w].pend[k] # None
NoPending(w) == job[w].pend = NoWrites

\* The extension whose row cacheExtension has read, and its settings not yet.
HalfRead(w) == {e \in Exts : job[w].got[e] # Unseen}

SpendEdit ==
    /\ edits < MaxEdits
    /\ edits' = edits + 1
    /\ UNCHANGED faults

SpendFault(f) ==
    /\ f \in Faults /\ faults < MaxFaults
    /\ faults' = faults + 1
    /\ UNCHANGED edits

\* A worker that can take a request: its process runs and it is not in one.
Free(w) == up[Home[w]] /\ job[w].kind = "idle"

\* Starting a job ends the solitude of every other job; it is alone if nobody else runs.
Begin(w, j) ==
    job' = [v \in Workers |->
        IF v = w
        THEN [j EXCEPT !.alone = \A u \in Workers \ {w} : job[u].kind = "idle"]
        ELSE [job[v] EXCEPT !.alone = FALSE]]

Init ==
    /\ pg \in [Row -> [st : {"on", "gone"}, v : {1}, mem : SUBSET Exts]]
    /\ pg[TenantRow].st = "on" /\ pg[RoutesRow].st = "on"
    /\ \A r \in Row : /\ pg[r].st = "gone" \/ r \notin Groups => pg[r].mem = {}
                      /\ \A e \in pg[r].mem : pg[e].st = "on"
    /\ cache = [k \in Key |-> Absent]
    /\ sentinel = FALSE
    /\ up = [p \in Procs |-> FALSE]
    /\ job = [w \in Workers |-> Idle]
    /\ tainted = [r \in Row |-> FALSE]
    /\ edits = 0 /\ faults = 0

-----------------------------------------------------------------------------
(* Commits.  The row changes in Postgres and the handler goes on to its     *)
(* cache builder.  A row that changes while another worker holds a value    *)
(* read from it, or still has to delete it, is tainted: nothing orders the  *)
(* two writes.  So is a row whose keys carry something of the changed row,  *)
(* where the handler runs no builder for it.                                *)

Overlaps(w, r) == \E v \in Workers \ {w} : PendingRow(v, r) \/ r \in HalfRead(v)

Commit(w, r, st) ==
    /\ SpendEdit
    /\ pg' = [pg EXCEPT ![r] = [st |-> st, v |-> pg[r].v + 1, mem |-> pg[r].mem]]

\* Ring groups list extension e, and the builder filters by its state: the extension
\* routes rebuild no group, so the cached groups go stale when that changes.
LeavesStale(r, e, st) ==
    r \in Groups /\ e \in pg[r].mem /\ (st = "on") # (pg[e].st = "on")

\* POST and PATCH of an extension, and the handset's feature codes: then cacheExtension.
PutExt(w, e) ==
    /\ Free(w)
    /\ \E st \in {"on", "off"} :
          /\ pg[e].st = "gone" => st = "on"
          /\ Commit(w, e, st)
          /\ tainted' = [r \in Row |-> \/ tainted[r]
                                       \/ r = e /\ Overlaps(w, e)
                                       \/ LeavesStale(r, e, st)]
    /\ Begin(w, [Idle EXCEPT !.kind = "edit", !.exts = {e}])
    /\ UNCHANGED <<cache, sentinel, up>>

\* DELETE of an extension, its memberships with it: then invalidateExtension, one
\* DEL of both keys.  A cacheExtension that has not read the row yet will not find it.
DeleteExt(w, e) ==
    /\ Free(w)
    /\ pg[e].st # "gone"
    /\ SpendEdit
    /\ pg' = [r \in Row |-> IF r = e
                            THEN [st |-> "gone", v |-> pg[e].v + 1, mem |-> pg[e].mem]
                            ELSE [st |-> pg[r].st, v |-> pg[r].v, mem |-> pg[r].mem \ {e}]]
    /\ job' = [v \in Workers |->
          IF v = w
          THEN [Idle EXCEPT !.kind = "edit",
                            !.pend = [k \in Key |-> IF k[2] = e THEN Absent ELSE None],
                            !.alone = \A u \in Workers \ {w} : job[u].kind = "idle"]
          ELSE [job[v] EXCEPT !.alone = FALSE, !.exts = @ \ {e}]]
    /\ tainted' = [r \in Row |-> \/ tainted[r]
                                 \/ r = e /\ Overlaps(w, e)
                                 \/ LeavesStale(r, e, "gone")]
    /\ UNCHANGED <<cache, sentinel, up>>

\* POST, PATCH and DELETE of an inbound route: then cacheInboundRoutes, which only
\* ever sets keys, so the key of a route switched off or deleted is left behind.
PutDid(w, d) ==
    /\ Free(w)
    /\ \E st \in {"on", "off", "gone"} :
          /\ pg[d].st = "gone" => st = "on"
          /\ Commit(w, d, st)
          /\ tainted' = [tainted EXCEPT ![d] = @ \/ st # "on" \/ Overlaps(w, d)]
    /\ Begin(w, [Idle EXCEPT !.kind = "edit", !.build = {"did"}])
    /\ UNCHANGED <<cache, sentinel, up>>

\* Any write of an outbound route or a trunk: then cacheRouteTable.
PutRoutes(w) ==
    /\ Free(w)
    /\ Commit(w, RoutesRow, "on")
    /\ Begin(w, [Idle EXCEPT !.kind = "edit", !.build = {"routes"}])
    /\ tainted' = [tainted EXCEPT ![RoutesRow] = @ \/ Overlaps(w, RoutesRow)]
    /\ UNCHANGED <<cache, sentinel, up>>

\* The members a ring group may be given: extensions of the tenant.
Memberships(f, st) ==
    IF f \in Groups /\ st # "gone" THEN SUBSET {e \in Exts : pg[e].st # "gone"} ELSE {{}}

\* Any write of a ring group, its members, a menu, its options or a time
\* condition: then rebuildTenant.
PutFlow(w, f) ==
    /\ Free(w)
    /\ SpendEdit
    /\ \E st \in {"on", "off", "gone"} : \E mem \in Memberships(f, st) :
          /\ pg[f].st = "gone" => st = "on" /\ mem = {}
          /\ pg' = [pg EXCEPT ![f] = [st |-> st, v |-> pg[f].v + 1, mem |-> mem]]
    /\ Begin(w, Rebuild("rebuild"))
    /\ tainted' = [tainted EXCEPT ![f] = @ \/ Overlaps(w, f)]
    /\ UNCHANGED <<cache, sentinel, up>>

\* POST /api/tenant: then rebuildTenant.  An extension whose keys another worker is
\* about to write with the old settings is tainted too.
PutTenant(w) ==
    /\ Free(w)
    /\ Commit(w, TenantRow, "on")
    /\ Begin(w, Rebuild("rebuild"))
    /\ tainted' = [r \in Row |-> tainted[r] \/ (r \in Exts \cup {TenantRow} /\ Overlaps(w, r))]
    /\ UNCHANGED <<cache, sentinel, up>>

\* POST /api/tenant for the dedicated tier: the row is upserted with no dispatcher
\* set and the handler answers 202 before it touches the cache, the keys of the
\* extensions included.
PutDedicatedTenant(w) ==
    /\ Free(w)
    /\ Commit(w, TenantRow, "on")
    /\ job' = [v \in Workers |-> [job[v] EXCEPT !.alone = FALSE]]
    /\ tainted' = [r \in Row |-> tainted[r] \/ r \in Exts \cup {TenantRow}]
    /\ UNCHANGED <<cache, sentinel, up>>

\* POST /api/tenant/rebuild-cache.
RebuildCache(w) ==
    /\ Free(w)
    /\ SpendEdit
    /\ Begin(w, Rebuild("rebuild"))
    /\ UNCHANGED <<pg, cache, sentinel, up, tainted>>

-----------------------------------------------------------------------------
(* The steps of cache.ts. *)

Purged(w, p) == [job[w] EXCEPT !.purge = job[w].purge \ {p}]

\* safeDelPattern of the next pattern of rebuildTenant.
Purge(w) ==
    \E p \in job[w].purge :
        /\ \A q \in job[w].purge \ {p} : PurgeRank[p] < PurgeRank[q]
        /\ cache' = [k \in Key |-> IF k[1] = p THEN Absent ELSE cache[k]]
        /\ job' = [job EXCEPT ![w] = Purged(w, p)]
        /\ UNCHANGED <<pg, sentinel, up, tainted, counters>>

\* What a builder is about to write once it has read its rows: the enabled ones.
Rendered(b) ==
    [k \in Key |-> IF BuilderOf(k[2]) = b /\ pg[k[2]].st = "on" THEN Served(k) ELSE None]

\* Mutant: the extension builder lists the rows of every table.
RowsReadOfEveryTable(w, b) ==
    [job[w] EXCEPT !.build = job[w].build \ {b},
                   !.exts = IF b = "ext" THEN {r \in Row : pg[r].st # "gone"} ELSE job[w].exts,
                   !.pend = IF b = "ext" THEN NoWrites ELSE Rendered(b)]

\* The extension builder only lists the rows; cacheExtension reads each again.
RowsRead(w, b) ==
    [job[w] EXCEPT !.build = job[w].build \ {b},
                   !.exts = IF b = "ext" THEN {e \in Exts : pg[e].st # "gone"} ELSE job[w].exts,
                   !.pend = IF b = "ext" THEN NoWrites ELSE Rendered(b)]

\* The database read of the next builder.
ReadRows(w) ==
    /\ job[w].purge = {} /\ NoPending(w)
    /\ \E b \in job[w].build :
        /\ \A c \in job[w].build \ {b} : BuildRank[b] < BuildRank[c]
        /\ job' = [job EXCEPT ![w] = RowsRead(w, b)]
    /\ UNCHANGED <<pg, cache, sentinel, up, tainted, counters>>

\* Mutant: cacheExtension leaves a disabled extension alone.
ExtReadSkipsDisabled(w, e) ==
    [job[w] EXCEPT !.exts = job[w].exts \ {e},
                   !.got = IF pg[e].st # "on" THEN NothingRead
                           ELSE [f \in Exts |-> IF f = e THEN pg[e].v ELSE Unseen]]

\* The first read of cacheExtension: a missing row is left alone.
ExtRead(w, e) ==
    [job[w] EXCEPT !.exts = job[w].exts \ {e},
                   !.got = IF pg[e].st = "gone" THEN NothingRead
                           ELSE [f \in Exts |-> IF f # e THEN Unseen
                                               ELSE IF pg[e].st = "on" THEN pg[e].v ELSE Disabled]]

ReadExt(w) ==
    /\ job[w].purge = {} /\ job[w].build = {} /\ NoPending(w) /\ HalfRead(w) = {}
    /\ \E e \in job[w].exts : job' = [job EXCEPT ![w] = ExtRead(w, e)]
    /\ UNCHANGED <<pg, cache, sentinel, up, tainted, counters>>

\* Its second read, of the tenant's settings: an extension that was enabled at the
\* first is rendered into its directory and call keys with them, one that was
\* disabled is invalidated.
SettingsRead(w, e) ==
    [job[w] EXCEPT !.got = NothingRead,
                   !.pend = [k \in Key |->
                       IF k[2] # e THEN None
                       ELSE IF job[w].got[e] = Disabled THEN Absent
                       ELSE [own |-> job[w].got[e], settings |-> pg[TenantRow].v, members |-> {}]]]

ReadSettings(w) ==
    /\ \E e \in HalfRead(w) : job' = [job EXCEPT ![w] = SettingsRead(w, e)]
    /\ UNCHANGED <<pg, cache, sentinel, up, tainted, counters>>

\* A key is set after the keys of its row that come first: the directory entry
\* before the call entry, the call-flow object before its number.
SetFirst == [p \in Pattern |-> IF p \in {"call", "num"} THEN 1 ELSE 0]

NextWrite(w, k) ==
    /\ job[w].pend[k] # None
    /\ \A k2 \in Key : k2[2] = k[2] /\ job[w].pend[k2] # None
                          => SetFirst[k[1]] <= SetFirst[k2[1]]

\* The keys one Redis command writes: a SET writes one, the DEL of
\* invalidateExtension both keys of the extension.
Batch(w, k) ==
    IF job[w].pend[k] = Absent
    THEN {k2 \in Key : k2[2] = k[2] /\ job[w].pend[k2] = Absent}
    ELSE {k}

Sent(w, k) ==
    [job[w] EXCEPT !.pend = [k2 \in Key |-> IF k2 \in Batch(w, k) THEN None ELSE job[w].pend[k2]]]

\* safeSet or safeDel.
Write(w) ==
    \E k \in Key :
        /\ NextWrite(w, k)
        /\ cache' = [k2 \in Key |-> IF k2 \in Batch(w, k) THEN job[w].pend[k2] ELSE cache[k2]]
        /\ job' = [job EXCEPT ![w] = Sent(w, k)]
        /\ UNCHANGED <<pg, sentinel, up, tainted, counters>>

Done(w) ==
    /\ job[w].kind # "idle"
    /\ job[w].purge = {} /\ job[w].build = {} /\ job[w].exts = {} /\ HalfRead(w) = {} /\ NoPending(w)

\* The job returns.  The startup warm then claims the sentinel, whatever became
\* of Redis meanwhile.  A rebuild nothing overlapped has repaired every row.
Finish(w) ==
    /\ Done(w)
    /\ job' = [job EXCEPT ![w] = Idle]
    /\ sentinel' = (sentinel \/ job[w].kind = "startup")
    /\ tainted' = IF job[w].alone /\ job[w].kind \in RebuildKinds
                  THEN [r \in Row |-> FALSE] ELSE tainted
    /\ UNCHANGED <<pg, cache, up, counters>>

-----------------------------------------------------------------------------
(* Process start and the watchdog of index.ts. *)

\* A process starts and warms the cache.
Start(w) ==
    /\ ~up[Home[w]]
    /\ up' = [up EXCEPT ![Home[w]] = TRUE]
    /\ Begin(w, Rebuild("startup"))
    /\ UNCHANGED <<pg, cache, sentinel, tainted, counters>>

\* warmIfCacheLost: SET NX of the sentinel, and a rebuild by whoever set it.
Watchdog(w) ==
    /\ Free(w)
    /\ ~sentinel
    /\ sentinel' = TRUE
    /\ Begin(w, Rebuild("watchdog"))
    /\ UNCHANGED <<pg, cache, up, tainted, counters>>

-----------------------------------------------------------------------------
(* Faults. *)

\* Redis restarts: it keeps nothing on disk.
RedisRestart ==
    /\ SpendFault("restart")
    /\ cache' = [k \in Key |-> Absent]
    /\ sentinel' = FALSE
    /\ UNCHANGED <<pg, up, job, tainted>>

\* Redis is full and drops the key it used least recently, the sentinel included.
Evict ==
    /\ SpendFault("evict")
    /\ \/ /\ sentinel' = FALSE
          /\ UNCHANGED <<cache, tainted>>
       \/ \E k \in Key : /\ cache' = [cache EXCEPT ![k] = Absent]
                         /\ tainted' = [tainted EXCEPT ![k[2]] = TRUE]
                         /\ UNCHANGED sentinel
    /\ job' = [v \in Workers |-> [job[v] EXCEPT !.alone = FALSE]]
    /\ UNCHANGED <<pg, up>>

\* A process dies with everything it had in flight.
Crash(p) ==
    /\ up[p]
    /\ SpendFault("crash")
    /\ up' = [up EXCEPT ![p] = FALSE]
    /\ job' = [w \in Workers |-> IF Home[w] = p THEN Idle ELSE job[w]]
    /\ UNCHANGED <<pg, cache, sentinel, tainted>>

\* The rows a job has yet to read, one it has read half of included.
Unread(w) == {r \in Row : BuilderOf(r) \in job[w].build \/ r \in job[w].exts \cup HalfRead(w)}

\* A database read throws.  The request fails after its commit; warmCache logs it
\* and returns, and the startup warm still goes on to claim the sentinel.
Abort(w) ==
    /\ job[w].purge \in {{}, UsedPatterns} /\ NoPending(w) /\ Unread(w) # {}
    /\ SpendFault("abort")
    /\ job' = [job EXCEPT ![w] = Idle]
    /\ sentinel' = (sentinel \/ job[w].kind = "startup")
    /\ tainted' = [r \in Row |-> tainted[r] \/ r \in Unread(w)]
    /\ UNCHANGED <<pg, cache, up>>

\* safeSet or safeDel fails: the error is logged and the job goes on.
LoseWrite(w) ==
    \E k \in Key :
        /\ NextWrite(w, k)
        /\ SpendFault("lost")
        /\ job' = [job EXCEPT ![w] = [Sent(w, k) EXCEPT !.alone = FALSE]]
        /\ tainted' = [tainted EXCEPT ![k[2]] = TRUE]
        /\ UNCHANGED <<pg, cache, sentinel, up>>

\* safeDelPattern fails: likewise.
LosePurge(w) ==
    \E p \in job[w].purge :
        /\ \A q \in job[w].purge \ {p} : PurgeRank[p] < PurgeRank[q]
        /\ SpendFault("lost")
        /\ job' = [job EXCEPT ![w] = [Purged(w, p) EXCEPT !.alone = FALSE]]
        /\ tainted' = [r \in Row |-> tainted[r] \/ p \in PatternsOf(r)]
        /\ UNCHANGED <<pg, cache, sentinel, up>>

-----------------------------------------------------------------------------
Edit(w) ==
    \/ \E e \in Exts : PutExt(w, e) \/ DeleteExt(w, e)
    \/ \E d \in Dids : PutDid(w, d)
    \/ \E f \in Groups \cup Menus \cup Conds : PutFlow(w, f)
    \/ PutRoutes(w)
    \/ PutTenant(w)
    \/ PutDedicatedTenant(w)
    \/ RebuildCache(w)

Work(w) == Purge(w) \/ ReadRows(w) \/ ReadExt(w) \/ ReadSettings(w) \/ Write(w) \/ Finish(w)

Fault ==
    \/ RedisRestart
    \/ Evict
    \/ \E p \in Procs : Crash(p)
    \/ \E w \in Workers : Abort(w) \/ LoseWrite(w) \/ LosePurge(w)

Next ==
    \/ \E w \in Workers : Edit(w) \/ Work(w) \/ Start(w) \/ Watchdog(w)
    \/ Fault

Spec == Init /\ [][Next]_vars

\* The event loop runs every job to its end, systemd restarts the service, and
\* the timer fires every minute; edits and faults are never promised.
Fairness ==
    /\ \A w \in Workers : WF_vars(Work(w))
    /\ WF_vars(\E w \in Workers : Start(w))
    /\ WF_vars(\E w \in Workers : Watchdog(w))

FairSpec == Spec /\ Fairness

-----------------------------------------------------------------------------
(* Properties. *)

Job == [kind : {"idle", "edit", "rebuild", "watchdog", "startup"},
        purge : SUBSET Pattern, build : SUBSET Builder, exts : SUBSET Exts,
        got : [Exts -> Int], pend : [Key -> Doc], alone : BOOLEAN]

RowContent == [st : {"on", "off", "gone"}, v : Nat \ {0}, mem : SUBSET Exts]

\* Every variable keeps its type; versions are positive numbers.
TypeOK ==
    /\ pg \in [Row -> RowContent]
    /\ cache \in [Key -> Doc]
    /\ sentinel \in BOOLEAN
    /\ up \in [Procs -> BOOLEAN]
    /\ job \in [Workers -> Job]
    /\ tainted \in [Row -> BOOLEAN]
    /\ edits \in Nat /\ faults \in Nat

\* A key answers as Postgres would: it holds what the builders would render now, or
\* it is absent together with the tenant's own key, and the Lua handler declines.
Truthful(k) ==
    \/ cache[k] = Served(k)
    \/ cache[k] = Absent /\ cache[TenantKey] = Absent

\* Some job in flight will still write or purge this key.
Handles(w, k) ==
    \/ k[1] \in job[w].purge
    \/ job[w].pend[k] # None
    \/ k[2] \in Unread(w)

\* Requests that overlap nothing and leave no dependent key behind leave no stale key
\* and no hole, however they interleave with requests on other rows, with the
\* watchdog, with Redis restarts and with crashes of the API: once every process is
\* back up and no job has the key left to handle, an untainted row is served as
\* Postgres holds it, its extension's tenant defaults and its group's members included.
Coherent ==
    \A k \in Key :
        /\ \A p \in Procs : up[p]
        /\ \A w \in Workers : ~Handles(w, k)
        /\ ~tainted[k[2]]
        => Truthful(k)

\* The repair action: a rebuild that nothing overlapped ends with every key as
\* Postgres has it, ghosts of deleted and renumbered rows included.
LoneRebuildRepairs ==
    \A w \in Workers :
        Done(w) /\ job[w].alone /\ job[w].kind \in RebuildKinds
            => \A k \in Key : Truthful(k)

\* A process that is down will warm the cache when it starts, and claims the sentinel
\* after that, whatever became of Redis meanwhile.
StartingUp == \E w \in Workers : job[w].kind = "startup" \/ ~up[Home[w]]

\* Every key is there, but for the rows a failed read or a failed or evicted write
\* has hit, and those an overlap has left in doubt.
Filled == \A k \in Key : Served(k) # Absent /\ ~tainted[k[2]] => cache[k] # Absent

\* A cache lost while no process was starting is found by the watchdog and filled
\* again, but for the rows whose read or write failed on the way, unless a process
\* goes down first and leaves the warming to its own start.  Nobody comes back for
\* those rows: the sentinel is claimed before the warming and says nothing of it.
LostCacheIsRefilled == (~sentinel /\ ~StartingUp) ~> (Filled \/ (~sentinel /\ StartingUp))
=============================================================================
