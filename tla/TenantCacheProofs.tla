------------------------- MODULE TenantCacheProofs -------------------------
(***************************************************************************)
(* Proofs about TenantCache for any number of rows, workers and processes. *)
(***************************************************************************)
EXTENDS TenantCache, TLAPS

\* A builder that has yet to run will touch the keys of this row.
Reaches(r) == IF r \in Exts THEN pg[r].st # "gone" ELSE pg[r].st = "on"

\* The job of w will still bring k to what Postgres holds.
Fixer(w, k) ==
    \/ k[1] \in job[w].purge
    \/ job[w].pend[k] # None
    \/ k[2] \in job[w].exts \cup HalfRead(w)
    \/ BuilderOf(k[2]) \in job[w].build /\ Reaches(k[2])

\* How far a job can have got: purges first, tenant settings next, extensions last.
Shape(w) ==
    /\ job[w].purge # {} => /\ job[w].build = UsedBuilders
                            /\ job[w].exts = {} /\ HalfRead(w) = {}
                            /\ \A k \in Key : job[w].pend[k] = None
    /\ job[w].kind = "idle" => /\ job[w].purge = {} /\ job[w].build = {}
                               /\ job[w].exts = {} /\ HalfRead(w) = {}
                               /\ \A k \in Key : job[w].pend[k] = None
    /\ ~up[Home[w]] => job[w].kind = "idle"
    /\ "tenant" \in job[w].build => job[w].build = UsedBuilders
    /\ job[w].pend[TenantKey] # None => job[w].build = UsedBuilders \ {"tenant"}
    /\ job[w].exts # {} => job[w].build = {}
    /\ \A e \in job[w].exts : pg[e].st # "gone"
    /\ HalfRead(w) # {} => job[w].build = {} /\ \A k \in Key : job[w].pend[k] = None
    /\ \A e, f \in HalfRead(w) : e = f

JobShape == \A w \in Workers : Shape(w)

\* What cacheExtension keeps of its first read is what the row still says.
ReadTrue(w, e) ==
    job[w].got[e] = IF pg[e].st = "on" THEN pg[e].v ELSE Disabled

\* A value on its way to Redis is the one Postgres holds, one half read included.
PendingTrue ==
    \A w \in Workers :
        /\ \A k \in Key :
              job[w].pend[k] # None /\ ~tainted[k[2]] => job[w].pend[k] = Served(k)
        /\ \A e \in HalfRead(w) : ~tainted[e] => ReadTrue(w, e)

\* A key that is not truthful has somebody to fix it.
Held ==
    \A k \in Key :
        \/ tainted[k[2]]
        \/ Truthful(k)
        \/ \E p \in Procs : ~up[p]
        \/ \E w \in Workers : Fixer(w, k)

\* A rebuild that nothing overlaps leaves only truthful keys behind it.
Solo ==
    \A w \in Workers :
        job[w].alone /\ job[w].kind \in RebuildKinds =>
            /\ \A u \in Workers \ {w} : job[u].kind = "idle"
            /\ \A e \in HalfRead(w) : ReadTrue(w, e)
            /\ \A k \in Key :
                  /\ job[w].pend[k] # None => job[w].pend[k] = Served(k)
                  /\ k[1] \notin job[w].purge => cache[k] \in {Absent, Served(k)}
                  /\ Fixer(w, k) \/ Truthful(k)

TenantAndRoutesOn == pg[TenantRow].st = "on" /\ pg[RoutesRow].st = "on"

IInv == TypeOK /\ TenantAndRoutesOn /\ JobShape /\ PendingTrue /\ Held /\ Solo

-----------------------------------------------------------------------------
(* Facts about the key space. *)

\* Every key belongs to a pattern some purge matches, is rendered from a row,
\* and has a builder among those rebuildTenant calls.
LEMMA KeyFacts ==
    /\ \A k \in Key : /\ k[1] \in UsedPatterns /\ k[2] \in Row
                     /\ k[1] \in PatternsOf(k[2])
                     /\ BuilderOf(k[2]) \in UsedBuilders
    /\ UsedPatterns \subseteq Pattern /\ UsedBuilders \subseteq Builder
  <1>1. \A k \in Key : k[1] \in UsedPatterns /\ k[2] \in Row /\ k[1] \in PatternsOf(k[2])
    BY DEF Key, UsedPatterns
  <1>2. \A k \in Key : BuilderOf(k[2]) \in UsedBuilders
    BY <1>1 DEF UsedBuilders
  <1>3. UsedPatterns \subseteq Pattern
    BY DEF Key, UsedPatterns
  <1>4. \A r \in Row : BuilderOf(r) \in Builder
    BY DEF BuilderOf, Builder
  <1> QED
    BY <1>1, <1>2, <1>3, <1>4 DEF UsedBuilders

\* The tenant's settings have one key, built by one builder that builds nothing else.
LEMMA TenantKeyFacts ==
    /\ TenantKey \in Key /\ TenantKey[2] = TenantRow
    /\ TenantRow \in Row /\ RoutesRow \in Row
    /\ BuilderOf(TenantRow) = "tenant" /\ BuilderOf(RoutesRow) = "routes"
    /\ \A k \in Key : BuilderOf(k[2]) = "tenant" => k = TenantKey
  <1>1. TenantRow \in Row /\ RoutesRow \in Row
    BY DEF Row
  <1>2. /\ TenantRow \notin Exts \cup Dids \cup Groups \cup Menus \cup Conds
        /\ RoutesRow \notin Exts \cup Dids \cup Groups \cup Menus \cup Conds
        /\ TenantRow # RoutesRow
    BY RowsDisjoint DEF TenantRow, RoutesRow
  <1>3. PatternsOf(TenantRow) = {"tenant"}
    BY <1>2 DEF PatternsOf
  <1>4. TenantKey \in Key /\ TenantKey[2] = TenantRow
    BY <1>1, <1>3 DEF Key, TenantKey, Pattern
  <1>5. BuilderOf(TenantRow) = "tenant" /\ BuilderOf(RoutesRow) = "routes"
    BY <1>2 DEF BuilderOf
  <1>6. ASSUME NEW k \in Key, BuilderOf(k[2]) = "tenant" PROVE k = TenantKey
    <2>1. k[2] = TenantRow
      BY <1>6 DEF BuilderOf
    <2>2. k \in Pattern \X Row /\ k[1] = "tenant"
      BY <2>1, <1>3 DEF Key
    <2> QED
      BY <2>1, <2>2 DEF TenantKey
  <1> QED
    BY <1>1, <1>4, <1>5, <1>6

\* The extension builder is the one that reads the extensions.
LEMMA ExtBuilder == \A r \in Row : BuilderOf(r) = "ext" <=> r \in Exts
  BY DEF BuilderOf, Row

\* An extension's keys are not a ring group's.
LEMMA ExtKeys == \A k \in Key : k[2] \in Exts => k[1] \in {"dir", "call"}
  BY KeyFacts DEF PatternsOf

-----------------------------------------------------------------------------
(* Types. *)

LEMMA DocTypes == None \in Doc /\ Absent \in Doc /\ None # Absent
  BY DEF None, Absent, Doc

LEMMA JobTypes ==
    /\ Idle \in Job /\ NoWrites \in [Key -> Doc] /\ NothingRead \in [Exts -> Int]
    /\ \A kind \in RebuildKinds : Rebuild(kind) \in Job
  <1>1. NoWrites \in [Key -> Doc] /\ NothingRead \in [Exts -> Int]
    BY DocTypes DEF NoWrites, NothingRead, Unseen
  <1>2. Idle \in Job
    BY <1>1 DEF Idle, Job
  <1>3. ASSUME NEW kind \in RebuildKinds PROVE Rebuild(kind) \in Job
    BY <1>1, <1>3, KeyFacts DEF Rebuild, Idle, Job, RebuildKinds
  <1> QED
    BY <1>1, <1>2, <1>3

\* A job stays a job when one of its fields is replaced by another of its type.
LEMMA JobUpdates ==
    ASSUME NEW j \in Job
    PROVE  /\ \A a \in BOOLEAN : [j EXCEPT !.alone = a] \in Job
           /\ \A ps \in SUBSET Pattern : [j EXCEPT !.purge = ps] \in Job
           /\ \A pend \in [Key -> Doc] : [j EXCEPT !.pend = pend] \in Job
           /\ \A a \in BOOLEAN, es \in SUBSET Exts : [j EXCEPT !.alone = a, !.exts = es] \in Job
  BY DEF Job

\* What the builders would render is a document, and never the mark of no write.
LEMMA ServedTypes ==
    ASSUME TypeOK, NEW k \in Key
    PROVE  Served(k) \in Doc /\ Served(k) # None
  <1>1. k[2] \in Row /\ TenantRow \in Row
    BY KeyFacts, TenantKeyFacts
  <1>2. pg[k[2]].v \in Nat /\ pg[TenantRow].v \in Nat /\ pg[k[2]].mem \in SUBSET Exts
    BY <1>1 DEF TypeOK, RowContent
  <1> QED
    BY <1>2, DocTypes DEF Served, Doc, Ringing, None, Absent

\* So the steps of cache.ts leave a job behind.
LEMMA JobSteps ==
    ASSUME TypeOK, NEW w \in Workers
    PROVE  /\ \A p \in Pattern : /\ Purged(w, p) \in Job
                                 /\ [Purged(w, p) EXCEPT !.alone = FALSE] \in Job
           /\ \A b \in Builder : RowsRead(w, b) \in Job
           /\ \A e \in Exts : ExtRead(w, e) \in Job /\ SettingsRead(w, e) \in Job
           /\ \A k \in Key : /\ Sent(w, k) \in Job
                             /\ [Sent(w, k) EXCEPT !.alone = FALSE] \in Job
           /\ job[w].purge \subseteq Pattern /\ job[w].build \subseteq Builder
           /\ job[w].exts \subseteq Exts
  <1>1. /\ job[w] \in Job /\ job[w].purge \subseteq Pattern
        /\ job[w].build \subseteq Builder /\ job[w].exts \subseteq Exts
        /\ job[w].pend \in [Key -> Doc]
    BY DEF TypeOK, Job
  <1>2. ASSUME NEW p \in Pattern PROVE Purged(w, p) \in Job
    BY <1>1, JobUpdates DEF Purged
  <1>3. ASSUME NEW b \in Builder PROVE RowsRead(w, b) \in Job
    <2> DEFINE bs == job[w].build \ {b}
               es == IF b = "ext" THEN {e \in Exts : pg[e].st # "gone"} ELSE job[w].exts
               pend == IF b = "ext" THEN NoWrites ELSE Rendered(b)
    <2>2. Rendered(b) \in [Key -> Doc]
      BY ServedTypes, DocTypes DEF Rendered
    <2>3. bs \in SUBSET Builder /\ es \in SUBSET Exts /\ pend \in [Key -> Doc]
      BY <1>1, <2>2, JobTypes
    <2>4. RowsRead(w, b) = [job[w] EXCEPT !.build = bs, !.exts = es, !.pend = pend]
      BY DEF RowsRead
    <2> HIDE DEF bs, es, pend
    <2>5. [job[w] EXCEPT !.build = bs, !.exts = es, !.pend = pend] \in Job
      BY <1>1, <2>3 DEF Job
    <2> QED
      BY <2>4, <2>5, Zenon
  <1>4. ASSUME NEW e \in Exts PROVE ExtRead(w, e) \in Job
    <2> DEFINE es == job[w].exts \ {e}
               one == [f \in Exts |-> IF f # e THEN Unseen
                                     ELSE IF pg[e].st = "on" THEN pg[e].v ELSE Disabled]
               got == IF pg[e].st = "gone" THEN NothingRead ELSE one
    <2>1. pg[e].v \in Int
      BY DEF TypeOK, RowContent, Row
    <2>2. one \in [Exts -> Int]
      BY <2>1 DEF Unseen, Disabled
    <2>3. es \in SUBSET Exts /\ got \in [Exts -> Int]
      BY <1>1, <2>2, JobTypes
    <2>4. ExtRead(w, e) = [job[w] EXCEPT !.exts = es, !.got = got]
      BY DEF ExtRead
    <2> HIDE DEF es, got, one
    <2>5. [job[w] EXCEPT !.exts = es, !.got = got] \in Job
      BY <1>1, <2>3 DEF Job
    <2> QED
      BY <2>4, <2>5, Zenon
  <1>6. ASSUME NEW e \in Exts PROVE SettingsRead(w, e) \in Job
    <2> DEFINE doc == [own |-> job[w].got[e], settings |-> pg[TenantRow].v, members |-> {}]
               pend == [k \in Key |-> IF k[2] # e THEN None
                                     ELSE IF job[w].got[e] = Disabled THEN Absent ELSE doc]
    <2>1. job[w].got[e] \in Int /\ pg[TenantRow].v \in Nat
      BY <1>1, TenantKeyFacts DEF Job, TypeOK, RowContent
    <2>2. doc \in Doc
      BY <2>1 DEF Doc
    <2>3. SettingsRead(w, e) = [job[w] EXCEPT !.got = NothingRead, !.pend = pend]
      BY DEF SettingsRead
    <2> HIDE DEF doc
    <2>4. pend \in [Key -> Doc]
      BY <2>2, DocTypes
    <2> HIDE DEF pend
    <2>5. [job[w] EXCEPT !.got = NothingRead, !.pend = pend] \in Job
      BY <1>1, <2>4, JobTypes DEF Job
    <2> QED
      BY <2>3, <2>5, Zenon
  <1>5. ASSUME NEW k \in Key PROVE Sent(w, k) \in Job
    <2> DEFINE pend == [k2 \in Key |-> IF k2 \in Batch(w, k) THEN None ELSE job[w].pend[k2]]
    <2>1. pend \in [Key -> Doc]
      BY <1>1, DocTypes
    <2>2. Sent(w, k) = [job[w] EXCEPT !.pend = pend]
      BY DEF Sent
    <2> HIDE DEF pend
    <2> QED
      BY <1>1, <2>1, <2>2, JobUpdates
  <1> QED
    BY <1>1, <1>2, <1>3, <1>4, <1>5, <1>6, JobUpdates

\* Every step keeps the types.
LEMMA TypeStep == TypeOK /\ [Next]_vars => TypeOK'
  <1> SUFFICES ASSUME TypeOK, [Next]_vars PROVE TypeOK'
    OBVIOUS
  <1> USE DEF TypeOK
  <1>e. \A w \in Workers, j \in Job : Begin(w, j) => job' \in [Workers -> Job]
    <2> SUFFICES ASSUME NEW w \in Workers, NEW j \in Job, Begin(w, j)
                 PROVE  job' \in [Workers -> Job]
      OBVIOUS
    <2> DEFINE a == \A u \in Workers \ {w} : job[u].kind = "idle"
    <2>1. [j EXCEPT !.alone = a] \in Job /\ \A v \in Workers : [job[v] EXCEPT !.alone = FALSE] \in Job
      BY JobUpdates
    <2> QED
      BY <2>1 DEF Begin
  <1>c. \A w \in Workers, r \in Row, st \in {"on", "off", "gone"} :
            Commit(w, r, st) => /\ pg' \in [Row -> RowContent]
                                /\ edits' \in Nat /\ faults' \in Nat
    BY DEF Commit, SpendEdit, RowContent
  <1>r. /\ Exts \subseteq Row /\ Dids \subseteq Row
        /\ Groups \cup Menus \cup Conds \subseteq Row
        /\ TenantRow \in Row /\ RoutesRow \in Row
    BY DEF Row
  <1>j. /\ \A e \in Exts : [Idle EXCEPT !.kind = "edit", !.exts = {e}] \in Job
        /\ [Idle EXCEPT !.kind = "edit", !.build = {"did"}] \in Job
        /\ [Idle EXCEPT !.kind = "edit", !.build = {"routes"}] \in Job
    BY JobTypes DEF Idle, Job, Builder
  <1>1. ASSUME NEW w \in Workers, NEW e \in Exts, PutExt(w, e) PROVE TypeOK'
    <2>1. \E st \in {"on", "off"} : Commit(w, e, st) /\ tainted' \in [Row -> BOOLEAN]
      BY <1>1 DEF PutExt
    <2>2. job' \in [Workers -> Job]
      BY <1>1, <1>e, <1>j DEF PutExt
    <2> QED
      BY <2>1, <2>2, <1>1, <1>c, <1>r DEF PutExt
  <1>2. ASSUME NEW w \in Workers, NEW e \in Exts, DeleteExt(w, e) PROVE TypeOK'
    <2> DEFINE pend == [k \in Key |-> IF k[2] = e THEN Absent ELSE None]
               a == \A u \in Workers \ {w} : job[u].kind = "idle"
    <2>2. [Idle EXCEPT !.kind = "edit", !.pend = pend, !.alone = a] \in Job
      <3>1. pend \in [Key -> Doc] /\ a \in BOOLEAN
        BY DocTypes
      <3> HIDE DEF pend, a
      <3> QED
        BY <3>1, JobTypes DEF Job, Idle
    <2>3. \A v \in Workers : [job[v] EXCEPT !.alone = FALSE, !.exts = @ \ {e}] \in Job
      <3>1. \A v \in Workers : job[v].exts \ {e} \in SUBSET Exts
        BY DEF Job
      <3> QED
        BY <3>1, JobUpdates
    <2>1. job' \in [Workers -> Job]
      BY <1>2, <2>2, <2>3 DEF DeleteExt
    <2>4. pg' \in [Row -> RowContent]
      <3> DEFINE c(r) == IF r = e
                         THEN [st |-> "gone", v |-> pg[e].v + 1, mem |-> pg[e].mem]
                         ELSE [st |-> pg[r].st, v |-> pg[r].v, mem |-> pg[r].mem \ {e}]
      <3>1. pg' = [r \in Row |-> c(r)]
        BY <1>2 DEF DeleteExt
      <3>2. \A r \in Row : c(r) \in RowContent
        BY <1>r DEF RowContent
      <3> QED
        BY <3>1, <3>2
    <2>5. tainted' \in [Row -> BOOLEAN]
      BY <1>2 DEF DeleteExt
    <2>6. /\ UNCHANGED <<cache, sentinel, up, faults>>
          /\ edits' = edits + 1
      BY <1>2 DEF DeleteExt, SpendEdit
    <2> QED
      BY <2>1, <2>4, <2>5, <2>6
  <1>3. ASSUME NEW w \in Workers, NEW d \in Dids, PutDid(w, d) PROVE TypeOK'
    <2>1. PICK st \in {"on", "off", "gone"} :
              Commit(w, d, st) /\ tainted' = [tainted EXCEPT ![d] = @ \/ st # "on" \/ Overlaps(w, d)]
      BY <1>3 DEF PutDid
    <2>2. tainted' \in [Row -> BOOLEAN]
      BY <2>1
    <2>3. job' \in [Workers -> Job]
      BY <1>3, <1>e, <1>j DEF PutDid
    <2> QED
      BY <2>1, <2>2, <2>3, <1>3, <1>c, <1>r DEF PutDid
  <1>4. ASSUME NEW w \in Workers, PutRoutes(w) PROVE TypeOK'
    BY <1>4, <1>e, <1>c, <1>r, <1>j DEF PutRoutes
  <1>5. ASSUME NEW w \in Workers, NEW f \in Groups \cup Menus \cup Conds, PutFlow(w, f) PROVE TypeOK'
    <2>1. PICK st \in {"on", "off", "gone"} :
              \E mem \in Memberships(f, st) :
                  pg' = [pg EXCEPT ![f] = [st |-> st, v |-> pg[f].v + 1, mem |-> mem]]
      BY <1>5 DEF PutFlow
    <2>2. PICK mem \in Memberships(f, st) :
              pg' = [pg EXCEPT ![f] = [st |-> st, v |-> pg[f].v + 1, mem |-> mem]]
      BY <2>1
    <2>6. mem \in SUBSET Exts
      BY DEF Memberships
    <2>3. [st |-> st, v |-> pg[f].v + 1, mem |-> mem] \in RowContent
      BY <1>r, <2>6 DEF RowContent
    <2>4. pg' \in [Row -> RowContent]
      BY <2>2, <2>3
    <2>5. job' \in [Workers -> Job]
      BY <1>5, <1>e, JobTypes DEF PutFlow, RebuildKinds
    <2> QED
      BY <1>5, <1>r, <2>4, <2>5 DEF PutFlow, SpendEdit
  <1>6. ASSUME NEW w \in Workers, PutTenant(w) PROVE TypeOK'
    <2>1. job' \in [Workers -> Job]
      BY <1>6, <1>e, JobTypes DEF PutTenant, RebuildKinds
    <2>2. tainted' \in [Row -> BOOLEAN]
      BY <1>6 DEF PutTenant
    <2> QED
      BY <2>1, <2>2, <1>6, <1>c, <1>r DEF PutTenant
  <1>7. ASSUME NEW w \in Workers, PutDedicatedTenant(w) PROVE TypeOK'
    <2>1. job' \in [Workers -> Job]
      BY <1>7, JobUpdates DEF PutDedicatedTenant
    <2>2. tainted' \in [Row -> BOOLEAN]
      BY <1>7 DEF PutDedicatedTenant
    <2> QED
      BY <2>1, <2>2, <1>7, <1>c, <1>r DEF PutDedicatedTenant
  <1>8. ASSUME NEW w \in Workers, RebuildCache(w) PROVE TypeOK'
    BY <1>8, <1>e, JobTypes DEF RebuildCache, RebuildKinds, SpendEdit
  <1>9. ASSUME NEW w \in Workers, Purge(w) PROVE TypeOK'
    <2>1. PICK p \in job[w].purge :
              /\ cache' = [k \in Key |-> IF k[1] = p THEN Absent ELSE cache[k]]
              /\ job' = [job EXCEPT ![w] = Purged(w, p)]
      BY <1>9 DEF Purge
    <2>2. job' \in [Workers -> Job]
      BY <2>1, JobSteps
    <2>3. cache' \in [Key -> Doc]
      BY <2>1, DocTypes
    <2> QED
      BY <1>9, <2>2, <2>3 DEF Purge, counters
  <1>10. ASSUME NEW w \in Workers, ReadRows(w) PROVE TypeOK'
    <2>1. PICK b \in job[w].build : job' = [job EXCEPT ![w] = RowsRead(w, b)]
      BY <1>10 DEF ReadRows
    <2>2. job' \in [Workers -> Job]
      BY <2>1, JobSteps
    <2> QED
      BY <2>2, <1>10 DEF ReadRows, counters
  <1>11. ASSUME NEW w \in Workers, ReadExt(w) PROVE TypeOK'
    <2>1. PICK e \in job[w].exts : job' = [job EXCEPT ![w] = ExtRead(w, e)]
      BY <1>11 DEF ReadExt
    <2>2. job' \in [Workers -> Job]
      BY <2>1, JobSteps
    <2> QED
      BY <2>2, <1>11 DEF ReadExt, counters
  <1>23. ASSUME NEW w \in Workers, ReadSettings(w) PROVE TypeOK'
    <2>1. PICK e \in HalfRead(w) : job' = [job EXCEPT ![w] = SettingsRead(w, e)]
      BY <1>23 DEF ReadSettings
    <2>2. job' \in [Workers -> Job]
      BY <2>1, JobSteps DEF HalfRead
    <2> QED
      BY <2>2, <1>23 DEF ReadSettings, counters
  <1>12. ASSUME NEW w \in Workers, Write(w) PROVE TypeOK'
    <2>1. PICK k \in Key :
              /\ cache' = [k2 \in Key |-> IF k2 \in Batch(w, k) THEN job[w].pend[k2] ELSE cache[k2]]
              /\ job' = [job EXCEPT ![w] = Sent(w, k)]
      BY <1>12 DEF Write
    <2>2. job' \in [Workers -> Job]
      BY <2>1, JobSteps
    <2>3. cache' \in [Key -> Doc]
      BY <2>1 DEF Job
    <2> QED
      BY <1>12, <2>2, <2>3 DEF Write, counters
  <1>13. ASSUME NEW w \in Workers, Finish(w) PROVE TypeOK'
    BY <1>13, JobTypes DEF Finish, counters
  <1>14. ASSUME NEW w \in Workers, Start(w) PROVE TypeOK'
    BY <1>14, <1>e, JobTypes DEF Start, RebuildKinds, counters
  <1>15. ASSUME NEW w \in Workers, Watchdog(w) PROVE TypeOK'
    BY <1>15, <1>e, JobTypes DEF Watchdog, RebuildKinds, counters
  <1>16. CASE RedisRestart
    <2>1. cache' \in [Key -> Doc]
      BY <1>16, DocTypes DEF RedisRestart
    <2>2. sentinel' \in BOOLEAN
      BY <1>16, Zenon DEF RedisRestart
    <2>3. UNCHANGED <<pg, up, job, tainted, edits>> /\ faults' = faults + 1
      BY <1>16 DEF RedisRestart, SpendFault
    <2> QED
      BY <2>1, <2>2, <2>3
  <1>17. ASSUME NEW p \in Procs, Crash(p) PROVE TypeOK'
    BY <1>17, JobTypes DEF Crash, SpendFault
  <1>18. ASSUME NEW w \in Workers, Abort(w) PROVE TypeOK'
    BY <1>18, JobTypes DEF Abort, SpendFault
  <1>19. ASSUME NEW w \in Workers, LoseWrite(w) PROVE TypeOK'
    <2>1. PICK k \in Key : /\ job' = [job EXCEPT ![w] = [Sent(w, k) EXCEPT !.alone = FALSE]]
                          /\ tainted' = [tainted EXCEPT ![k[2]] = TRUE]
      BY <1>19 DEF LoseWrite
    <2>2. job' \in [Workers -> Job]
      BY <2>1, JobSteps
    <2>3. tainted' \in [Row -> BOOLEAN]
      BY <2>1
    <2> QED
      BY <1>19, <2>2, <2>3 DEF LoseWrite, SpendFault
  <1>20. ASSUME NEW w \in Workers, LosePurge(w) PROVE TypeOK'
    <2>1. PICK p \in job[w].purge :
              /\ job' = [job EXCEPT ![w] = [Purged(w, p) EXCEPT !.alone = FALSE]]
              /\ tainted' = [r \in Row |-> tainted[r] \/ p \in PatternsOf(r)]
      BY <1>20 DEF LosePurge
    <2>2. job' \in [Workers -> Job]
      BY <2>1, JobSteps
    <2>3. tainted' \in [Row -> BOOLEAN]
      BY <2>1
    <2> QED
      BY <1>20, <2>2, <2>3 DEF LosePurge, SpendFault
  <1>21. CASE UNCHANGED vars
    BY <1>21 DEF vars
  <1>22. CASE Evict
    <2>1. job' \in [Workers -> Job]
      <3>1. job' = [v \in Workers |-> [job[v] EXCEPT !.alone = FALSE]]
        BY <1>22 DEF Evict
      <3> QED
        BY <3>1, JobUpdates
    <2>2. cache' \in [Key -> Doc] /\ tainted' \in [Row -> BOOLEAN]
      <3>1. CASE UNCHANGED <<cache, tainted>>
        BY <3>1
      <3>2. ASSUME NEW k \in Key, cache' = [cache EXCEPT ![k] = Absent],
                   tainted' = [tainted EXCEPT ![k[2]] = TRUE]
            PROVE  cache' \in [Key -> Doc] /\ tainted' \in [Row -> BOOLEAN]
        <4>1. cache' \in [Key -> Doc]
          BY <3>2, DocTypes
        <4>2. tainted' \in [Row -> BOOLEAN]
          BY <3>2
        <4> QED
          BY <4>1, <4>2
      <3> QED
        BY <1>22, <3>1, <3>2, Zenon DEF Evict
    <2>3. sentinel' \in BOOLEAN
      BY <1>22, Zenon DEF Evict
    <2> QED
      BY <1>22, <2>1, <2>2, <2>3 DEF Evict, SpendFault
  <1> QED
    BY <1>1, <1>2, <1>3, <1>4, <1>5, <1>6, <1>7, <1>8, <1>9, <1>10, <1>11, <1>12, <1>13,
       <1>14, <1>15, <1>16, <1>17, <1>18, <1>19, <1>20, <1>21, <1>22, <1>23
    DEF Next, Edit, Work, Fault

LEMMA InitType == Init => TypeOK
  <1> SUFFICES ASSUME Init PROVE TypeOK
    OBVIOUS
  <1>1. pg \in [Row -> RowContent]
    BY DEF Init, RowContent
  <1>2. cache \in [Key -> Doc] /\ job \in [Workers -> Job] /\ edits \in Nat /\ faults \in Nat
    BY JobTypes, DocTypes DEF Init
  <1>3. sentinel \in BOOLEAN /\ up \in [Procs -> BOOLEAN] /\ tainted \in [Row -> BOOLEAN]
    BY DEF Init
  <1> QED
    BY <1>1, <1>2, <1>3 DEF TypeOK

\* Every variable keeps its type, for any number of rows, workers and processes.
THEOREM TypeCorrect == Spec => []TypeOK
  BY InitType, TypeStep, PTL DEF Spec

-----------------------------------------------------------------------------
(* How the steps change a job, field by field. *)

\* Nothing but the solitude of the job of v changes.
SameWork(v) ==
    /\ job'[v].kind = job[v].kind /\ job'[v].purge = job[v].purge
    /\ job'[v].build = job[v].build /\ job'[v].exts = job[v].exts
    /\ job'[v].got = job[v].got /\ job'[v].pend = job[v].pend

LEMMA BeginFields ==
    ASSUME TypeOK, NEW w \in Workers, NEW j \in Job, Begin(w, j)
    PROVE  /\ job'[w].kind = j.kind /\ job'[w].purge = j.purge /\ job'[w].build = j.build
           /\ job'[w].exts = j.exts /\ job'[w].got = j.got /\ job'[w].pend = j.pend
           /\ job'[w].alone => \A u \in Workers \ {w} : job[u].kind = "idle"
           /\ \A v \in Workers \ {w} : SameWork(v) /\ ~job'[v].alone
  <1> DEFINE a == \A u \in Workers \ {w} : job[u].kind = "idle"
  <1>1. job'[w] = [j EXCEPT !.alone = a]
    BY DEF Begin
  <1>2. \A v \in Workers \ {w} : job'[v] = [job[v] EXCEPT !.alone = FALSE]
    BY DEF Begin
  <1>3. \A v \in Workers : job[v] \in Job
    BY DEF TypeOK
  <1>4. ASSUME NEW v \in Workers \ {w} PROVE SameWork(v) /\ ~job'[v].alone
    <2>1. job[v] \in Job /\ job'[v] = [job[v] EXCEPT !.alone = FALSE]
      BY <1>2, <1>3
    <2>2. SameWork(v)
      BY <2>1 DEF SameWork, Job
    <2>3. job'[v].alone = FALSE
      BY <2>1 DEF Job
    <2> QED
      BY <2>2, <2>3
  <1> HIDE DEF a
  <1>5. /\ job'[w].kind = j.kind /\ job'[w].purge = j.purge /\ job'[w].build = j.build
        /\ job'[w].exts = j.exts /\ job'[w].got = j.got /\ job'[w].pend = j.pend
        /\ job'[w].alone = a
    BY <1>1 DEF Job
  <1> QED
    BY <1>4, <1>5 DEF a

LEMMA RebuildFields ==
    \A kind \in RebuildKinds :
        /\ Rebuild(kind).kind = kind /\ Rebuild(kind).purge = UsedPatterns
        /\ Rebuild(kind).build = UsedBuilders /\ Rebuild(kind).exts = {}
        /\ Rebuild(kind).got = NothingRead /\ Rebuild(kind).pend = NoWrites
  BY DEF Rebuild, Idle

LEMMA StepFields ==
    ASSUME TypeOK, NEW w \in Workers
    PROVE  /\ \A p \in Pattern :
                 /\ Purged(w, p).purge = job[w].purge \ {p}
                 /\ Purged(w, p).kind = job[w].kind /\ Purged(w, p).build = job[w].build
                 /\ Purged(w, p).exts = job[w].exts /\ Purged(w, p).got = job[w].got
                 /\ Purged(w, p).pend = job[w].pend /\ Purged(w, p).alone = job[w].alone
           /\ \A b \in Builder :
                 /\ RowsRead(w, b).purge = job[w].purge /\ RowsRead(w, b).kind = job[w].kind
                 /\ RowsRead(w, b).build = job[w].build \ {b} /\ RowsRead(w, b).got = job[w].got
                 /\ RowsRead(w, b).exts = IF b = "ext" THEN {e \in Exts : pg[e].st # "gone"}
                                                      ELSE job[w].exts
                 /\ RowsRead(w, b).pend = IF b = "ext" THEN NoWrites ELSE Rendered(b)
                 /\ RowsRead(w, b).alone = job[w].alone
           /\ \A e \in Exts :
                 /\ ExtRead(w, e).purge = job[w].purge /\ ExtRead(w, e).kind = job[w].kind
                 /\ ExtRead(w, e).build = job[w].build /\ ExtRead(w, e).pend = job[w].pend
                 /\ ExtRead(w, e).exts = job[w].exts \ {e} /\ ExtRead(w, e).alone = job[w].alone
                 /\ \A f \in Exts : ExtRead(w, e).got[f] =
                        IF f # e \/ pg[e].st = "gone" THEN Unseen
                        ELSE IF pg[e].st = "on" THEN pg[e].v ELSE Disabled
           /\ \A e \in Exts :
                 /\ SettingsRead(w, e).purge = job[w].purge /\ SettingsRead(w, e).kind = job[w].kind
                 /\ SettingsRead(w, e).build = job[w].build /\ SettingsRead(w, e).exts = job[w].exts
                 /\ SettingsRead(w, e).got = NothingRead /\ SettingsRead(w, e).alone = job[w].alone
                 /\ \A k \in Key : SettingsRead(w, e).pend[k] =
                        IF k[2] # e THEN None
                        ELSE IF job[w].got[e] = Disabled THEN Absent
                        ELSE [own |-> job[w].got[e], settings |-> pg[TenantRow].v, members |-> {}]
           /\ \A k \in Key :
                 /\ Sent(w, k).purge = job[w].purge /\ Sent(w, k).kind = job[w].kind
                 /\ Sent(w, k).build = job[w].build /\ Sent(w, k).exts = job[w].exts
                 /\ Sent(w, k).got = job[w].got /\ Sent(w, k).alone = job[w].alone
                 /\ \A k2 \in Key : Sent(w, k).pend[k2] =
                        IF k2 \in Batch(w, k) THEN None ELSE job[w].pend[k2]
  <1>1. job[w] \in Job
    BY DEF TypeOK
  <1>2. ASSUME NEW p \in Pattern
        PROVE /\ Purged(w, p).purge = job[w].purge \ {p}
              /\ Purged(w, p).kind = job[w].kind /\ Purged(w, p).build = job[w].build
              /\ Purged(w, p).exts = job[w].exts /\ Purged(w, p).got = job[w].got
              /\ Purged(w, p).pend = job[w].pend /\ Purged(w, p).alone = job[w].alone
    BY <1>1 DEF Purged, Job
  <1>3. ASSUME NEW b \in Builder
        PROVE /\ RowsRead(w, b).purge = job[w].purge /\ RowsRead(w, b).kind = job[w].kind
              /\ RowsRead(w, b).build = job[w].build \ {b} /\ RowsRead(w, b).got = job[w].got
              /\ RowsRead(w, b).exts = IF b = "ext" THEN {e \in Exts : pg[e].st # "gone"}
                                                   ELSE job[w].exts
              /\ RowsRead(w, b).pend = IF b = "ext" THEN NoWrites ELSE Rendered(b)
              /\ RowsRead(w, b).alone = job[w].alone
    BY <1>1 DEF RowsRead, Job
  <1>4. ASSUME NEW e \in Exts
        PROVE /\ ExtRead(w, e).purge = job[w].purge /\ ExtRead(w, e).kind = job[w].kind
              /\ ExtRead(w, e).build = job[w].build /\ ExtRead(w, e).pend = job[w].pend
              /\ ExtRead(w, e).exts = job[w].exts \ {e} /\ ExtRead(w, e).alone = job[w].alone
              /\ \A f \in Exts : ExtRead(w, e).got[f] =
                     IF f # e \/ pg[e].st = "gone" THEN Unseen
                     ELSE IF pg[e].st = "on" THEN pg[e].v ELSE Disabled
    <2>1. ExtRead(w, e).got = IF pg[e].st = "gone" THEN NothingRead
                              ELSE [f \in Exts |-> IF f # e THEN Unseen
                                                  ELSE IF pg[e].st = "on" THEN pg[e].v ELSE Disabled]
      BY <1>1 DEF ExtRead, Job
    <2>2. \A f \in Exts : ExtRead(w, e).got[f] =
              IF f # e \/ pg[e].st = "gone" THEN Unseen
              ELSE IF pg[e].st = "on" THEN pg[e].v ELSE Disabled
      BY <2>1 DEF NothingRead
    <2> QED
      BY <1>1, <2>2 DEF ExtRead, Job
  <1>5. ASSUME NEW e \in Exts
        PROVE /\ SettingsRead(w, e).purge = job[w].purge /\ SettingsRead(w, e).kind = job[w].kind
              /\ SettingsRead(w, e).build = job[w].build /\ SettingsRead(w, e).exts = job[w].exts
              /\ SettingsRead(w, e).got = NothingRead /\ SettingsRead(w, e).alone = job[w].alone
              /\ \A k \in Key : SettingsRead(w, e).pend[k] =
                     IF k[2] # e THEN None
                     ELSE IF job[w].got[e] = Disabled THEN Absent
                     ELSE [own |-> job[w].got[e], settings |-> pg[TenantRow].v, members |-> {}]
    BY <1>1 DEF SettingsRead, Job
  <1>6. ASSUME NEW k \in Key
        PROVE /\ Sent(w, k).purge = job[w].purge /\ Sent(w, k).kind = job[w].kind
              /\ Sent(w, k).build = job[w].build /\ Sent(w, k).exts = job[w].exts
              /\ Sent(w, k).got = job[w].got /\ Sent(w, k).alone = job[w].alone
              /\ \A k2 \in Key : Sent(w, k).pend[k2] =
                     IF k2 \in Batch(w, k) THEN None ELSE job[w].pend[k2]
    BY <1>1 DEF Sent, Job
  <1> QED
    BY <1>2, <1>3, <1>4, <1>5, <1>6

-----------------------------------------------------------------------------
(* What a commit has to leave behind for the invariant to survive it. *)

LEMMA PgTypes ==
    ASSUME TypeOK, NEW k \in Key
    PROVE  /\ k[2] \in Row /\ pg[k[2]].st \in {"on", "off", "gone"} /\ pg[k[2]].v \in Nat
           /\ Served(k) \in Doc /\ Served(k) # None
           /\ ~Reaches(k[2]) => Served(k) = Absent
  <1>1. k[2] \in Row /\ Served(k) \in Doc /\ Served(k) # None
    BY KeyFacts, ServedTypes
  <1>2. pg[k[2]].st \in {"on", "off", "gone"} /\ pg[k[2]].v \in Nat
    BY <1>1 DEF TypeOK, RowContent
  <1>3. ~Reaches(k[2]) => Served(k) = Absent
    BY <1>2 DEF Reaches, Served
  <1> QED
    BY <1>1, <1>2, <1>3

LEMMA IdleFixesNothing ==
    ASSUME NEW w \in Workers, Shape(w), job[w].kind = "idle", NEW k \in Key
    PROVE  ~Fixer(w, k)
  BY DEF Shape, Fixer

\* What the builders would render depends on the row, on the tenant's settings for an
\* extension, and on the states of the members for a ring group.
LEMMA ServedFrame ==
    ASSUME NEW k \in Key,
           pg'[k[2]].st = pg[k[2]].st, pg'[k[2]].v = pg[k[2]].v,
           k[2] \in Exts => pg'[TenantRow].v = pg[TenantRow].v,
           k[1] = "rg" => Ringing(k[2])' = Ringing(k[2])
    PROVE  Served(k)' = Served(k)
  BY DEF Served

\* The worker w takes a request that puts row r into state st, and the other jobs
\* forget r if it is gone.  The rows of R are those whose keys should change with it:
\* each is tainted, or w will bring its keys up to date.
LEMMA CommitStep ==
    ASSUME IInv, TypeOK', NEW w \in Workers, NEW r \in Row, NEW st \in {"on", "off", "gone"},
           NEW R \in SUBSET Row, r \in R,
           Free(w), pg'[r].st = st,
           \A q \in Row : q # r => pg'[q].st = pg[q].st /\ pg'[q].v = pg[q].v,
           \A k \in Key : k[2] \notin R => Served(k)' = Served(k),
           r \in {TenantRow, RoutesRow} => st = "on",
           UNCHANGED <<cache, sentinel, up>>,
           \A q \in Row : tainted[q] => tainted'[q],
           \A q \in R : Overlaps(w, q) => tainted'[q],
           \A v \in Workers \ {w} :
               /\ ~job'[v].alone /\ job'[v].kind = job[v].kind /\ job'[v].purge = job[v].purge
               /\ job'[v].build = job[v].build /\ job'[v].pend = job[v].pend
               /\ job'[v].got = job[v].got
               /\ job'[v].exts \subseteq job[v].exts /\ job[v].exts \ {r} \subseteq job'[v].exts
               /\ st = "gone" => r \notin job'[v].exts,
           Shape(w)', HalfRead(w)' = {},
           \A k \in Key : job'[w].pend[k] # None => job'[w].pend[k] = Served(k)',
           \A k \in Key : k[2] \in R => tainted'[k[2]] \/ Fixer(w, k)',
           job'[w].kind \in RebuildKinds /\ job'[w].alone
               => /\ job'[w].purge = UsedPatterns
                  /\ \A u \in Workers \ {w} : job[u].kind = "idle"
    PROVE  IInv'
  <1> USE DEF IInv
  <1>2. /\ \A q \in Row : q # r => (Reaches(q)' <=> Reaches(q))
        /\ \A v \in Workers \ {w} : HalfRead(v)' = HalfRead(v)
    BY DEF Reaches, HalfRead
  <1>3. job[w].kind = "idle" /\ Shape(w)
    BY DEF Free, JobShape
  <1>4. TenantAndRoutesOn'
    BY TenantKeyFacts DEF TenantAndRoutesOn
  <1>5. JobShape'
    <2> SUFFICES ASSUME NEW v \in Workers \ {w} PROVE Shape(v)'
      BY DEF JobShape
    <2>1. Shape(v) /\ up' = up
      BY DEF JobShape
    <2>2. \A e \in job'[v].exts : pg'[e].st # "gone"
      <3> SUFFICES ASSUME NEW e \in job'[v].exts PROVE pg'[e].st # "gone"
        OBVIOUS
      <3>1. e \in job[v].exts /\ e \in Row
        BY DEF TypeOK, Job, Row
      <3> QED
        BY <2>1, <3>1 DEF Shape
    <2>3. job[v].exts = {} => job'[v].exts = {}
      OBVIOUS
    <2> QED
      BY <1>2, <2>1, <2>2, <2>3 DEF Shape
  <1>6. PendingTrue'
    <2>1. ASSUME NEW v \in Workers, NEW k \in Key, job'[v].pend[k] # None, ~tainted'[k[2]]
          PROVE  job'[v].pend[k] = Served(k)'
      <3>1. CASE v = w
        BY <2>1, <3>1
      <3>2. CASE v # w
        <4>1. job[v].pend[k] # None /\ job'[v].pend[k] = job[v].pend[k] /\ k[2] \in Row
          BY <2>1, <3>2, KeyFacts
        <4>2. k[2] \notin R
          BY <2>1, <3>2, <4>1 DEF Overlaps, PendingRow
        <4>3. ~tainted[k[2]]
          BY <2>1, <4>1
        <4> QED
          BY <4>1, <4>2, <4>3 DEF PendingTrue
      <3> QED
        BY <3>1, <3>2
    <2>2. ASSUME NEW v \in Workers, NEW e \in HalfRead(v)', ~tainted'[e]
          PROVE  ReadTrue(v, e)'
      <3>1. v # w /\ e \in HalfRead(v) /\ e \in Row /\ job'[v].got = job[v].got
        BY <1>2, <2>2 DEF HalfRead, Row
      <3>2. e # r
        BY <2>2, <3>1 DEF Overlaps
      <3>3. ReadTrue(v, e)
        BY <2>2, <3>1 DEF PendingTrue
      <3> QED
        BY <3>1, <3>2, <3>3 DEF ReadTrue
    <2> QED
      BY <2>1, <2>2 DEF PendingTrue
  <1>7. ASSUME NEW k \in Key, k[2] \notin R
        PROVE  /\ Truthful(k) => Truthful(k)'
               /\ \A v \in Workers : Fixer(v, k) => Fixer(v, k)'
    <2>1. k[2] \in Row /\ k[2] # r
      BY <1>7, KeyFacts
    <2>2. Truthful(k) => Truthful(k)'
      BY <1>7 DEF Truthful
    <2>3. \A v \in Workers : Fixer(v, k) => v # w
      BY <1>3, IdleFixesNothing
    <2>4. \A v \in Workers : Fixer(v, k) => Fixer(v, k)'
      BY <1>2, <2>1, <2>3 DEF Fixer
    <2> QED
      BY <2>2, <2>4
  <1>8. Held'
    <2> SUFFICES ASSUME NEW k \in Key
                 PROVE  \/ tainted'[k[2]]
                        \/ Truthful(k)'
                        \/ \E p \in Procs : ~up'[p]
                        \/ \E v \in Workers : Fixer(v, k)'
      BY DEF Held
    <2>1. CASE k[2] \in R
      BY <2>1
    <2>2. CASE k[2] \notin R
      BY <1>7, <2>2, KeyFacts DEF Held
    <2> QED
      BY <2>1, <2>2
  <1>9. Solo'
    <2> SUFFICES ASSUME NEW v \in Workers, job'[v].alone, job'[v].kind \in RebuildKinds
                 PROVE  /\ \A u \in Workers \ {v} : job'[u].kind = "idle"
                        /\ \A e \in HalfRead(v)' : ReadTrue(v, e)'
                        /\ \A k \in Key :
                              /\ job'[v].pend[k] # None => job'[v].pend[k] = Served(k)'
                              /\ k[1] \notin job'[v].purge => cache'[k] \in {Absent, Served(k)'}
                              /\ Fixer(v, k)' \/ Truthful(k)'
      BY DEF Solo
    <2>1. v = w
      OBVIOUS
    <2>2. \A u \in Workers \ {v} : job'[u].kind = "idle"
      BY <2>1
    <2>3. \A k \in Key : k[1] \in job'[v].purge
      BY <2>1, KeyFacts
    <2> QED
      BY <2>1, <2>2, <2>3 DEF Fixer
  <1> QED
    BY <1>4, <1>5, <1>6, <1>8, <1>9

\* A request that goes on to no rebuild: what it leaves w to do has nothing read yet.
LEMMA CommitAndEdit ==
    ASSUME IInv, TypeOK', NEW w \in Workers, NEW r \in Row, NEW st \in {"on", "off", "gone"},
           NEW R \in SUBSET Row, r \in R, Free(w), pg'[r].st = st,
           \A q \in Row : q # r => pg'[q].st = pg[q].st /\ pg'[q].v = pg[q].v,
           \A k \in Key : k[2] \notin R => Served(k)' = Served(k),
           r \in {TenantRow, RoutesRow} => st = "on",
           UNCHANGED <<cache, sentinel, up>>,
           \A q \in Row : tainted[q] => tainted'[q],
           \A q \in R : Overlaps(w, q) => tainted'[q],
           st = "gone" => r \notin Exts,
           \A v \in Workers \ {w} : SameWork(v) /\ ~job'[v].alone,
           job'[w].kind \in {"idle", "edit"}, Shape(w)', HalfRead(w)' = {},
           \A k \in Key : job'[w].pend[k] = None,
           \A k \in Key : k[2] \in R => tainted'[k[2]] \/ Fixer(w, k)'
    PROVE  IInv'
  <1>1. \A v \in Workers \ {w} :
               /\ ~job'[v].alone /\ job'[v].kind = job[v].kind /\ job'[v].purge = job[v].purge
               /\ job'[v].build = job[v].build /\ job'[v].pend = job[v].pend
               /\ job'[v].got = job[v].got
               /\ job'[v].exts \subseteq job[v].exts /\ job[v].exts \ {r} \subseteq job'[v].exts
               /\ st = "gone" => r \notin job'[v].exts
    <2> SUFFICES ASSUME NEW v \in Workers \ {w}
                 PROVE  /\ SameWork(v) /\ ~job'[v].alone
                        /\ st = "gone" => r \notin job'[v].exts
      BY DEF SameWork
    <2>1. job'[v].exts \subseteq Exts
      BY DEF TypeOK, Job
    <2> QED
      BY <2>1
  <1>2. /\ job'[w].kind \notin RebuildKinds
        /\ \A k \in Key : job'[w].pend[k] # None => job'[w].pend[k] = Served(k)'
    BY DEF RebuildKinds
  <1> QED
    BY <1>1, <1>2, CommitStep

-----------------------------------------------------------------------------
(* The requests. *)

LEMMA FreeIsClean ==
    ASSUME IInv, NEW w \in Workers, Free(w)
    PROVE  /\ up[Home[w]] /\ job[w].kind = "idle" /\ HalfRead(w) = {}
           /\ \A v \in Workers : PendingRow(v, RoutesRow) => v # w
  BY DEF IInv, JobShape, Shape, Free, PendingRow

\* A job that has read nothing yet has no extension half read.
LEMMA NothingHalfRead ==
    /\ \A w \in Workers : job[w].got = NothingRead => HalfRead(w) = {}
    /\ \A w \in Workers : job'[w].got = NothingRead => HalfRead(w)' = {}
  BY DEF HalfRead, NothingRead

\* A job that has only its extensions, or only one builder other than the
\* tenant's, left to run.
LEMMA EditShape ==
    ASSUME IInv, NEW w \in Workers, Free(w), up' = up, TypeOK',
           job'[w].kind = "edit", job'[w].purge = {}, job'[w].got = NothingRead,
           \A k \in Key : job'[w].pend[k] = None,
           \/ job'[w].build \in {{"did"}, {"routes"}} /\ job'[w].exts = {}
           \/ job'[w].build = {} /\ \A e \in job'[w].exts : pg'[e].st # "gone"
    PROVE  Shape(w)' /\ HalfRead(w)' = {}
  BY FreeIsClean, TenantKeyFacts, NothingHalfRead DEF Shape

LEMMA RebuildShape ==
    ASSUME NEW w \in Workers, up'[Home[w]],
           job'[w].kind \in RebuildKinds, job'[w].purge = UsedPatterns,
           job'[w].build = UsedBuilders, job'[w].exts = {}, job'[w].pend = NoWrites,
           job'[w].got = NothingRead
    PROVE  /\ Shape(w)' /\ HalfRead(w)' = {}
           /\ \A k \in Key : job'[w].pend[k] = None /\ Fixer(w, k)'
  BY TenantKeyFacts, KeyFacts, NothingHalfRead DEF Shape, NoWrites, Fixer, RebuildKinds

LEMMA RowKinds ==
    /\ \A e \in Exts : e \in Row /\ e \notin Groups \cup {TenantRow, RoutesRow}
    /\ \A d \in Dids : d \in Row /\ d \notin Exts \cup {TenantRow, RoutesRow} /\ BuilderOf(d) = "did"
    /\ \A f \in Groups \cup Menus \cup Conds : f \in Row /\ f \notin Exts \cup {TenantRow, RoutesRow}
    /\ TenantRow \notin Exts /\ RoutesRow \notin Exts
    /\ TenantRow \notin Groups /\ RoutesRow \notin Groups /\ TenantRow # RoutesRow
  BY RowsDisjoint DEF Row, BuilderOf, TenantRow, RoutesRow

\* Only ring groups have keys of the pattern rg.
LEMMA GroupKeys == \A k \in Key : k[1] = "rg" => k[2] \in Groups
  <1> SUFFICES ASSUME NEW k \in Key, k[1] = "rg" PROVE k[2] \in Groups
    OBVIOUS
  <1>1. "rg" \in PatternsOf(k[2])
    BY KeyFacts
  <1> QED
    BY <1>1 DEF PatternsOf

\* The rows whose keys a change of extension e to state st concerns.
Concerned(e, st) == {e} \cup {g \in Groups : LeavesStale(g, e, st)}

LEMMA ExtCommit ==
    ASSUME TypeOK, NEW e \in Exts, NEW st \in {"on", "off", "gone"},
           pg'[e].st = st,
           \A q \in Row : q # e => /\ pg'[q].st = pg[q].st /\ pg'[q].v = pg[q].v
                                   /\ pg'[q].mem = IF st = "gone" THEN pg[q].mem \ {e} ELSE pg[q].mem
    PROVE  /\ Concerned(e, st) \in SUBSET Row
           /\ \A k \in Key : k[2] \notin Concerned(e, st) => Served(k)' = Served(k)
  <1>1. Concerned(e, st) \in SUBSET Row
    BY DEF Concerned, Row
  <1>2. ASSUME NEW k \in Key, k[2] \notin Concerned(e, st) PROVE Served(k)' = Served(k)
    <2>1. k[2] \in Row /\ k[2] # e /\ TenantRow \in Row /\ TenantRow # e
      BY <1>2, KeyFacts, TenantKeyFacts, RowKinds DEF Concerned
    <2>2. ASSUME k[1] = "rg" PROVE Ringing(k[2])' = Ringing(k[2])
      <3>1. k[2] \in Groups /\ ~LeavesStale(k[2], e, st)
        BY <1>2, <2>2, GroupKeys DEF Concerned
      <3>2. \A f \in Exts : f # e => pg'[f].st = pg[f].st
        BY RowKinds
      <3>3. pg[k[2]].mem \subseteq Exts
        BY <2>1 DEF TypeOK, RowContent
      <3>4. e \in pg[k[2]].mem => ((st = "on") <=> (pg[e].st = "on"))
        BY <3>1 DEF LeavesStale
      <3>5. CASE st # "gone"
        BY <2>1, <3>2, <3>3, <3>4, <3>5 DEF Ringing
      <3>6. CASE st = "gone"
        BY <2>1, <3>2, <3>3, <3>4, <3>6 DEF Ringing
      <3> QED
        BY <3>5, <3>6
    <2> QED
      BY <2>1, <2>2, ServedFrame
  <1> QED
    BY <1>1, <1>2

LEMMA PutExtStep ==
    ASSUME IInv, TypeOK', NEW w \in Workers, NEW e \in Exts, PutExt(w, e)
    PROVE  IInv'
  <1> DEFINE j == [Idle EXCEPT !.kind = "edit", !.exts = {e}]
  <1>1. PICK st \in {"on", "off"} :
            /\ Commit(w, e, st)
            /\ tainted' = [r \in Row |-> \/ tainted[r]
                                         \/ r = e /\ Overlaps(w, e)
                                         \/ LeavesStale(r, e, st)]
    BY DEF PutExt
  <1>2. /\ j \in Job /\ j.kind = "edit" /\ j.purge = {} /\ j.build = {} /\ j.exts = {e}
        /\ j.got = NothingRead /\ \A k \in Key : j.pend[k] = None
    BY JobTypes DEF Idle, Job, NoWrites
  <1>3. Begin(w, j) /\ Free(w) /\ UNCHANGED <<cache, sentinel, up>>
    BY DEF PutExt
  <1> HIDE DEF j
  <1>4. TypeOK /\ e \in Row /\ e \notin {TenantRow, RoutesRow}
    BY RowKinds DEF IInv
  <1>5. /\ job'[w].kind = "edit" /\ job'[w].purge = {} /\ job'[w].build = {}
        /\ job'[w].exts = {e} /\ job'[w].got = NothingRead
        /\ \A k \in Key : job'[w].pend[k] = None
        /\ \A v \in Workers \ {w} : SameWork(v) /\ ~job'[v].alone
    BY <1>2, <1>3, <1>4, BeginFields
  <1>6. /\ pg'[e].st = st
        /\ \A q \in Row : q # e => pg'[q] = pg[q]
    BY <1>1, <1>4 DEF Commit, TypeOK
  <1>7. Shape(w)' /\ HalfRead(w)' = {}
    BY <1>3, <1>5, <1>6, EditShape
  <1>8. /\ Concerned(e, st) \in SUBSET Row /\ e \in Concerned(e, st)
        /\ \A k \in Key : k[2] \notin Concerned(e, st) => Served(k)' = Served(k)
    BY <1>4, <1>6, ExtCommit DEF Concerned
  <1>9. /\ \A q \in Row : tainted[q] => tainted'[q]
        /\ \A q \in Concerned(e, st) : q # e \/ Overlaps(w, q) => tainted'[q]
    BY <1>1, <1>4, <1>8 DEF Concerned
  <1>10. \A k \in Key : k[2] \in Concerned(e, st) => tainted'[k[2]] \/ Fixer(w, k)'
    BY <1>5, <1>9 DEF Fixer
  <1>11. /\ st \in {"on", "off", "gone"} /\ st # "gone" /\ job'[w].kind \in {"idle", "edit"}
         /\ \A q \in Row : q # e => pg'[q].st = pg[q].st /\ pg'[q].v = pg[q].v
         /\ \A q \in Concerned(e, st) : Overlaps(w, q) => tainted'[q]
    BY <1>1, <1>5, <1>6, <1>9
  <1> HIDE DEF Concerned
  <1> QED
    BY <1>3, <1>4, <1>5, <1>6, <1>7, <1>8, <1>9, <1>10, <1>11, CommitAndEdit

LEMMA DeleteExtStep ==
    ASSUME IInv, TypeOK', NEW w \in Workers, NEW e \in Exts, DeleteExt(w, e)
    PROVE  IInv'
  <1> DEFINE a == \A u \in Workers \ {w} : job[u].kind = "idle"
             pend == [k \in Key |-> IF k[2] = e THEN Absent ELSE None]
             j == [Idle EXCEPT !.kind = "edit", !.pend = pend, !.alone = a]
  <1>1. Free(w) /\ UNCHANGED <<cache, sentinel, up>>
    BY DEF DeleteExt
  <1>2. TypeOK /\ e \in Row /\ e \notin {TenantRow, RoutesRow}
    BY RowKinds DEF IInv
  <1>3. /\ j.kind = "edit" /\ j.purge = {} /\ j.build = {} /\ j.exts = {}
        /\ j.got = NothingRead /\ j.pend = pend
    BY DEF Idle
  <1>4. job'[w] = j
    BY DEF DeleteExt
  <1>5. ASSUME NEW v \in Workers \ {w}
        PROVE /\ ~job'[v].alone /\ job'[v].kind = job[v].kind /\ job'[v].purge = job[v].purge
              /\ job'[v].build = job[v].build /\ job'[v].pend = job[v].pend
              /\ job'[v].got = job[v].got
              /\ job'[v].exts = job[v].exts \ {e}
    <2>1. job'[v] = [job[v] EXCEPT !.alone = FALSE, !.exts = @ \ {e}] /\ job[v] \in Job
      BY <1>2 DEF DeleteExt, TypeOK
    <2> QED
      BY <2>1 DEF Job
  <1>6. \A k \in Key : j.pend[k] = IF k[2] = e THEN Absent ELSE None
    BY <1>3
  <1> HIDE DEF j
  <1>7. Shape(w)' /\ HalfRead(w)' = {}
    <2>1. HalfRead(w)' = {}
      BY <1>3, <1>4, NothingHalfRead
    <2>2. job'[w].pend[TenantKey] = None
      BY <1>2, <1>4, <1>6, TenantKeyFacts
    <2> QED
      BY <1>1, <1>3, <1>4, <2>1, <2>2, FreeIsClean DEF Shape
  <1>8. /\ pg'[e].st = "gone"
        /\ \A q \in Row : q # e => /\ pg'[q].st = pg[q].st /\ pg'[q].v = pg[q].v
                                   /\ pg'[q].mem = pg[q].mem \ {e}
    BY <1>2 DEF DeleteExt
  <1>9. tainted' = [r \in Row |-> \/ tainted[r]
                                  \/ r = e /\ Overlaps(w, e)
                                  \/ LeavesStale(r, e, "gone")]
    BY DEF DeleteExt
  <1>10. /\ Concerned(e, "gone") \in SUBSET Row /\ e \in Concerned(e, "gone")
         /\ \A k \in Key : k[2] \notin Concerned(e, "gone") => Served(k)' = Served(k)
    BY <1>2, <1>8, ExtCommit DEF Concerned
  <1>11. /\ \A q \in Row : tainted[q] => tainted'[q]
         /\ \A q \in Concerned(e, "gone") : q # e \/ Overlaps(w, q) => tainted'[q]
    BY <1>2, <1>9, <1>10 DEF Concerned
  <1>12. \A k \in Key : k[2] = e => Fixer(w, k)'
    BY <1>4, <1>6, DocTypes DEF Fixer
  <1>13. \A k \in Key : k[2] = e => Served(k)' = Absent
    BY <1>8 DEF Served
  <1>14. /\ \A k \in Key : job'[w].pend[k] # None => job'[w].pend[k] = Served(k)'
         /\ \A k \in Key : k[2] \in Concerned(e, "gone") => tainted'[k[2]] \/ Fixer(w, k)'
    BY <1>4, <1>6, <1>11, <1>12, <1>13
  <1> QED
    BY <1>1, <1>2, <1>3, <1>4, <1>5, <1>7, <1>8, <1>10, <1>11, <1>14, CommitStep DEF RebuildKinds

\* A row that is neither an extension nor the tenant's is carried by its own keys only.
LEMMA OtherCommit ==
    ASSUME TypeOK, NEW r \in Row \ (Exts \cup {TenantRow}), \A q \in Row : q # r => pg'[q] = pg[q]
    PROVE  \A k \in Key : k[2] \notin {r} => Served(k)' = Served(k)
  <1> SUFFICES ASSUME NEW k \in Key, k[2] # r PROVE Served(k)' = Served(k)
    OBVIOUS
  <1>1. k[2] \in Row /\ TenantRow \in Row /\ pg'[k[2]] = pg[k[2]] /\ pg'[TenantRow] = pg[TenantRow]
    BY KeyFacts, TenantKeyFacts
  <1>2. \A f \in Exts : pg'[f] = pg[f]
    BY RowKinds
  <1>3. pg[k[2]].mem \subseteq Exts
    BY <1>1 DEF TypeOK, RowContent
  <1>4. Ringing(k[2])' = Ringing(k[2])
    BY <1>1, <1>2, <1>3 DEF Ringing
  <1> QED
    BY <1>1, <1>4, ServedFrame

\* The job of a request that runs one builder.
LEMMA BuilderJob ==
    ASSUME TypeOK, NEW w \in Workers, NEW b \in {"did", "routes"},
           Begin(w, [Idle EXCEPT !.kind = "edit", !.build = {b}])
    PROVE  /\ job'[w].kind = "edit" /\ job'[w].purge = {} /\ job'[w].build = {b}
           /\ job'[w].exts = {} /\ job'[w].got = NothingRead
           /\ \A k \in Key : job'[w].pend[k] = None
           /\ \A v \in Workers \ {w} : SameWork(v) /\ ~job'[v].alone
  <1> DEFINE j == [Idle EXCEPT !.kind = "edit", !.build = {b}]
  <1>1. /\ j \in Job /\ j.kind = "edit" /\ j.purge = {} /\ j.build = {b} /\ j.exts = {}
        /\ j.got = NothingRead /\ \A k \in Key : j.pend[k] = None
    BY JobTypes DEF Idle, Job, NoWrites, Builder
  <1>2. Begin(w, j)
    OBVIOUS
  <1> HIDE DEF j
  <1> QED
    BY <1>1, <1>2, BeginFields

LEMMA PutDidStep ==
    ASSUME IInv, TypeOK', NEW w \in Workers, NEW d \in Dids, PutDid(w, d)
    PROVE  IInv'
  <1>1. PICK st \in {"on", "off", "gone"} :
            Commit(w, d, st) /\ tainted' = [tainted EXCEPT ![d] = @ \/ st # "on" \/ Overlaps(w, d)]
    BY DEF PutDid
  <1>2. /\ Begin(w, [Idle EXCEPT !.kind = "edit", !.build = {"did"}])
        /\ Free(w) /\ UNCHANGED <<cache, sentinel, up>>
    BY DEF PutDid
  <1>3. TypeOK /\ d \in Row /\ d \notin Exts \cup {TenantRow, RoutesRow} /\ BuilderOf(d) = "did"
    BY RowKinds DEF IInv
  <1>4. /\ job'[w].kind = "edit" /\ job'[w].purge = {} /\ job'[w].build = {"did"}
        /\ job'[w].exts = {} /\ job'[w].got = NothingRead
        /\ \A k \in Key : job'[w].pend[k] = None
        /\ \A v \in Workers \ {w} : SameWork(v) /\ ~job'[v].alone
    BY <1>2, <1>3, BuilderJob
  <1>5. Shape(w)' /\ HalfRead(w)' = {}
    BY <1>2, <1>4, EditShape
  <1>6. /\ \A q \in Row : tainted[q] => tainted'[q]
        /\ Overlaps(w, d) \/ st # "on" => tainted'[d]
    BY <1>1, <1>3 DEF TypeOK
  <1>7. pg'[d].st = st /\ \A q \in Row : q # d => pg'[q] = pg[q]
    BY <1>1, <1>3 DEF Commit, TypeOK
  <1>8. \A k \in Key : k[2] \in {d} => tainted'[k[2]] \/ Fixer(w, k)'
    BY <1>3, <1>4, <1>6, <1>7 DEF Fixer, Reaches
  <1>9. {d} \in SUBSET Row /\ \A q \in {d} : q = d
    BY <1>3
  <1>10. \A k \in Key : k[2] \notin {d} => Served(k)' = Served(k)
    BY <1>3, <1>7, OtherCommit
  <1> QED
    BY <1>2, <1>3, <1>4, <1>5, <1>6, <1>7, <1>8, <1>9, <1>10, CommitAndEdit

LEMMA PutRoutesStep ==
    ASSUME IInv, TypeOK', NEW w \in Workers, PutRoutes(w)
    PROVE  IInv'
  <1>1. /\ Commit(w, RoutesRow, "on") /\ Free(w) /\ UNCHANGED <<cache, sentinel, up>>
        /\ Begin(w, [Idle EXCEPT !.kind = "edit", !.build = {"routes"}])
        /\ tainted' = [tainted EXCEPT ![RoutesRow] = @ \/ Overlaps(w, RoutesRow)]
    BY DEF PutRoutes
  <1>2. /\ TypeOK /\ RoutesRow \in Row /\ RoutesRow \notin Exts \cup {TenantRow}
        /\ BuilderOf(RoutesRow) = "routes"
    BY RowKinds, TenantKeyFacts DEF IInv
  <1>3. /\ job'[w].kind = "edit" /\ job'[w].purge = {} /\ job'[w].build = {"routes"}
        /\ job'[w].exts = {} /\ job'[w].got = NothingRead
        /\ \A k \in Key : job'[w].pend[k] = None
        /\ \A v \in Workers \ {w} : SameWork(v) /\ ~job'[v].alone
    BY <1>1, <1>2, BuilderJob
  <1>4. Shape(w)' /\ HalfRead(w)' = {}
    BY <1>1, <1>3, EditShape
  <1>5. /\ \A q \in Row : tainted[q] => tainted'[q]
        /\ Overlaps(w, RoutesRow) => tainted'[RoutesRow]
    BY <1>1, <1>2 DEF TypeOK
  <1>6. pg'[RoutesRow].st = "on" /\ \A q \in Row : q # RoutesRow => pg'[q] = pg[q]
    BY <1>1, <1>2 DEF Commit, TypeOK
  <1>7. \A k \in Key : k[2] \in {RoutesRow} => Fixer(w, k)'
    BY <1>2, <1>3, <1>6 DEF Fixer, Reaches
  <1>8. \A k \in Key : k[2] \notin {RoutesRow} => Served(k)' = Served(k)
    BY <1>2, <1>6, OtherCommit
  <1>9. {RoutesRow} \in SUBSET Row /\ \A q \in {RoutesRow} : q = RoutesRow
    BY <1>2
  <1> QED
    BY <1>1, <1>2, <1>3, <1>4, <1>5, <1>6, <1>7, <1>8, <1>9, CommitAndEdit

\* The job of a request, of the watchdog or of the startup that rebuilds the tenant.
LEMMA RebuildJob ==
    ASSUME TypeOK, NEW w \in Workers, NEW kind \in RebuildKinds, Begin(w, Rebuild(kind))
    PROVE  /\ job'[w].kind = kind /\ job'[w].purge = UsedPatterns /\ job'[w].build = UsedBuilders
           /\ job'[w].exts = {} /\ job'[w].got = NothingRead /\ job'[w].pend = NoWrites
           /\ job'[w].alone => \A u \in Workers \ {w} : job[u].kind = "idle"
           /\ \A v \in Workers \ {w} : SameWork(v) /\ ~job'[v].alone
  BY JobTypes, RebuildFields, BeginFields

\* A request that rebuilds the tenant after it has changed row r.
LEMMA CommitAndRebuild ==
    ASSUME IInv, TypeOK', NEW w \in Workers, NEW r \in Row \ Exts, NEW st \in {"on", "off", "gone"},
           NEW R \in SUBSET Row, r \in R, Free(w), pg'[r].st = st,
           \A q \in Row : q # r => pg'[q] = pg[q],
           \A k \in Key : k[2] \notin R => Served(k)' = Served(k),
           r \in {TenantRow, RoutesRow} => st = "on",
           UNCHANGED <<cache, sentinel, up>>, Begin(w, Rebuild("rebuild")),
           \A q \in Row : tainted[q] => tainted'[q],
           \A q \in R : Overlaps(w, q) => tainted'[q]
    PROVE  IInv'
  <1>1. TypeOK /\ "rebuild" \in RebuildKinds
    BY DEF IInv, RebuildKinds
  <1>2. /\ job'[w].kind = "rebuild" /\ job'[w].purge = UsedPatterns /\ job'[w].build = UsedBuilders
        /\ job'[w].exts = {} /\ job'[w].got = NothingRead /\ job'[w].pend = NoWrites
        /\ job'[w].alone => \A u \in Workers \ {w} : job[u].kind = "idle"
        /\ \A v \in Workers \ {w} : SameWork(v) /\ ~job'[v].alone
    BY <1>1, RebuildJob
  <1>3. up'[Home[w]]
    BY FreeIsClean
  <1>4. /\ Shape(w)' /\ HalfRead(w)' = {}
        /\ \A k \in Key : job'[w].pend[k] = None /\ Fixer(w, k)'
    BY <1>1, <1>2, <1>3, RebuildShape
  <1>6. \A v \in Workers \ {w} : r \notin job[v].exts
    BY <1>1 DEF TypeOK, Job
  <1> QED
    BY <1>1, <1>2, <1>4, <1>6, CommitStep DEF SameWork

LEMMA PutFlowStep ==
    ASSUME IInv, TypeOK', NEW w \in Workers, NEW f \in Groups \cup Menus \cup Conds, PutFlow(w, f)
    PROVE  IInv'
  <1>1. PICK st \in {"on", "off", "gone"} : \E mem \in Memberships(f, st) :
            pg' = [pg EXCEPT ![f] = [st |-> st, v |-> pg[f].v + 1, mem |-> mem]]
    BY DEF PutFlow
  <1>2. TypeOK /\ f \in Row \ (Exts \cup {TenantRow}) /\ f \notin {TenantRow, RoutesRow}
    BY RowKinds DEF IInv
  <1>3. pg'[f].st = st /\ \A q \in Row : q # f => pg'[q] = pg[q]
    BY <1>1, <1>2 DEF TypeOK
  <1>4. \A k \in Key : k[2] \notin {f} => Served(k)' = Served(k)
    BY <1>2, <1>3, OtherCommit
  <1>5. /\ \A q \in Row : tainted[q] => tainted'[q]
        /\ Overlaps(w, f) => tainted'[f]
    BY <1>2 DEF PutFlow, TypeOK
  <1>6. Free(w) /\ Begin(w, Rebuild("rebuild")) /\ UNCHANGED <<cache, sentinel, up>>
    BY DEF PutFlow
  <1>7. {f} \in SUBSET Row /\ f \in {f} /\ f \in Row \ Exts /\ \A q \in {f} : q = f
    BY <1>2
  <1> QED
    BY <1>2, <1>3, <1>4, <1>5, <1>6, <1>7, CommitAndRebuild

\* The tenant's settings are carried by its own key and by those of its extensions.
LEMMA TenantCommit ==
    ASSUME TypeOK, \A q \in Row : q # TenantRow => pg'[q] = pg[q]
    PROVE  /\ Exts \cup {TenantRow} \in SUBSET Row
           /\ \A k \in Key : k[2] \notin Exts \cup {TenantRow} => Served(k)' = Served(k)
  <1>1. Exts \cup {TenantRow} \in SUBSET Row
    BY DEF Row
  <1>2. ASSUME NEW k \in Key, k[2] \notin Exts \cup {TenantRow} PROVE Served(k)' = Served(k)
    <2>1. k[2] \in Row /\ pg'[k[2]] = pg[k[2]]
      BY <1>2, KeyFacts
    <2>2. \A f \in Exts : pg'[f] = pg[f]
      BY RowKinds
    <2>3. pg[k[2]].mem \subseteq Exts
      BY <2>1 DEF TypeOK, RowContent
    <2>4. Ringing(k[2])' = Ringing(k[2])
      BY <2>1, <2>2, <2>3 DEF Ringing
    <2> QED
      BY <1>2, <2>1, <2>4, ServedFrame
  <1> QED
    BY <1>1, <1>2

LEMMA PutTenantStep ==
    ASSUME IInv, TypeOK', NEW w \in Workers, PutTenant(w)
    PROVE  IInv'
  <1>1. TypeOK /\ TenantRow \in Row \ Exts /\ TenantRow \in Exts \cup {TenantRow}
    BY RowKinds, TenantKeyFacts DEF IInv
  <1>2. /\ Commit(w, TenantRow, "on") /\ Free(w) /\ UNCHANGED <<cache, sentinel, up>>
        /\ Begin(w, Rebuild("rebuild"))
        /\ tainted' = [r \in Row |-> tainted[r] \/ (r \in Exts \cup {TenantRow} /\ Overlaps(w, r))]
    BY DEF PutTenant
  <1>3. pg'[TenantRow].st = "on" /\ \A q \in Row : q # TenantRow => pg'[q] = pg[q]
    BY <1>1, <1>2 DEF Commit, TypeOK
  <1>4. /\ Exts \cup {TenantRow} \in SUBSET Row
        /\ \A k \in Key : k[2] \notin Exts \cup {TenantRow} => Served(k)' = Served(k)
    BY <1>1, <1>3, TenantCommit
  <1>5. /\ \A q \in Row : tainted[q] => tainted'[q]
        /\ \A q \in Exts \cup {TenantRow} : Overlaps(w, q) => tainted'[q]
    BY <1>2, <1>4
  <1> QED
    BY <1>1, <1>2, <1>3, <1>4, <1>5, CommitAndRebuild

LEMMA PutDedicatedTenantStep ==
    ASSUME IInv, TypeOK', NEW w \in Workers, PutDedicatedTenant(w)
    PROVE  IInv'
  <1>1. /\ Commit(w, TenantRow, "on") /\ Free(w) /\ UNCHANGED <<cache, sentinel, up>>
        /\ job' = [v \in Workers |-> [job[v] EXCEPT !.alone = FALSE]]
        /\ tainted' = [r \in Row |-> tainted[r] \/ r \in Exts \cup {TenantRow}]
    BY DEF PutDedicatedTenant
  <1>2. TypeOK /\ TenantRow \in Row /\ TenantRow \notin Exts
    BY RowKinds, TenantKeyFacts DEF IInv
  <1>3. ASSUME NEW v \in Workers PROVE SameWork(v) /\ ~job'[v].alone
    <2>1. job[v] \in Job /\ job'[v] = [job[v] EXCEPT !.alone = FALSE]
      BY <1>1, <1>2 DEF TypeOK
    <2>2. job'[v].alone = FALSE
      BY <2>1 DEF Job
    <2> QED
      BY <2>1, <2>2 DEF SameWork, Job
  <1>4. job[w].kind = "idle" /\ Shape(w) /\ TenantRow \notin job[w].exts
    BY FreeIsClean, <1>1, <1>2 DEF IInv, JobShape, Shape
  <1>5. Shape(w)' /\ HalfRead(w)' = {} /\ \A k \in Key : job'[w].pend[k] = None
    <2>1. HalfRead(w)' = HalfRead(w)
      BY <1>3 DEF HalfRead, SameWork
    <2> QED
      BY <1>1, <1>3, <1>4, <2>1, TenantKeyFacts DEF Shape, SameWork
  <1>6. pg'[TenantRow].st = "on" /\ \A q \in Row : q # TenantRow => pg'[q] = pg[q]
    BY <1>1, <1>2 DEF Commit, TypeOK
  <1>7. /\ Exts \cup {TenantRow} \in SUBSET Row /\ TenantRow \in Exts \cup {TenantRow}
        /\ \A k \in Key : k[2] \notin Exts \cup {TenantRow} => Served(k)' = Served(k)
    BY <1>2, <1>6, TenantCommit
  <1>8. /\ \A q \in Row : tainted[q] => tainted'[q]
        /\ \A q \in Exts \cup {TenantRow} : tainted'[q]
    BY <1>1, <1>7
  <1>9. job'[w].kind = "idle"
    BY <1>3, <1>4 DEF SameWork
  <1> QED
    BY <1>1, <1>2, <1>3, <1>4, <1>5, <1>6, <1>7, <1>8, <1>9, CommitAndEdit

-----------------------------------------------------------------------------
(* Starts, the watchdog and the rebuild request: Postgres does not change. *)

LEMMA ServedSame ==
    UNCHANGED pg => \A k \in Key : Served(k)' = Served(k) /\ (Reaches(k[2])' <=> Reaches(k[2]))
  BY DEF Served, Ringing, Reaches

\* Nor does what a job has read of an extension turn false.
LEMMA HalfSame ==
    ASSUME UNCHANGED pg, NEW w \in Workers, job'[w].got = job[w].got
    PROVE  HalfRead(w)' = HalfRead(w) /\ \A e : ReadTrue(w, e)' <=> ReadTrue(w, e)
  BY DEF HalfRead, ReadTrue

LEMMA RebuildStep ==
    ASSUME IInv, TypeOK', NEW w \in Workers, NEW kind \in RebuildKinds, Begin(w, Rebuild(kind)),
           up'[Home[w]], \A p \in Procs : up[p] => up'[p],
           UNCHANGED <<pg, cache, tainted>>
    PROVE  IInv'
  <1>1. TypeOK
    BY DEF IInv
  <1>2. /\ job'[w].kind = kind /\ job'[w].purge = UsedPatterns /\ job'[w].build = UsedBuilders
        /\ job'[w].exts = {} /\ job'[w].got = NothingRead /\ job'[w].pend = NoWrites
        /\ job'[w].alone => \A u \in Workers \ {w} : job[u].kind = "idle"
        /\ \A v \in Workers \ {w} : SameWork(v) /\ ~job'[v].alone
    BY <1>1, RebuildJob
  <1>3. /\ Shape(w)' /\ HalfRead(w)' = {}
        /\ \A k \in Key : job'[w].pend[k] = None /\ Fixer(w, k)'
    BY <1>2, RebuildShape
  <1>4. JobShape'
    <2> SUFFICES ASSUME NEW v \in Workers \ {w} PROVE Shape(v)'
      BY <1>3 DEF JobShape
    <2>1. Home[v] \in Procs /\ job'[v].got = job[v].got
      BY <1>2, HomeAndBounds DEF SameWork
    <2>2. HalfRead(v)' = HalfRead(v)
      BY <2>1, HalfSame
    <2> QED
      BY <1>2, <2>1, <2>2 DEF IInv, JobShape, Shape, SameWork
  <1>5. /\ \A k \in Key : Served(k)' = Served(k)
        /\ \A v \in Workers \ {w} : /\ HalfRead(v)' = HalfRead(v)
                                     /\ \A e : ReadTrue(v, e)' <=> ReadTrue(v, e)
    BY <1>2, ServedSame, HalfSame DEF SameWork
  <1>6. PendingTrue'
    BY <1>2, <1>3, <1>5, KeyFacts DEF IInv, PendingTrue, SameWork
  <1>7. Held'
    BY <1>3 DEF Held
  <1>8. Solo'
    BY <1>2, <1>3, KeyFacts DEF Solo, SameWork
  <1> QED
    BY <1>4, <1>6, <1>7, <1>8 DEF IInv, TenantAndRoutesOn

LEMMA StartStep ==
    ASSUME IInv, TypeOK', NEW w \in Workers,
           RebuildCache(w) \/ Start(w) \/ Watchdog(w)
    PROVE  IInv'
  <1>1. /\ \E kind \in RebuildKinds : Begin(w, Rebuild(kind))
        /\ UNCHANGED <<pg, cache, tainted>>
    BY DEF RebuildCache, Start, Watchdog, RebuildKinds
  <1>2. up' = up \/ up' = [up EXCEPT ![Home[w]] = TRUE]
    BY DEF RebuildCache, Start, Watchdog
  <1>3. up'[Home[w]] /\ \A p \in Procs : up[p] => up'[p]
    <2>1. up \in [Procs -> BOOLEAN] /\ Home[w] \in Procs
      BY HomeAndBounds DEF IInv, TypeOK
    <2>2. Free(w) \/ up' = [up EXCEPT ![Home[w]] = TRUE]
      BY DEF RebuildCache, Start, Watchdog
    <2> QED
      BY <1>2, <2>1, <2>2 DEF Free, RebuildCache, Watchdog
  <1> QED
    BY <1>1, <1>3, RebuildStep

-----------------------------------------------------------------------------
(* The steps of a job. *)

\* The bookkeeping every step of a job shares: the invariant is re-established
\* for the other jobs, and is left to show for the job that moved.
LEMMA WorkStep ==
    ASSUME IInv, TypeOK', NEW w \in Workers, job[w].kind # "idle",
           UNCHANGED <<pg, up>>,
           \A v \in Workers \ {w} : job'[v] = job[v],
           \A q \in Row : tainted[q] => tainted'[q],
           Shape(w)',
           \A k \in Key : job'[w].pend[k] # None /\ ~tainted'[k[2]]
                              => job'[w].pend[k] = Served(k),
           \A e \in HalfRead(w)' : ~tainted'[e] => ReadTrue(w, e)',
           \A k \in Key :
               \/ tainted'[k[2]]
               \/ Truthful(k)'
               \/ Fixer(w, k)'
               \/ ~Truthful(k) /\ ~Fixer(w, k),
           job'[w].alone => job[w].alone,
           job'[w].alone /\ job'[w].kind \in RebuildKinds =>
               /\ \A e \in HalfRead(w)' : ReadTrue(w, e)'
               /\ \A k \in Key :
                     /\ job'[w].pend[k] # None => job'[w].pend[k] = Served(k)
                     /\ k[1] \notin job'[w].purge => cache'[k] \in {Absent, Served(k)}
                     /\ Fixer(w, k)' \/ Truthful(k)',
           job'[w].kind \in {job[w].kind, "idle"}
    PROVE  IInv'
  <1> USE DEF IInv
  <1>1. \A k \in Key : Served(k)' = Served(k)
    BY ServedSame
  <1>h. \A v \in Workers \ {w} : /\ HalfRead(v)' = HalfRead(v)
                                 /\ \A e : ReadTrue(v, e)' <=> ReadTrue(v, e)
    BY HalfSame
  <1>2. JobShape'
    BY <1>h DEF JobShape, Shape
  <1>3. PendingTrue'
    <2>1. \A v \in Workers, e \in Exts : e \in HalfRead(v)' /\ ~tainted'[e] => ReadTrue(v, e)'
      BY <1>h DEF PendingTrue, Row
    <2>2. \A v \in Workers, k \in Key : job'[v].pend[k] # None /\ ~tainted'[k[2]]
                                           => job'[v].pend[k] = Served(k)'
      BY <1>1, KeyFacts DEF PendingTrue
    <2> QED
      BY <2>1, <2>2 DEF PendingTrue, HalfRead
  <1>4. \A v \in Workers \ {w}, k \in Key : Fixer(v, k)' <=> Fixer(v, k)
    BY <1>h DEF Fixer, Reaches
  <1>5. Held'
    <2> SUFFICES ASSUME NEW k \in Key
                 PROVE  \/ tainted'[k[2]]
                        \/ Truthful(k)'
                        \/ \E p \in Procs : ~up'[p]
                        \/ \E v \in Workers : Fixer(v, k)'
      BY DEF Held
    <2>1. \/ tainted[k[2]]
          \/ Truthful(k)
          \/ \E p \in Procs : ~up[p]
          \/ \E v \in Workers : Fixer(v, k)
      BY DEF Held
    <2>2. k[2] \in Row
      BY KeyFacts
    <2> QED
      BY <1>4, <2>1, <2>2
  <1>6. Solo'
    <2> SUFFICES ASSUME NEW v \in Workers, job'[v].alone, job'[v].kind \in RebuildKinds
                 PROVE  /\ \A u \in Workers \ {v} : job'[u].kind = "idle"
                        /\ \A e \in HalfRead(v)' : ReadTrue(v, e)'
                        /\ \A k \in Key :
                              /\ job'[v].pend[k] # None => job'[v].pend[k] = Served(k)'
                              /\ k[1] \notin job'[v].purge => cache'[k] \in {Absent, Served(k)'}
                              /\ Fixer(v, k)' \/ Truthful(k)'
      BY DEF Solo
    <2>1. v = w
      <3>1. CASE v # w
        <4>1. job[v].alone /\ job[v].kind \in RebuildKinds
          BY <3>1
        <4> QED
          BY <3>1, <4>1 DEF Solo
      <3> QED
        BY <3>1
    <2>2. \A u \in Workers \ {v} : job'[u].kind = "idle"
      BY <2>1 DEF Solo, RebuildKinds
    <2> QED
      BY <1>1, <2>1, <2>2, KeyFacts
  <1>7. TenantAndRoutesOn'
    BY DEF TenantAndRoutesOn
  <1> QED
    BY <1>2, <1>3, <1>5, <1>6, <1>7

LEMMA PurgeStep ==
    ASSUME IInv, TypeOK', NEW w \in Workers, Purge(w)
    PROVE  IInv'
  <1> USE DEF IInv
  <1>1. PICK p \in job[w].purge :
            /\ cache' = [k \in Key |-> IF k[1] = p THEN Absent ELSE cache[k]]
            /\ job' = [job EXCEPT ![w] = Purged(w, p)]
            /\ UNCHANGED <<pg, up, tainted>>
    BY DEF Purge
  <1>2. /\ job'[w].purge = job[w].purge \ {p} /\ job'[w].kind = job[w].kind
        /\ job'[w].build = job[w].build /\ job'[w].exts = job[w].exts
        /\ job'[w].got = job[w].got
        /\ job'[w].pend = job[w].pend /\ job'[w].alone = job[w].alone
        /\ \A v \in Workers \ {w} : job'[v] = job[v]
    <2>1. p \in Pattern /\ job \in [Workers -> Job]
      BY JobSteps DEF TypeOK
    <2>2. job'[w] = Purged(w, p) /\ \A v \in Workers \ {w} : job'[v] = job[v]
      BY <1>1, <2>1
    <2> QED
      BY <2>1, <2>2, StepFields
  <1>3. /\ job[w].build = UsedBuilders /\ job[w].exts = {} /\ job[w].kind # "idle"
        /\ HalfRead(w) = {} /\ HalfRead(w)' = {} /\ \A k \in Key : job[w].pend[k] = None
    BY <1>1, <1>2, HalfSame DEF JobShape, Shape
  <1>4. Shape(w)'
    BY <1>1, <1>2, <1>3, TenantKeyFacts DEF JobShape, Shape
  <1>5. ASSUME NEW k \in Key
        PROVE  \/ Truthful(k)'
               \/ Fixer(w, k)'
               \/ ~Truthful(k) /\ ~Fixer(w, k)
    <2>1. k[2] \in Row /\ Served(k)' = Served(k) /\ (Reaches(k[2])' <=> Reaches(k[2]))
      BY <1>1, KeyFacts, ServedSame
    <2>2. CASE k[1] = p
      <3>1. cache'[k] = Absent
        BY <1>1, <2>2
      <3>2. BuilderOf(k[2]) \in job'[w].build
        BY <1>2, <1>3, KeyFacts
      <3> QED
        BY <2>1, <3>1, <3>2, PgTypes DEF Fixer, Truthful
    <2>3. CASE k[1] # p
      <3>1. cache'[k] = cache[k]
        BY <1>1, <2>3
      <3>2. cache[TenantKey] = Absent => cache'[TenantKey] = Absent
        BY <1>1, TenantKeyFacts
      <3>3. Truthful(k) => Truthful(k)'
        BY <2>1, <3>1, <3>2 DEF Truthful
      <3>4. Fixer(w, k) => Fixer(w, k)'
        BY <1>2, <1>3, <2>1, <2>3 DEF Fixer
      <3> QED
        BY <3>3, <3>4
    <2> QED
      BY <2>2, <2>3
  <1>6. ASSUME job'[w].alone, job'[w].kind \in RebuildKinds, NEW k \in Key
        PROVE  /\ k[1] \notin job'[w].purge => cache'[k] \in {Absent, Served(k)}
               /\ Fixer(w, k)' \/ Truthful(k)'
    <2>1. /\ k[1] \notin job[w].purge => cache[k] \in {Absent, Served(k)}
          /\ Fixer(w, k) \/ Truthful(k)
      BY <1>2, <1>6 DEF Solo
    <2> QED
      BY <1>1, <1>2, <1>5, <2>1
  <1> QED
    BY <1>1, <1>2, <1>3, <1>4, <1>5, <1>6, WorkStep

\* The tenant's builder comes first and the extensions' last.
LEMMA BuildOrder ==
    /\ BuildRank["tenant"] = 1 /\ BuildRank["ext"] = 7
    /\ \A b \in Builder : BuildRank[b] \in 1..7
  <1>1. /\ BuildRank["tenant"] = 1 /\ BuildRank["routes"] = 2 /\ BuildRank["did"] = 3
        /\ BuildRank["rg"] = 4 /\ BuildRank["ivr"] = 5 /\ BuildRank["tc"] = 6
        /\ BuildRank["ext"] = 7
    BY DEF BuildRank, Builder
  <1> QED
    BY <1>1 DEF Builder

LEMMA ReadRowsStep ==
    ASSUME IInv, TypeOK', NEW w \in Workers, ReadRows(w)
    PROVE  IInv'
  <1> USE DEF IInv
  <1>1. PICK b \in job[w].build :
            /\ \A c \in job[w].build \ {b} : BuildRank[b] < BuildRank[c]
            /\ job' = [job EXCEPT ![w] = RowsRead(w, b)]
            /\ job[w].purge = {} /\ NoPending(w)
            /\ UNCHANGED <<pg, cache, up, tainted>>
    BY DEF ReadRows
  <1>2. b \in Builder /\ job[w].build \subseteq Builder /\ job \in [Workers -> Job]
    BY JobSteps DEF TypeOK
  <1>3. /\ job'[w].purge = {} /\ job'[w].kind = job[w].kind /\ job'[w].alone = job[w].alone
        /\ job'[w].build = job[w].build \ {b} /\ job'[w].got = job[w].got
        /\ job'[w].exts = IF b = "ext" THEN {e \in Exts : pg[e].st # "gone"} ELSE job[w].exts
        /\ job'[w].pend = IF b = "ext" THEN NoWrites ELSE Rendered(b)
        /\ \A v \in Workers \ {w} : job'[v] = job[v]
    <2>1. job'[w] = RowsRead(w, b) /\ \A v \in Workers \ {w} : job'[v] = job[v]
      BY <1>1, <1>2
    <2>2. /\ RowsRead(w, b).purge = job[w].purge /\ RowsRead(w, b).kind = job[w].kind
          /\ RowsRead(w, b).build = job[w].build \ {b} /\ RowsRead(w, b).got = job[w].got
          /\ RowsRead(w, b).exts = IF b = "ext" THEN {e \in Exts : pg[e].st # "gone"}
                                               ELSE job[w].exts
          /\ RowsRead(w, b).pend = IF b = "ext" THEN NoWrites ELSE Rendered(b)
          /\ RowsRead(w, b).alone = job[w].alone
      BY <1>2, StepFields
    <2> QED
      BY <1>1, <2>1, <2>2
  <1>4. /\ job[w].kind # "idle" /\ job[w].exts = {} /\ \A k \in Key : job[w].pend[k] = None
        /\ HalfRead(w) = {} /\ HalfRead(w)' = {}
    BY <1>1, <1>3, HalfSame DEF JobShape, Shape, NoPending, NoWrites
  <1>5. ASSUME NEW k \in Key
        PROVE  /\ k[2] \in Row
               /\ job'[w].pend[k] = IF b # "ext" /\ BuilderOf(k[2]) = b /\ pg[k[2]].st = "on"
                                    THEN Served(k) ELSE None
               /\ job'[w].pend[k] # None => job'[w].pend[k] = Served(k)
    BY <1>3, KeyFacts DEF NoWrites, Rendered
  <1>6. "tenant" \in job[w].build => b = "tenant"
    <2> SUFFICES ASSUME "tenant" \in job[w].build, b # "tenant" PROVE FALSE
      OBVIOUS
    <2>1. BuildRank[b] < BuildRank["tenant"]
      BY <1>1
    <2> QED
      BY <1>2, <2>1, BuildOrder
  <1>7. b = "ext" => job[w].build = {"ext"}
    <2> SUFFICES ASSUME b = "ext", NEW c \in job[w].build \ {b} PROVE FALSE
      OBVIOUS
    <2>1. BuildRank["ext"] < BuildRank[c] /\ c \in Builder
      BY <1>1, <1>2
    <2>2. BuildRank["ext"] = 7 /\ BuildRank[c] \in 1..7
      BY <2>1, BuildOrder
    <2> QED
      BY <2>1, <2>2
  <1>8. Shape(w)'
    <2>1. job'[w].pend[TenantKey] # None => b = "tenant"
      BY <1>5, TenantKeyFacts
    <2>2. \A e \in job'[w].exts : b = "ext" /\ pg[e].st # "gone"
      BY <1>3, <1>4
    <2> QED
      BY <1>1, <1>3, <1>4, <1>6, <1>7, <2>1, <2>2 DEF JobShape, Shape
  <1>9. ASSUME NEW k \in Key
        PROVE  /\ Truthful(k) => Truthful(k)'
               /\ Fixer(w, k) => Fixer(w, k)'
    <2>1. Truthful(k) => Truthful(k)'
      BY <1>1, <1>5, ServedSame DEF Truthful
    <2>2. ASSUME Fixer(w, k) PROVE Fixer(w, k)'
      <3>1. BuilderOf(k[2]) \in job[w].build /\ Reaches(k[2])
        BY <1>1, <1>4, <2>2 DEF Fixer
      <3>2. Reaches(k[2])' /\ k[2] \in Row
        BY <1>1, <1>5, <3>1, ServedSame
      <3>3. CASE BuilderOf(k[2]) # b
        BY <1>3, <3>1, <3>2, <3>3 DEF Fixer
      <3>4. CASE BuilderOf(k[2]) = b /\ b = "ext"
        BY <1>3, <3>1, <3>2, <3>4, ExtBuilder DEF Fixer, Reaches
      <3>5. CASE BuilderOf(k[2]) = b /\ b # "ext"
        <4>1. pg[k[2]].st = "on" /\ Served(k) # None
          BY <3>1, <3>2, <3>5, ExtBuilder, PgTypes DEF Reaches
        <4> QED
          BY <1>5, <3>5, <4>1 DEF Fixer
      <3> QED
        BY <3>3, <3>4, <3>5
    <2> QED
      BY <2>1, <2>2
  <1>10. ASSUME job'[w].alone, job'[w].kind \in RebuildKinds, NEW k \in Key
         PROVE  cache'[k] \in {Absent, Served(k)} /\ (Fixer(w, k)' \/ Truthful(k)')
    BY <1>1, <1>3, <1>9, <1>10 DEF Solo
  <1> QED
    BY <1>1, <1>3, <1>4, <1>5, <1>8, <1>9, <1>10, WorkStep

LEMMA ReadExtStep ==
    ASSUME IInv, TypeOK', NEW w \in Workers, ReadExt(w)
    PROVE  IInv'
  <1> USE DEF IInv
  <1>1. PICK e \in job[w].exts :
            /\ job' = [job EXCEPT ![w] = ExtRead(w, e)]
            /\ job[w].purge = {} /\ job[w].build = {} /\ NoPending(w) /\ HalfRead(w) = {}
            /\ UNCHANGED <<pg, cache, up, tainted>>
    BY DEF ReadExt
  <1>2. e \in Exts /\ e \in Row /\ job \in [Workers -> Job] /\ pg[e].st # "gone"
    BY <1>1, JobSteps DEF TypeOK, JobShape, Shape, Row
  <1>3. /\ job'[w].purge = {} /\ job'[w].kind = job[w].kind /\ job'[w].alone = job[w].alone
        /\ job'[w].build = {} /\ job'[w].exts = job[w].exts \ {e} /\ job'[w].pend = job[w].pend
        /\ \A f \in Exts : job'[w].got[f] = IF f # e THEN Unseen
                                           ELSE IF pg[e].st = "on" THEN pg[e].v ELSE Disabled
        /\ \A v \in Workers \ {w} : job'[v] = job[v]
    <2>1. job'[w] = ExtRead(w, e) /\ \A v \in Workers \ {w} : job'[v] = job[v]
      BY <1>1, <1>2
    <2> QED
      BY <1>1, <1>2, <2>1, StepFields
  <1>4. job[w].kind # "idle" /\ \A k \in Key : job[w].pend[k] = None
    BY <1>1 DEF JobShape, Shape, NoPending, NoWrites
  <1>5. HalfRead(w)' = {e} /\ ReadTrue(w, e)'
    <2>1. pg[e].v \in Nat
      BY <1>2 DEF TypeOK, RowContent
    <2> QED
      BY <1>1, <1>2, <1>3, <2>1 DEF HalfRead, ReadTrue, Unseen, Disabled
  <1>6. Shape(w)'
    BY <1>1, <1>2, <1>3, <1>4, <1>5, TenantKeyFacts DEF JobShape, Shape
  <1>7. ASSUME NEW k \in Key
        PROVE  /\ Truthful(k) => Truthful(k)'
               /\ Fixer(w, k) => Fixer(w, k)'
    <2>1. Truthful(k) => Truthful(k)'
      BY <1>1, ServedSame DEF Truthful
    <2>2. Fixer(w, k) => k[2] \in job[w].exts
      BY <1>1, <1>4 DEF Fixer
    <2>3. Fixer(w, k) => Fixer(w, k)'
      BY <1>3, <1>5, <2>2 DEF Fixer
    <2> QED
      BY <2>1, <2>3
  <1>8. ASSUME job'[w].alone, job'[w].kind \in RebuildKinds, NEW k \in Key
        PROVE  cache'[k] \in {Absent, Served(k)} /\ (Fixer(w, k)' \/ Truthful(k)')
    BY <1>1, <1>3, <1>7, <1>8 DEF Solo
  <1> QED
    BY <1>1, <1>3, <1>4, <1>5, <1>6, <1>7, <1>8, WorkStep

LEMMA ReadSettingsStep ==
    ASSUME IInv, TypeOK', NEW w \in Workers, ReadSettings(w)
    PROVE  IInv'
  <1> USE DEF IInv
  <1>1. PICK e \in HalfRead(w) :
            /\ job' = [job EXCEPT ![w] = SettingsRead(w, e)]
            /\ UNCHANGED <<pg, cache, up, tainted>>
    BY DEF ReadSettings
  <1>2. /\ e \in Exts /\ job \in [Workers -> Job] /\ job[w].kind # "idle"
        /\ job[w].purge = {} /\ job[w].build = {} /\ \A k \in Key : job[w].pend[k] = None
        /\ HalfRead(w) = {e}
    BY <1>1 DEF TypeOK, JobShape, Shape, HalfRead
  <1>3. /\ job'[w].purge = {} /\ job'[w].kind = job[w].kind /\ job'[w].alone = job[w].alone
        /\ job'[w].build = {} /\ job'[w].exts = job[w].exts /\ job'[w].got = NothingRead
        /\ \A k \in Key : job'[w].pend[k] =
               IF k[2] # e THEN None
               ELSE IF job[w].got[e] = Disabled THEN Absent
               ELSE [own |-> job[w].got[e], settings |-> pg[TenantRow].v, members |-> {}]
        /\ \A v \in Workers \ {w} : job'[v] = job[v]
    <2>1. job'[w] = SettingsRead(w, e) /\ \A v \in Workers \ {w} : job'[v] = job[v]
      BY <1>1, <1>2
    <2> QED
      BY <1>2, <2>1, StepFields
  <1>4. HalfRead(w)' = {}
    BY <1>3, NothingHalfRead
  <1>5. \A k \in Key : k[2] = e => job'[w].pend[k] # None
    <2>1. job[w].got[e] # Unseen /\ Disabled # Unseen
      BY <1>1 DEF HalfRead, Disabled, Unseen
    <2> QED
      BY <1>3, <2>1, DocTypes DEF None, Unseen
  <1>6. ASSUME NEW k \in Key, ReadTrue(w, e), job'[w].pend[k] # None
        PROVE  job'[w].pend[k] = Served(k)
    <2>1. k[2] = e /\ k[1] # "rg" /\ pg[e].v # Disabled
      BY <1>2, <1>3, <1>6, ExtKeys, KeyFacts DEF TypeOK, RowContent, Disabled
    <2>2. CASE pg[e].st = "on"
      BY <1>2, <1>3, <1>6, <2>1, <2>2 DEF ReadTrue, Served
    <2>3. CASE pg[e].st # "on"
      BY <1>2, <1>3, <1>6, <2>1, <2>3 DEF ReadTrue, Served
    <2> QED
      BY <2>2, <2>3
  <1>7. Shape(w)'
    <2>1. TenantKey[2] # e
      BY <1>2, TenantKeyFacts, RowKinds
    <2> QED
      BY <1>1, <1>2, <1>3, <1>4, <2>1, TenantKeyFacts DEF JobShape, Shape
  <1>8. ASSUME NEW k \in Key
        PROVE  /\ Truthful(k) => Truthful(k)'
               /\ Fixer(w, k) => Fixer(w, k)'
    <2>1. Truthful(k) => Truthful(k)'
      BY <1>1, ServedSame DEF Truthful
    <2>2. Fixer(w, k) => k[2] \in job[w].exts \cup {e}
      BY <1>2 DEF Fixer
    <2>3. Fixer(w, k) => Fixer(w, k)'
      BY <1>3, <1>5, <2>2 DEF Fixer
    <2> QED
      BY <2>1, <2>3
  <1>9. \A k \in Key : job'[w].pend[k] # None /\ ~tainted'[k[2]] => job'[w].pend[k] = Served(k)
    <2> SUFFICES ASSUME NEW k \in Key, job'[w].pend[k] # None, ~tainted'[k[2]]
                 PROVE  job'[w].pend[k] = Served(k)
      OBVIOUS
    <2>1. k[2] = e
      BY <1>3
    <2>2. ReadTrue(w, e)
      BY <1>1, <2>1 DEF PendingTrue
    <2> QED
      BY <1>6, <2>2
  <1>10. ASSUME job'[w].alone, job'[w].kind \in RebuildKinds, NEW k \in Key
         PROVE  /\ job'[w].pend[k] # None => job'[w].pend[k] = Served(k)
                /\ cache'[k] \in {Absent, Served(k)} /\ (Fixer(w, k)' \/ Truthful(k)')
    <2>1. /\ ReadTrue(w, e) /\ cache[k] \in {Absent, Served(k)}
          /\ Fixer(w, k) \/ Truthful(k)
      BY <1>1, <1>2, <1>3, <1>10 DEF Solo
    <2> QED
      BY <1>1, <1>6, <1>8, <2>1
  <1> QED
    BY <1>1, <1>2, <1>3, <1>4, <1>7, <1>8, <1>9, <1>10, WorkStep

\* The keys one command writes are pending, and belong to one row.
LEMMA BatchPending ==
    ASSUME NEW w \in Workers, NEW k \in Key, NextWrite(w, k), NEW k2 \in Batch(w, k)
    PROVE  k2 \in Key /\ k2[2] = k[2] /\ job[w].pend[k2] # None
  BY DocTypes DEF Batch, NextWrite

\* What sending one command leaves of the job.
LEMMA SentShape ==
    ASSUME IInv, NEW w \in Workers, NEW k \in Key, NextWrite(w, k), UNCHANGED <<pg, up>>,
           job'[w].purge = job[w].purge, job'[w].kind = job[w].kind,
           job'[w].build = job[w].build, job'[w].exts = job[w].exts, job'[w].got = job[w].got,
           \A k2 \in Key : job'[w].pend[k2] = IF k2 \in Batch(w, k) THEN None ELSE job[w].pend[k2]
    PROVE  /\ Shape(w)' /\ job[w].purge = {} /\ job[w].kind # "idle" /\ HalfRead(w)' = {}
           /\ \A k2 \in Key \ Batch(w, k) : Fixer(w, k2) => Fixer(w, k2)'
  <1>1. Shape(w) /\ job[w].pend[k] # None
    BY DEF IInv, JobShape, NextWrite
  <1>2. job[w].purge = {} /\ job[w].kind # "idle" /\ HalfRead(w) = {} /\ HalfRead(w)' = {}
    BY <1>1, HalfSame DEF Shape
  <1>3. Shape(w)'
    BY <1>1, <1>2, TenantKeyFacts DEF Shape
  <1>4. \A k2 \in Key \ Batch(w, k) : Fixer(w, k2) => Fixer(w, k2)'
    BY <1>2 DEF Fixer, Reaches
  <1> QED
    BY <1>2, <1>3, <1>4

LEMMA WriteStep ==
    ASSUME IInv, TypeOK', NEW w \in Workers, Write(w)
    PROVE  IInv'
  <1> USE DEF IInv
  <1>1. PICK k \in Key :
            /\ NextWrite(w, k)
            /\ cache' = [k2 \in Key |-> IF k2 \in Batch(w, k) THEN job[w].pend[k2] ELSE cache[k2]]
            /\ job' = [job EXCEPT ![w] = Sent(w, k)]
            /\ UNCHANGED <<pg, up, tainted>>
    BY DEF Write
  <1>2. /\ job'[w].purge = job[w].purge /\ job'[w].kind = job[w].kind
        /\ job'[w].build = job[w].build /\ job'[w].exts = job[w].exts
        /\ job'[w].got = job[w].got /\ job'[w].alone = job[w].alone
        /\ \A k2 \in Key : job'[w].pend[k2] = IF k2 \in Batch(w, k) THEN None ELSE job[w].pend[k2]
        /\ \A v \in Workers \ {w} : job'[v] = job[v]
    <2>1. job \in [Workers -> Job]
      BY DEF TypeOK
    <2>2. job'[w] = Sent(w, k) /\ \A v \in Workers \ {w} : job'[v] = job[v]
      BY <1>1, <2>1
    <2> QED
      BY <2>2, StepFields
  <1>3. /\ Shape(w)' /\ job[w].purge = {} /\ job[w].kind # "idle" /\ HalfRead(w)' = {}
        /\ \A k2 \in Key \ Batch(w, k) : Fixer(w, k2) => Fixer(w, k2)'
    BY <1>1, <1>2, SentShape
  <1>4. ASSUME NEW k2 \in Key
        PROVE /\ k2[2] \in Row /\ Served(k2)' = Served(k2)
              /\ Reaches(k2[2])' <=> Reaches(k2[2])
              /\ cache'[k2] = IF k2 \in Batch(w, k) THEN job[w].pend[k2] ELSE cache[k2]
    BY <1>1, KeyFacts, ServedSame
  <1>5. ASSUME NEW k2 \in Key \ Batch(w, k), Truthful(k2)
        PROVE  Truthful(k2)' \/ Fixer(w, k2)'
    <2>1. CASE TenantKey \notin Batch(w, k) \/ cache[k2] = Served(k2)
      BY <1>4, <1>5, <2>1, TenantKeyFacts DEF Truthful
    <2>2. CASE TenantKey \in Batch(w, k) /\ cache[k2] = Absent
      <3>1. job[w].build = UsedBuilders \ {"tenant"}
        BY <1>1, <2>2, BatchPending DEF JobShape, Shape
      <3>2. BuilderOf(k2[2]) \in job'[w].build
        BY <1>2, <1>5, <2>2, <3>1, KeyFacts, TenantKeyFacts
      <3>3. Reaches(k2[2])' \/ cache'[k2] = Served(k2)'
        BY <1>4, <1>5, <2>2, PgTypes
      <3> QED
        BY <3>2, <3>3 DEF Fixer, Truthful
    <2> QED
      BY <1>5, <2>1, <2>2 DEF Truthful
  <1>6. ASSUME NEW k2 \in Key
        PROVE  \/ tainted'[k2[2]]
               \/ Truthful(k2)'
               \/ Fixer(w, k2)'
               \/ ~Truthful(k2) /\ ~Fixer(w, k2)
    <2>1. CASE k2 \in Batch(w, k)
      BY <1>1, <1>4, <2>1, BatchPending DEF PendingTrue, Truthful
    <2>2. CASE k2 \notin Batch(w, k)
      BY <1>3, <1>5, <2>2
    <2> QED
      BY <2>1, <2>2
  <1>7. \A k2 \in Key : job'[w].pend[k2] # None /\ ~tainted'[k2[2]]
                             => job'[w].pend[k2] = Served(k2)
    BY <1>1, <1>2 DEF PendingTrue
  <1>8. ASSUME job'[w].alone, job'[w].kind \in RebuildKinds, NEW k2 \in Key
        PROVE  /\ job'[w].pend[k2] # None => job'[w].pend[k2] = Served(k2)
               /\ cache'[k2] \in {Absent, Served(k2)}
               /\ Fixer(w, k2)' \/ Truthful(k2)'
    <2>1. /\ job[w].pend[k2] # None => job[w].pend[k2] = Served(k2)
          /\ cache[k2] \in {Absent, Served(k2)}
          /\ Fixer(w, k2) \/ Truthful(k2)
      BY <1>2, <1>3, <1>8 DEF Solo
    <2>2. CASE k2 \in Batch(w, k)
      BY <1>1, <1>2, <1>4, <2>1, <2>2, BatchPending DEF Truthful
    <2>3. CASE k2 \notin Batch(w, k)
      BY <1>2, <1>3, <1>4, <1>5, <2>1, <2>3
    <2> QED
      BY <2>2, <2>3
  <1> QED
    BY <1>1, <1>2, <1>3, <1>6, <1>7, <1>8, WorkStep

LEMMA LoseWriteStep ==
    ASSUME IInv, TypeOK', NEW w \in Workers, LoseWrite(w)
    PROVE  IInv'
  <1> USE DEF IInv
  <1>1. PICK k \in Key :
            /\ NextWrite(w, k)
            /\ job' = [job EXCEPT ![w] = [Sent(w, k) EXCEPT !.alone = FALSE]]
            /\ tainted' = [tainted EXCEPT ![k[2]] = TRUE]
            /\ UNCHANGED <<pg, cache, up>>
    BY DEF LoseWrite
  <1>2. /\ job'[w].purge = job[w].purge /\ job'[w].kind = job[w].kind
        /\ job'[w].build = job[w].build /\ job'[w].exts = job[w].exts
        /\ job'[w].got = job[w].got /\ ~job'[w].alone
        /\ \A k2 \in Key : job'[w].pend[k2] = IF k2 \in Batch(w, k) THEN None ELSE job[w].pend[k2]
        /\ \A v \in Workers \ {w} : job'[v] = job[v]
    <2> DEFINE j == Sent(w, k)
    <2>1. job \in [Workers -> Job] /\ j \in Job
      BY JobSteps DEF TypeOK
    <2>2. /\ j.purge = job[w].purge /\ j.kind = job[w].kind
          /\ j.build = job[w].build /\ j.exts = job[w].exts /\ j.got = job[w].got
          /\ \A k2 \in Key : j.pend[k2] = IF k2 \in Batch(w, k) THEN None ELSE job[w].pend[k2]
      BY StepFields
    <2> HIDE DEF j
    <2>3. job'[w] = [j EXCEPT !.alone = FALSE] /\ \A v \in Workers \ {w} : job'[v] = job[v]
      BY <1>1, <2>1 DEF j
    <2>4. /\ job'[w].purge = j.purge /\ job'[w].kind = j.kind /\ job'[w].build = j.build
          /\ job'[w].exts = j.exts /\ job'[w].got = j.got /\ job'[w].pend = j.pend
      BY <2>1, <2>3 DEF Job
    <2>5. job'[w].alone = FALSE
      BY <2>1, <2>3 DEF Job
    <2> QED
      BY <2>2, <2>3, <2>4, <2>5
  <1>3. /\ Shape(w)' /\ job[w].purge = {} /\ job[w].kind # "idle" /\ HalfRead(w)' = {}
        /\ \A k2 \in Key \ Batch(w, k) : Fixer(w, k2) => Fixer(w, k2)'
    BY <1>1, <1>2, SentShape
  <1>4. \A q \in Row : tainted[q] \/ q = k[2] => tainted'[q]
    BY <1>1 DEF TypeOK
  <1>5. ASSUME NEW k2 \in Key
        PROVE  \/ tainted'[k2[2]]
               \/ Truthful(k2)'
               \/ Fixer(w, k2)'
               \/ ~Truthful(k2) /\ ~Fixer(w, k2)
    <2>1. k2 \in Batch(w, k) => tainted'[k2[2]]
      BY <1>1, <1>4, BatchPending, KeyFacts
    <2>2. Truthful(k2) => Truthful(k2)'
      BY <1>1, KeyFacts, ServedSame DEF Truthful
    <2> QED
      BY <1>3, <2>1, <2>2
  <1>6. \A k2 \in Key : job'[w].pend[k2] # None /\ ~tainted'[k2[2]]
                             => job'[w].pend[k2] = Served(k2)
    BY <1>2, <1>4, KeyFacts DEF PendingTrue
  <1> QED
    BY <1>1, <1>2, <1>3, <1>4, <1>5, <1>6, WorkStep

LEMMA LosePurgeStep ==
    ASSUME IInv, TypeOK', NEW w \in Workers, LosePurge(w)
    PROVE  IInv'
  <1> USE DEF IInv
  <1>1. PICK p \in job[w].purge :
            /\ job' = [job EXCEPT ![w] = [Purged(w, p) EXCEPT !.alone = FALSE]]
            /\ tainted' = [r \in Row |-> tainted[r] \/ p \in PatternsOf(r)]
            /\ UNCHANGED <<pg, cache, up>>
    BY DEF LosePurge
  <1>2. /\ job'[w].purge = job[w].purge \ {p} /\ job'[w].kind = job[w].kind
        /\ job'[w].build = job[w].build /\ job'[w].exts = job[w].exts
        /\ job'[w].got = job[w].got /\ job'[w].pend = job[w].pend /\ ~job'[w].alone
        /\ \A v \in Workers \ {w} : job'[v] = job[v]
    <2> DEFINE j == Purged(w, p)
    <2>1. job \in [Workers -> Job] /\ j \in Job /\ p \in Pattern
      BY JobSteps DEF TypeOK
    <2>2. /\ j.purge = job[w].purge \ {p} /\ j.kind = job[w].kind
          /\ j.build = job[w].build /\ j.exts = job[w].exts /\ j.got = job[w].got
          /\ j.pend = job[w].pend
      BY <2>1, StepFields
    <2> HIDE DEF j
    <2>3. job'[w] = [j EXCEPT !.alone = FALSE] /\ \A v \in Workers \ {w} : job'[v] = job[v]
      BY <1>1, <2>1 DEF j
    <2>4. /\ job'[w].purge = j.purge /\ job'[w].kind = j.kind /\ job'[w].build = j.build
          /\ job'[w].exts = j.exts /\ job'[w].got = j.got /\ job'[w].pend = j.pend
      BY <2>1, <2>3 DEF Job
    <2>5. job'[w].alone = FALSE
      BY <2>1, <2>3 DEF Job
    <2> QED
      BY <2>2, <2>3, <2>4, <2>5
  <1>3. job[w].kind # "idle" /\ HalfRead(w) = {} /\ HalfRead(w)' = {}
    BY <1>1, <1>2, HalfSame DEF JobShape, Shape
  <1>4. Shape(w)'
    BY <1>1, <1>2, <1>3, TenantKeyFacts DEF JobShape, Shape
  <1>5. ASSUME NEW k \in Key
        PROVE  \/ tainted'[k[2]]
               \/ Truthful(k)'
               \/ Fixer(w, k)'
               \/ ~Truthful(k) /\ ~Fixer(w, k)
    <2>1. k[2] \in Row /\ (k[1] = p => tainted'[k[2]])
      BY <1>1, KeyFacts
    <2>2. Truthful(k) => Truthful(k)'
      BY <1>1, <2>1, ServedSame DEF Truthful
    <2>3. k[1] # p /\ Fixer(w, k) => Fixer(w, k)'
      BY <1>1, <1>2, <1>3, <2>1, ServedSame DEF Fixer
    <2> QED
      BY <2>1, <2>2, <2>3
  <1>6. /\ \A q \in Row : tainted[q] => tainted'[q]
        /\ \A k \in Key : job'[w].pend[k] # None /\ ~tainted'[k[2]]
                              => job'[w].pend[k] = Served(k)
    BY <1>1, <1>2, KeyFacts DEF PendingTrue
  <1> QED
    BY <1>1, <1>2, <1>3, <1>4, <1>5, <1>6, WorkStep

LEMMA IdleFields ==
    /\ Idle.kind = "idle" /\ Idle.purge = {} /\ Idle.build = {} /\ Idle.exts = {}
    /\ Idle.got = NothingRead /\ Idle.alone = FALSE /\ \A k \in Key : Idle.pend[k] = None
  BY DEF Idle, NoWrites

LEMMA IdleShape ==
    ASSUME NEW w \in Workers, job'[w] = Idle
    PROVE  Shape(w)' /\ HalfRead(w)' = {}
  BY IdleFields, NothingHalfRead, TenantKeyFacts DEF Shape

LEMMA FinishStep ==
    ASSUME IInv, TypeOK', NEW w \in Workers, Finish(w)
    PROVE  IInv'
  <1> USE DEF IInv
  <1>1. /\ job' = [job EXCEPT ![w] = Idle] /\ UNCHANGED <<pg, cache, up>>
        /\ Done(w)
        /\ tainted' = IF job[w].alone /\ job[w].kind \in RebuildKinds
                      THEN [r \in Row |-> FALSE] ELSE tainted
    BY DEF Finish
  <1>2. job'[w] = Idle /\ \A v \in Workers \ {w} : job'[v] = job[v]
    BY <1>1 DEF TypeOK
  <1>3. Shape(w)' /\ HalfRead(w)' = {}
    BY <1>2, IdleShape
  <1>4. \A k \in Key : ~Fixer(w, k)
    BY <1>1 DEF Done, NoPending, NoWrites, Fixer
  <1>5. \A k \in Key : Truthful(k)' <=> Truthful(k)
    BY <1>1, KeyFacts, ServedSame DEF Truthful
  <1>6. CASE ~(job[w].alone /\ job[w].kind \in RebuildKinds)
    <2>1. tainted' = tainted /\ job[w].kind # "idle"
      BY <1>1, <1>6 DEF Done
    <2> QED
      BY <1>1, <1>2, <1>3, <1>4, <1>5, <2>1, IdleFields, WorkStep DEF RebuildKinds
  <1>7. CASE job[w].alone /\ job[w].kind \in RebuildKinds
    <2>1. \A k \in Key : Truthful(k)'
      BY <1>4, <1>5, <1>7 DEF Solo
    <2>2. \A v \in Workers : job'[v].kind = "idle" /\ Shape(v)'
      <3>1. \A v \in Workers \ {w} : job[v].kind = "idle" /\ HalfRead(v)' = HalfRead(v)
        BY <1>1, <1>2, <1>7, HalfSame DEF Solo
      <3>2. \A v \in Workers \ {w} : Shape(v)'
        BY <1>1, <1>2, <3>1 DEF JobShape, Shape
      <3> QED
        BY <1>2, <1>3, <3>1, <3>2, IdleFields
    <2>3. PendingTrue'
      BY <2>2 DEF PendingTrue, Shape
    <2>4. Solo'
      BY <2>2 DEF Solo, RebuildKinds
    <2> QED
      BY <1>1, <2>1, <2>2, <2>3, <2>4 DEF Held, JobShape, TenantAndRoutesOn
  <1> QED
    BY <1>6, <1>7

LEMMA AbortStep ==
    ASSUME IInv, TypeOK', NEW w \in Workers, Abort(w)
    PROVE  IInv'
  <1> USE DEF IInv
  <1>1. /\ job' = [job EXCEPT ![w] = Idle] /\ UNCHANGED <<pg, cache, up>>
        /\ NoPending(w) /\ Unread(w) # {}
        /\ tainted' = [r \in Row |-> tainted[r] \/ r \in Unread(w)]
    BY DEF Abort
  <1>2. job'[w] = Idle /\ \A v \in Workers \ {w} : job'[v] = job[v]
    BY <1>1 DEF TypeOK
  <1>3. Shape(w)' /\ HalfRead(w)' = {} /\ job[w].kind # "idle"
    BY <1>1, <1>2, IdleShape DEF JobShape, Shape, Unread
  <1>4. \A k \in Key : Fixer(w, k) => tainted'[k[2]]
    BY <1>1, KeyFacts DEF Fixer, Unread, NoPending, NoWrites, JobShape, Shape
  <1>5. \A k \in Key : Truthful(k)' <=> Truthful(k)
    BY <1>1, KeyFacts, ServedSame DEF Truthful
  <1>6. \A q \in Row : tainted[q] => tainted'[q]
    BY <1>1
  <1> QED
    BY <1>1, <1>2, <1>3, <1>4, <1>5, <1>6, IdleFields, WorkStep DEF RebuildKinds

LEMMA CrashStep ==
    ASSUME IInv, TypeOK', NEW p \in Procs, Crash(p)
    PROVE  IInv'
  <1> USE DEF IInv
  <1>1. /\ up' = [up EXCEPT ![p] = FALSE] /\ UNCHANGED <<pg, cache, tainted>>
        /\ job' = [w \in Workers |-> IF Home[w] = p THEN Idle ELSE job[w]]
    BY DEF Crash
  <1>2. ~up'[p] /\ \A q \in Procs : q # p => up'[q] = up[q]
    BY <1>1 DEF TypeOK
  <1>3. \A w \in Workers : IF Home[w] = p THEN job'[w] = Idle ELSE job'[w] = job[w]
    BY <1>1
  <1>4. JobShape'
    <2> SUFFICES ASSUME NEW w \in Workers PROVE Shape(w)'
      BY DEF JobShape
    <2>1. CASE Home[w] = p
      BY <1>3, <2>1, IdleShape
    <2>2. CASE Home[w] # p
      <3>1. HalfRead(w)' = HalfRead(w)
        BY <1>1, <1>3, <2>2, HalfSame
      <3> QED
        BY <1>1, <1>2, <1>3, <2>2, <3>1, HomeAndBounds DEF JobShape, Shape
    <2> QED
      BY <2>1, <2>2
  <1>5. PendingTrue'
    <2>1. \A w \in Workers : \/ job'[w] = Idle /\ HalfRead(w)' = {}
                            \/ /\ job'[w] = job[w] /\ HalfRead(w)' = HalfRead(w)
                               /\ \A e : ReadTrue(w, e)' <=> ReadTrue(w, e)
      BY <1>1, <1>3, IdleShape, HalfSame
    <2>2. \A k \in Key : Served(k)' = Served(k)
      BY <1>1, ServedSame
    <2> QED
      BY <1>1, <2>1, <2>2, IdleFields DEF PendingTrue
  <1>6. Held'
    BY <1>2 DEF Held
  <1>7. Solo'
    <2> SUFFICES ASSUME NEW w \in Workers, job'[w].alone, job'[w].kind \in RebuildKinds
                 PROVE  /\ \A u \in Workers \ {w} : job'[u].kind = "idle"
                        /\ \A e \in HalfRead(w)' : ReadTrue(w, e)'
                        /\ \A k \in Key :
                              /\ job'[w].pend[k] # None => job'[w].pend[k] = Served(k)'
                              /\ k[1] \notin job'[w].purge => cache'[k] \in {Absent, Served(k)'}
                              /\ Fixer(w, k)' \/ Truthful(k)'
      BY DEF Solo
    <2>1. job'[w] = job[w]
      BY <1>3, IdleFields
    <2>2. \A u \in Workers \ {w} : job'[u].kind = "idle"
      BY <1>3, <2>1, IdleFields DEF Solo
    <2>3. HalfRead(w)' = HalfRead(w) /\ \A e : ReadTrue(w, e)' <=> ReadTrue(w, e)
      BY <1>1, <2>1, HalfSame
    <2>4. \A k \in Key : /\ Fixer(w, k)' <=> Fixer(w, k)
                         /\ Truthful(k)' <=> Truthful(k)
                         /\ Served(k)' = Served(k)
      BY <1>1, <2>1, <2>3, KeyFacts, ServedSame DEF Fixer, Truthful
    <2> QED
      BY <1>1, <2>1, <2>2, <2>3, <2>4 DEF Solo
  <1> QED
    BY <1>1, <1>4, <1>5, <1>6, <1>7 DEF TenantAndRoutesOn

LEMMA RedisRestartStep ==
    ASSUME IInv, TypeOK', RedisRestart
    PROVE  IInv'
  <1> USE DEF IInv
  <1>1. cache' = [k \in Key |-> Absent] /\ UNCHANGED <<pg, up, job, tainted>>
    BY DEF RedisRestart
  <1>2. \A k \in Key : cache'[k] = Absent /\ Truthful(k)'
    BY <1>1, TenantKeyFacts DEF Truthful
  <1>3. \A k \in Key : Served(k)' = Served(k)
    BY <1>1, KeyFacts, ServedSame
  <1> QED
    BY <1>1, <1>2, <1>3
    DEF TenantAndRoutesOn, JobShape, Shape, PendingTrue, Held, Solo, HalfRead, ReadTrue

LEMMA EvictStep ==
    ASSUME IInv, TypeOK', Evict
    PROVE  IInv'
  <1> USE DEF IInv
  <1>1. ASSUME NEW w \in Workers PROVE SameWork(w) /\ ~job'[w].alone
    <2>1. job[w] \in Job /\ job'[w] = [job[w] EXCEPT !.alone = FALSE]
      BY DEF Evict, TypeOK
    <2>2. job'[w].alone = FALSE
      BY <2>1 DEF Job
    <2> QED
      BY <2>1, <2>2 DEF SameWork, Job
  <1>2. UNCHANGED <<pg, up>>
    BY DEF Evict
  <1>3. \A r \in Row : tainted[r] => tainted'[r]
    BY DEF Evict, TypeOK
  <1>4. \A k \in Key : tainted'[k[2]] \/ (Truthful(k) => Truthful(k)')
    BY <1>2, KeyFacts, TenantKeyFacts, ServedSame DEF Evict, TypeOK, Truthful
  <1>h. \A w \in Workers : /\ HalfRead(w)' = HalfRead(w)
                           /\ \A e : ReadTrue(w, e)' <=> ReadTrue(w, e)
    BY <1>1, <1>2, HalfSame DEF SameWork
  <1>5. \A w \in Workers, k \in Key : Fixer(w, k)' <=> Fixer(w, k)
    BY <1>1, <1>2, <1>h, KeyFacts, ServedSame DEF Fixer, SameWork
  <1>6. Held'
    BY <1>2, <1>3, <1>4, <1>5, KeyFacts DEF Held
  <1>7. JobShape'
    BY <1>1, <1>2, <1>h DEF JobShape, Shape, SameWork
  <1>p. PendingTrue'
    <2>1. \A w \in Workers, e \in Exts : e \in HalfRead(w)' /\ ~tainted'[e] => ReadTrue(w, e)'
      BY <1>3, <1>h DEF PendingTrue, Row
    <2>2. \A w \in Workers, k \in Key : job'[w].pend[k] # None /\ ~tainted'[k[2]]
                                           => job'[w].pend[k] = Served(k)'
      BY <1>1, <1>2, <1>3, KeyFacts, ServedSame DEF PendingTrue, SameWork
    <2> QED
      BY <2>1, <2>2 DEF PendingTrue, HalfRead
  <1>8. Solo'
    BY <1>1 DEF Solo
  <1> QED
    BY <1>2, <1>6, <1>7, <1>p, <1>8 DEF TenantAndRoutesOn

-----------------------------------------------------------------------------
(* The theorems. *)

LEMMA InitIInv == Init => IInv
  <1> SUFFICES ASSUME Init PROVE IInv
    OBVIOUS
  <1>1. TypeOK
    BY InitType
  <1>2. \A w \in Workers : job[w] = Idle
    BY DEF Init
  <1>3. JobShape
    BY <1>2, IdleFields, NothingHalfRead, TenantKeyFacts DEF JobShape, Shape
  <1>4. PendingTrue /\ Solo
    BY <1>2, IdleFields, NothingHalfRead DEF PendingTrue, Solo, RebuildKinds
  <1>5. Held
    BY TenantKeyFacts DEF Init, Held, Truthful
  <1> QED
    BY <1>1, <1>3, <1>4, <1>5 DEF IInv, Init, TenantAndRoutesOn

LEMMA Inductive == IInv /\ [Next]_vars => IInv'
  <1> SUFFICES ASSUME IInv, [Next]_vars PROVE IInv'
    OBVIOUS
  <1>t. TypeOK'
    BY TypeStep DEF IInv
  <1>1. CASE \E w \in Workers : Edit(w)
    BY <1>t, <1>1, PutExtStep, DeleteExtStep, PutDidStep, PutFlowStep, PutRoutesStep,
       PutTenantStep, PutDedicatedTenantStep, StartStep DEF Edit
  <1>2. CASE \E w \in Workers : Work(w)
    BY <1>t, <1>2, PurgeStep, ReadRowsStep, ReadExtStep, ReadSettingsStep, WriteStep, FinishStep DEF Work
  <1>3. CASE \E w \in Workers : Start(w) \/ Watchdog(w)
    BY <1>t, <1>3, StartStep
  <1>4. CASE Fault
    BY <1>t, <1>4, RedisRestartStep, EvictStep, CrashStep, AbortStep, LoseWriteStep, LosePurgeStep DEF Fault
  <1>5. CASE UNCHANGED vars
    BY <1>5 DEF vars, IInv, TypeOK, TenantAndRoutesOn, JobShape, Shape, PendingTrue, Held, Solo,
                Truthful, Fixer, Reaches, Served, Ringing, HalfRead, ReadTrue
  <1> QED
    BY <1>1, <1>2, <1>3, <1>4, <1>5 DEF Next

\* A job that would still fix a key has it to handle.
LEMMA FixerHandles ==
    ASSUME NEW w \in Workers, NEW k \in Key, Fixer(w, k)
    PROVE  Handles(w, k)
  BY KeyFacts DEF Fixer, Handles, Unread

\* The cache agrees with Postgres wherever nothing overlapped and nothing was
\* lost, for any number of rows, workers, processes, requests and faults.
THEOREM CacheCoherent == Spec => []Coherent
  <1>1. IInv => Coherent
    BY FixerHandles DEF IInv, Held, Coherent
  <1> QED
    BY <1>1, InitIInv, Inductive, PTL DEF Spec

\* A rebuild nothing overlaps repairs every key, whatever was in the cache before.
THEOREM RebuildRepairs == Spec => []LoneRebuildRepairs
  <1>1. IInv => LoneRebuildRepairs
    <2> SUFFICES ASSUME IInv, NEW w \in Workers, Done(w), job[w].alone,
                        job[w].kind \in RebuildKinds, NEW k \in Key
                 PROVE  Truthful(k)
      BY DEF LoneRebuildRepairs
    <2>1. ~Fixer(w, k)
      BY DEF Done, NoPending, NoWrites, Fixer
    <2> QED
      BY <2>1 DEF IInv, Solo
  <1> QED
    BY <1>1, InitIInv, Inductive, PTL DEF Spec

\* No old version of a row ever comes back: what a step writes to a key of an untainted
\* row is what Postgres serves at that moment, although builders read the row, await
\* Redis and write later, while other requests commit, purge and write.
NoStaleWrite ==
    [][\A k \in Key :
          ~tainted[k[2]] => cache'[k] \in {cache[k], Absent, Served(k)}]_vars

LEMMA CommandsAreCurrent ==
    ASSUME TypeOK, PendingTrue, [Next]_vars, NEW k \in Key, ~tainted[k[2]]
    PROVE  cache'[k] \in {cache[k], Absent, Served(k)}
  <1>1. CASE UNCHANGED cache
    BY <1>1
  <1>2. ASSUME NEW w \in Workers, Purge(w) PROVE cache'[k] \in {cache[k], Absent}
    BY <1>2 DEF Purge
  <1>3. ASSUME NEW w \in Workers, Write(w) PROVE cache'[k] \in {cache[k], Served(k)}
    <2>1. PICK k1 \in Key :
             /\ NextWrite(w, k1)
             /\ cache' = [k2 \in Key |-> IF k2 \in Batch(w, k1) THEN job[w].pend[k2] ELSE cache[k2]]
      BY <1>3 DEF Write
    <2>2. CASE k \in Batch(w, k1)
      <3>1. job[w].pend[k] # None
        BY <2>1, <2>2, DocTypes DEF Batch, NextWrite
      <3> QED
        BY <2>1, <2>2, <3>1 DEF PendingTrue
    <2>3. CASE k \notin Batch(w, k1)
      BY <2>1, <2>3
    <2> QED
      BY <2>2, <2>3
  <1>4. ASSUME NEW w \in Workers, ReadRows(w) \/ ReadExt(w) \/ ReadSettings(w) \/ Finish(w)
        PROVE  UNCHANGED cache
    BY <1>4 DEF ReadRows, ReadExt, ReadSettings, Finish
  <1>5. ASSUME NEW w \in Workers, Edit(w) \/ Start(w) \/ Watchdog(w) PROVE UNCHANGED cache
    BY <1>5 DEF Edit, PutExt, DeleteExt, PutDid, PutFlow, PutRoutes, PutTenant,
         PutDedicatedTenant, RebuildCache, Start, Watchdog
  <1>6. ASSUME RedisRestart \/ Evict PROVE cache'[k] \in {cache[k], Absent}
    BY <1>6 DEF RedisRestart, Evict, TypeOK
  <1>7. ASSUME \/ \E p \in Procs : Crash(p)
               \/ \E w \in Workers : Abort(w) \/ LoseWrite(w) \/ LosePurge(w)
        PROVE  UNCHANGED cache
    BY <1>7 DEF Crash, Abort, LoseWrite, LosePurge
  <1>8. CASE UNCHANGED vars
    BY <1>1, <1>8 DEF vars
  <1> QED
    BY <1>1, <1>2, <1>3, <1>4, <1>5, <1>6, <1>7, <1>8 DEF Next, Work, Fault

\* cache.ts, the builders: a late SET never brings an old row back, for any number of
\* processes and requests, unless the row is tainted.
THEOREM WritesAreCurrent == Spec => NoStaleWrite
  <1> DEFINE Current ==
        \A k \in Key : ~tainted[k[2]] => cache'[k] \in {cache[k], Absent, Served(k)}
  <1>1. IInv /\ [Next]_vars => Current
    BY CommandsAreCurrent DEF IInv
  <1> HIDE DEF Current
  <1>2. IInv /\ [Next]_vars => [Current]_vars
    BY <1>1
  <1>3. Spec => [][Current]_vars
    BY <1>2, InitIInv, Inductive, PTL DEF Spec
  <1> QED
    BY <1>3 DEF NoStaleWrite, Current

=============================================================================
