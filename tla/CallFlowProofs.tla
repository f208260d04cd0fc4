--------------------------- MODULE CallFlowProofs ---------------------------
(***************************************************************************)
(* Proofs about CallFlow for any number of tenants, rows, requests and     *)
(* calls, and any depth.                                                   *)
(***************************************************************************)
EXTENDS CallFlow, WellFoundedInduction, TLAPS

\* What a request carries: all that its statement will need, and once it is
\* checked a pair, or a member, that belongs to the tenant.
JobInv(j) ==
    /\ j.op = "idle" <=> j.at = "idle"
    /\ j.op # "idle" => j.obj \in Objects
    /\ j.op = "rebuild" => j.at \notin {"check", "commit"}
    /\ j.op = "create" => j.slot = "first"
    /\ j.op \in {"patch", "rules"} => j.seen \in Row
    /\ j.op = "rules" => j.rules \in Rules
    /\ j.op = "addMember" => j.ext \in Exts
    /\ j.at = "commit" /\ j.op \in {"create", "patch"} =>
         Owned(Merge(j.body, Behind(j, j.slot)), Owner[j.obj])
    /\ j.at = "commit" /\ j.op = "addMember" => Owner[j.ext] = Owner[j.obj]
    /\ j.at \in {"purge", "objects"} => j.obj \notin Dids

\* A call that is up has a tenant, whose object and phones it is at.
CallInv(r) ==
    /\ r.at # "open" => r.entry = None /\ r.rings = {}
    /\ r.at \in {"script", "open"} => r.tenant \in Tenants /\ r.type \in Script \cup {"extension"}
    /\ r.at = "open" /\ r.type \in Script =>
         r.entry \in Row /\ r.id \in Objects /\ Owner[r.id] = r.tenant
    /\ r.at = "open" => \A e \in r.rings : Owner[e] = r.tenant

\* A group rings the phones of its tenant t.
Members(x, t) == x # None => \A e \in x.members : Owner[e] = t

RowsOwn == \A o \in Objects : Members(row[o], Owner[o])

CacheOwn == \A t \in Tenants, o \in Objects :
    cache[t][o] # None => Owner[o] = t /\ Members(cache[t][o], t)

\* A request that will set every key of tenant t again.
Refills(j, t) ==
    j.at \in {"purge", "dids", "objects"} /\ j.obj \in Objects \ Dids /\ Owner[j.obj] = t

\* An enabled group, menu or condition without its key is about to get it, unless a
\* fault has taken the key.
Filled == \A o \in Objects \ Dids :
    Enabled(o) /\ cache[Owner[o]][o] = None /\ o \notin hurt =>
        \E w \in Workers : Refills(job[w], Owner[o])

IInv ==
    /\ TypeOK
    /\ \A w \in Workers : JobInv(job[w])
    /\ \A c \in Calls : CallInv(call[c])
    /\ RowsOwn
    /\ CacheOwn
    /\ PairsOwned
    /\ Filled

LEMMA KindsAreObjects == \A type \in Script : Kinds[type] \subseteq Objects \ Dids
  BY IdsApart DEF Script, Kinds, Objects

LEMMA NoPairOwned == \A t \in Tenants : Owned(NoPair, t) /\ NoPair \in Pair
  BY IdsApart DEF Owned, NoPair, Pair, Type, Script

LEMMA GoodIsOwned ==
    ASSUME NEW p \in Pair, NEW t \in Tenants, GoodDestination(p, t)
    PROVE  Owned(p, t)
  BY NoPairOwned DEF GoodDestination, Owned, TenantOwns, Script

LEMMA MergeIsPair ==
    ASSUME NEW b \in Body, NEW p \in Pair
    PROVE  Merge(b, p) \in Pair
  BY DEF Merge, Body, Pair

LEMMA InitIInv == Init => IInv
  <1> SUFFICES ASSUME Init PROVE IInv
    OBVIOUS
  <1>1. TypeOK
    BY StartOwned, IdsOwned, DepthBound
    DEF Init, TypeOK, Job, Idle, Unsaid, Body, Slot, Call, NoCall, Cause
  <1>2. \A w \in Workers : JobInv(job[w])
    BY DEF Init, JobInv, Idle
  <1>3. \A c \in Calls : CallInv(call[c])
    BY DEF Init, CallInv, NoCall
  <1>4. RowsOwn /\ PairsOwned
    BY StartOwned, IdsOwned DEF Init, RowsOwn, PairsOwned, Members
  <1>5. CacheOwn
    BY <1>4 DEF Init, CacheOwn, RowsOwn, Enabled, Exists
  <1>6. Filled
    BY IdsOwned DEF Init, Filled, Enabled, Exists
  <1> QED
    BY <1>1, <1>2, <1>3, <1>4, <1>5, <1>6 DEF IInv

-----------------------------------------------------------------------------
(* The ways a step changes one request, or one call. *)

\* A request that begins, or is checked.
LEMMA JobStep ==
    ASSUME IInv, NEW w \in Workers, NEW j \in Job, JobInv(j),
           \A t \in Tenants : Refills(job[w], t) => Refills(j, t),
           job' = [job EXCEPT ![w] = j], edits' \in 0..MaxEdits,
           UNCHANGED <<row, gone, cache, raced, hurt, call>>
    PROVE  IInv'
  <1>1. TypeOK'
    BY DEF IInv, TypeOK
  <1>2. \A v \in Workers : JobInv(job[v])'
    BY DEF IInv, TypeOK
  <1>3. Filled'
    <2>1. \A o \in Objects : Owner[o] \in Tenants
      BY IdsOwned
    <2> QED
      BY <2>1 DEF IInv, TypeOK, Filled, Enabled, Exists
  <1>4. RowsOwn' /\ CacheOwn' /\ PairsOwned' /\ \A c \in Calls : CallInv(call[c])'
    BY DEF IInv, RowsOwn, CacheOwn, PairsOwned
  <1> QED
    BY <1>1, <1>2, <1>3, <1>4 DEF IInv

LEMMA CallStep ==
    ASSUME IInv, NEW c \in Calls, NEW r \in Call, CallInv(r),
           Becomes(c, r), Calling
    PROVE  IInv'
  <1>1. TypeOK'
    BY DEF IInv, TypeOK, CallInv, Becomes, Calling
  <1>2. \A d \in Calls : CallInv(call[d])'
    BY DEF IInv, TypeOK, Becomes
  <1>3. RowsOwn' /\ CacheOwn' /\ PairsOwned' /\ Filled' /\ \A v \in Workers : JobInv(job[v])'
    BY DEF IInv, RowsOwn, CacheOwn, PairsOwned, Filled, Calling, Enabled, Exists
  <1> QED
    BY <1>1, <1>2, <1>3 DEF IInv

-----------------------------------------------------------------------------
(* Requests. *)

\* What Begin makes of a request that has not read yet.
LEMMA BeginStep ==
    ASSUME IInv, NEW w \in Workers, NEW o \in Objects, NEW j \in Job, Begin(w, o, j),
           NEW k, k = [j EXCEPT !.obj = o, !.seen = row[o]], JobInv(k)
    PROVE  IInv'
  <1>1. job[w] = Idle /\ edits' \in 0..MaxEdits
    BY DepthBound DEF IInv, TypeOK, Begin
  <1>2. k \in Job
    BY DEF IInv, TypeOK, Job
  <1>3. \A t \in Tenants : ~Refills(job[w], t)
    BY <1>1 DEF Refills, Idle
  <1>4. job' = [job EXCEPT ![w] = k] /\ UNCHANGED <<row, gone, cache, raced, hurt, call>>
    BY DEF Begin, Editing
  <1> QED
    BY <1>1, <1>2, <1>3, <1>4, JobStep

LEMMA CreateStep ==
    ASSUME IInv, NEW w \in Workers, NEW o \in Objects, NEW b \in Bodies, Create(w, o, b)
    PROVE  IInv'
  <1> DEFINE j == [Idle EXCEPT !.op = "create", !.body = b, !.at = "check"]
             k == [j EXCEPT !.obj = o, !.seen = row[o]]
  <1>1. j \in Job
    BY BodiesTyped DEF Job, Idle, Op, Slot, Step
  <1>2. JobInv(k)
    BY DEF JobInv, Idle
  <1>3. Begin(w, o, j)
    BY DEF Create
  <1> HIDE DEF j
  <1> QED
    BY <1>1, <1>2, <1>3, BeginStep

LEMMA PatchStep ==
    ASSUME IInv, NEW w \in Workers, NEW o \in Objects, NEW slot \in Slot, NEW b \in Bodies,
           Patch(w, o, slot, b)
    PROVE  IInv'
  <1> DEFINE j == [Idle EXCEPT !.op = "patch", !.slot = slot, !.body = b, !.at = "check"]
             k == [j EXCEPT !.obj = o, !.seen = row[o]]
  <1>1. j \in Job
    BY BodiesTyped DEF Job, Idle, Op, Slot, Step
  <1>2. row[o] \in Row
    BY DEF IInv, TypeOK, Patch, Exists
  <1>3. JobInv(k)
    BY <1>2 DEF JobInv, Idle
  <1>4. Begin(w, o, j)
    BY DEF Patch
  <1> HIDE DEF j
  <1> QED
    BY <1>1, <1>3, <1>4, BeginStep

LEMMA PatchRulesStep ==
    ASSUME IInv, NEW w \in Workers, NEW o \in Conditions, NEW r \in Rules, PatchRules(w, o, r)
    PROVE  IInv'
  <1> DEFINE j == [Idle EXCEPT !.op = "rules", !.rules = r, !.at = "check"]
             k == [j EXCEPT !.obj = o, !.seen = row[o]]
  <1>1. j \in Job /\ o \in Objects
    BY DEF Job, Idle, Op, Slot, Step, Body, Unsaid, Objects
  <1>2. row[o] \in Row
    BY <1>1 DEF IInv, TypeOK, PatchRules, Exists
  <1>3. JobInv(k)
    BY <1>1, <1>2 DEF JobInv, Idle
  <1>4. Begin(w, o, j)
    BY DEF PatchRules
  <1> HIDE DEF j
  <1> QED
    BY <1>1, <1>3, <1>4, BeginStep

\* A deletion of a row, or of a menu's option.
LEMMA DeletionStep ==
    ASSUME IInv, NEW w \in Workers, NEW o \in Objects, NEW op \in {"delete", "deleteOption"},
           Begin(w, o, [Idle EXCEPT !.op = op, !.at = "commit"])
    PROVE  IInv'
  <1> DEFINE j == [Idle EXCEPT !.op = op, !.at = "commit"]
             k == [j EXCEPT !.obj = o, !.seen = row[o]]
  <1>1. j \in Job
    BY DEF Job, Idle, Op, Slot, Step, Body, Unsaid
  <1>2. JobInv(k)
    BY DEF JobInv, Idle
  <1> HIDE DEF j
  <1> QED
    BY <1>1, <1>2, BeginStep DEF j

LEMMA MemberStep ==
    ASSUME IInv, NEW w \in Workers, NEW o \in Groups, NEW e \in Exts,
           AddMember(w, o, e) \/ RemoveMember(w, o, e)
    PROVE  IInv'
  <1>o. o \in Objects
    BY DEF Objects
  <1>1. CASE AddMember(w, o, e)
    <2> DEFINE j == [Idle EXCEPT !.op = "addMember", !.ext = e, !.at = "check"]
               k == [j EXCEPT !.obj = o, !.seen = row[o]]
    <2>1. j \in Job
      BY DEF Job, Idle, Op, Slot, Step, Body, Unsaid
    <2>2. JobInv(k)
      BY <1>o DEF JobInv, Idle
    <2>3. Begin(w, o, j)
      BY <1>1 DEF AddMember
    <2> HIDE DEF j
    <2> QED
      BY <1>o, <2>1, <2>2, <2>3, BeginStep
  <1>2. CASE RemoveMember(w, o, e)
    <2> DEFINE j == [Idle EXCEPT !.op = "removeMember", !.ext = e, !.at = "commit"]
               k == [j EXCEPT !.obj = o, !.seen = row[o]]
    <2>1. j \in Job
      BY DEF Job, Idle, Op, Slot, Step, Body, Unsaid
    <2>2. JobInv(k)
      BY <1>o DEF JobInv, Idle
    <2>3. Begin(w, o, j)
      BY <1>2 DEF RemoveMember
    <2> HIDE DEF j
    <2> QED
      BY <1>o, <2>1, <2>2, <2>3, BeginStep
  <1> QED
    BY <1>1, <1>2

\* PATCH of enabled.
LEMMA SwitchStep ==
    ASSUME IInv, NEW w \in Workers, NEW o \in Objects, NEW op \in {"enable", "disable"},
           Switch(w, o, op)
    PROVE  IInv'
  <1> DEFINE j == [Idle EXCEPT !.op = op, !.at = "check"]
             k == [j EXCEPT !.obj = o, !.seen = row[o]]
  <1>1. j \in Job
    BY DEF Job, Idle, Op, Slot, Step, Body, Unsaid
  <1>2. JobInv(k)
    BY DEF JobInv, Idle
  <1>3. Begin(w, o, j)
    BY DEF Switch
  <1> HIDE DEF j
  <1> QED
    BY <1>1, <1>2, <1>3, BeginStep

LEMMA RequestStep ==
    ASSUME IInv, NEW w \in Workers, Request(w)
    PROVE  IInv'
  <1>1. ASSUME NEW o \in Objects, Delete(w, o) \/ DeleteOption(w, o) PROVE IInv'
    BY <1>1, DeletionStep DEF Delete, DeleteOption
  <1> QED
    BY <1>1, CreateStep, PatchStep, PatchRulesStep, MemberStep, SwitchStep DEF Request

-----------------------------------------------------------------------------
(* The check, the statement, and the cache. *)

\* A request that goes on.
LEMMA GoesOn ==
    ASSUME TypeOK, NEW w \in Workers, NEW at, Goes(w, at), NEW j, j = job[w]
    PROVE  job' = [job EXCEPT ![w] = [j EXCEPT !.at = at]]
  BY DEF TypeOK, Goes

\* The pair that a request will write is among those that it checks.
LEMMA ChecksItsPair ==
    ASSUME NEW j \in Job, JobInv(j), j.op \in {"create", "patch"}
    PROVE  /\ Merge(j.body, Behind(j, j.slot)) \in EffectivePairs(j)
           /\ Merge(j.body, Behind(j, j.slot)) \in Pair
  <1>1. j.slot \in Slot /\ Said(j, j.slot) = j.body
    BY DEF Job, Said
  <1>2. Merge(j.body, Behind(j, j.slot)) \in EffectivePairs(j)
    <2>1. CASE IsOption(j)
      BY <1>1, <2>1 DEF EffectivePairs, IsOption
    <2>2. CASE ~IsOption(j) /\ j.obj \in Menus
      <3>1. j.slot = "first"
        BY <2>2, <1>1 DEF IsOption, JobInv, Slot
      <3> QED
        BY <1>1, <2>2, <3>1 DEF EffectivePairs
    <2>3. CASE ~IsOption(j) /\ j.obj \notin Menus
      BY <1>1, <2>3 DEF EffectivePairs
    <2> QED
      BY <2>1, <2>2, <2>3
  <1>3. Behind(j, j.slot) \in Pair
    <2>1. CASE j.op = "create" \/ IsOption(j)
      BY <2>1 DEF Behind, NoPair, Pair
    <2>2. CASE ~(j.op = "create" \/ IsOption(j))
      <3>1. j.seen \in Row /\ j.slot \in {"first", "second"}
        BY <2>2, <1>1 DEF JobInv, Slot
      <3>2. j.seen["first"] \in Pair /\ j.seen["second"] \in Pair
        BY <3>1 DEF Row
      <3> QED
        BY <2>2, <3>1, <3>2 DEF Behind
    <2> QED
      BY <2>1, <2>2
  <1> QED
    BY <1>2, <1>3, MergeIsPair DEF Job

LEMMA CheckStep ==
    ASSUME IInv, NEW w \in Workers, Check(w)
    PROVE  IInv'
  <1> PICK j \in Job : j = job[w]
    BY DEF IInv, TypeOK
  <1>1. JobInv(j) /\ j.at = "check" /\ j.op # "idle" /\ j.obj \in Objects
    BY DEF IInv, Check, JobInv
  <1>2. \A t \in Tenants : ~Refills(job[w], t)
    BY <1>1 DEF Refills
  <1>3. edits' \in 0..MaxEdits /\ UNCHANGED <<row, gone, cache, raced, hurt, call>>
    BY DEF IInv, TypeOK, Check, Editing
  <1>4. CASE Answered(w)
    <2>1. Idle \in Job /\ JobInv(Idle)
      BY DEF Idle, Job, Slot, Body, Unsaid, JobInv
    <2> QED
      BY <1>2, <1>3, <1>4, <2>1, JobStep DEF Answered
  <1>5. CASE ~Answered(w)
    <2> DEFINE k == [j EXCEPT !.at = "commit"]
    <2>1. Goes(w, "commit")
      BY <1>5 DEF Check
    <2>2. k \in Job
      BY DEF Job, Step
    <2>3. j.op = "addMember" => Owner[j.ext] = Owner[j.obj]
      BY <1>5 DEF Check
    <2>4. j.op \in {"create", "patch"} => Owned(Merge(j.body, Behind(j, j.slot)), Owner[j.obj])
      <3> SUFFICES ASSUME j.op \in {"create", "patch"}
                   PROVE  Owned(Merge(j.body, Behind(j, j.slot)), Owner[j.obj])
        OBVIOUS
      <3>1. \A p \in EffectivePairs(j) : GoodDestination(p, Owner[j.obj])
        BY <1>5 DEF Check
      <3>2. Owner[j.obj] \in Tenants
        BY <1>1, IdsOwned
      <3> QED
        BY <1>1, <3>1, <3>2, ChecksItsPair, GoodIsOwned
    <2>5. Behind(k, k.slot) = Behind(j, j.slot)
      BY DEF Behind, IsOption, Job
    <2>6. JobInv(k)
      BY <1>1, <2>3, <2>4, <2>5 DEF JobInv, Job
    <2>7. job' = [job EXCEPT ![w] = k]
      BY <2>1, GoesOn DEF IInv
    <2> HIDE DEF k
    <2> QED
      BY <1>2, <1>3, <2>2, <2>6, <2>7, JobStep
  <1> QED
    BY <1>4, <1>5

\* What a statement leaves in its row: members of the tenant, and destinations
\* of the tenant unless it raced.
LEMMA WrittenOwned ==
    ASSUME IInv, NEW w \in Workers, NEW j \in Job, j = job[w], j.at = "commit", ~Refused(j)
    PROVE  /\ Written(j) \in Row \cup {None}
           /\ Members(Written(j), Owner[j.obj])
           /\ j.obj \notin raced /\ ~Races(j) /\ Written(j) # None =>
                /\ Owned(Written(j).first, Owner[j.obj])
                /\ Owned(Written(j).second, Owner[j.obj])
  <1>1. JobInv(j) /\ j.op \in Op /\ j.obj \in Objects
    BY DEF IInv, JobInv, Job
  <1>2. PICK t \in Tenants : t = Owner[j.obj]
    BY <1>1, IdsOwned
  <1>3. PICK now \in Row \cup {None} : now = row[j.obj]
    BY <1>1 DEF IInv, TypeOK
  <1>4. /\ Members(now, t)
        /\ j.obj \notin raced /\ now # None => Owned(now.first, t) /\ Owned(now.second, t)
    BY <1>1, <1>2, <1>3 DEF IInv, RowsOwn, PairsOwned
  <1>5. CASE j.op = "create"
    <2> PICK p \in Pair : p = Merge(j.body, NoPair)
      BY <1>2, NoPairOwned, MergeIsPair DEF Job
    <2> PICK rules \in Rules : rules = CHOOSE r \in Rules : TRUE
      BY SomeRules
    <2>1. Written(j) = [first |-> p, second |-> NoPair, members |-> {}, rules |-> rules,
                         on |-> TRUE]
      BY <1>5 DEF Written, Fresh
    <2>2. Owned(p, t)
      BY <1>1, <1>2, <1>5 DEF JobInv, Behind
    <2> QED
      BY <1>2, <2>1, <2>2, NoPairOwned DEF Row, Members
  <1>6. CASE j.op = "patch"
    <2>1. now \in Row /\ now # None
      BY <1>3, <1>6 DEF Refused, Exists
    <2> DEFINE base == IF IsOption(j) THEN NoPair ELSE now[j.slot]
    <2>2. j.slot \in Slot /\ base \in Pair
      <3>1. j.slot \in {"first", "second"}
        BY DEF Job, Slot
      <3>2. now["first"] \in Pair /\ now["second"] \in Pair
        BY <2>1 DEF Row
      <3> QED
        BY <1>2, <3>1, <3>2, NoPairOwned DEF Slot
    <2> PICK p \in Pair : p = Merge(j.body, base)
      BY <2>2, MergeIsPair DEF Job
    <2>3. Written(j) = [now EXCEPT ![j.slot] = p]
      BY <1>3, <1>6 DEF Written
    <2>4. ~Races(j) => Owned(p, t)
      <3>1. Owned(Merge(j.body, Behind(j, j.slot)), t)
        BY <1>1, <1>2, <1>6 DEF JobInv
      <3>2. ~Races(j) => Behind(j, j.slot) = base
        BY <1>3, <1>6 DEF Races, Behind
      <3> QED
        BY <3>1, <3>2
    <2> HIDE DEF base
    <2>5. CASE j.slot = "first"
      <3>1. Written(j) = [now EXCEPT !.first = p]
        BY <2>3, <2>5
      <3>2. /\ Written(j) \in Row
            /\ Written(j).first = p /\ Written(j).second = now.second
            /\ Written(j).members = now.members
        BY <2>1, <3>1 DEF Row
      <3> QED
        BY <1>2, <1>4, <2>1, <2>4, <3>2 DEF Members
    <2>6. CASE j.slot = "second"
      <3>1. Written(j) = [now EXCEPT !.second = p]
        BY <2>3, <2>6
      <3>2. /\ Written(j) \in Row
            /\ Written(j).second = p /\ Written(j).first = now.first
            /\ Written(j).members = now.members
        BY <2>1, <3>1 DEF Row
      <3> QED
        BY <1>2, <1>4, <2>1, <2>4, <3>2 DEF Members
    <2> QED
      BY <2>2, <2>5, <2>6 DEF Slot
  <1>7. CASE j.op = "rules"
    <2>1. now \in Row /\ now # None /\ j.rules \in Rules
      BY <1>1, <1>3, <1>7 DEF Refused, Exists, JobInv
    <2>2. Written(j) = [now EXCEPT !.rules = j.rules]
      BY <1>3, <1>7 DEF Written
    <2> QED
      BY <1>2, <1>4, <2>1, <2>2 DEF Row, Members
  <1>12. CASE j.op \in {"enable", "disable"}
    <2>1. now \in Row /\ now # None
      BY <1>3, <1>12 DEF Refused, Exists
    <2> DEFINE on == j.op = "enable"
    <2>2. Written(j) = [now EXCEPT !.on = on] /\ on \in BOOLEAN
      BY <1>3, <1>12 DEF Written
    <2> HIDE DEF on
    <2> QED
      BY <1>2, <1>4, <2>1, <2>2 DEF Row, Members
  <1>8. CASE j.op = "addMember"
    <2>1. now \in Row /\ now # None /\ j.ext \in Exts /\ Owner[j.ext] = t
      BY <1>1, <1>2, <1>3, <1>8 DEF Refused, Exists, JobInv
    <2>2. Written(j) = [now EXCEPT !.members = now.members \cup {j.ext}]
      BY <1>3, <1>8 DEF Written
    <2> QED
      BY <1>2, <1>4, <2>1, <2>2 DEF Row, Members
  <1>9. CASE j.op = "removeMember"
    <2>1. now \in Row /\ now # None
      BY <1>3, <1>9 DEF Refused, Exists
    <2>2. Written(j) = [now EXCEPT !.members = now.members \ {j.ext}]
      BY <1>3, <1>9 DEF Written
    <2> QED
      BY <1>2, <1>4, <2>1, <2>2 DEF Row, Members
  <1>10. CASE j.op = "deleteOption" /\ now # None
    <2>1. Written(j) = [now EXCEPT !.second = NoPair]
      BY <1>3, <1>10 DEF Written
    <2> QED
      BY <1>2, <1>4, <1>10, <2>1, NoPairOwned DEF Row, Members
  <1>11. CASE j.op = "delete" \/ (j.op = "deleteOption" /\ now = None)
    <2>1. Written(j) = None
      BY <1>3, <1>11 DEF Written
    <2> QED
      BY <2>1 DEF Members
  <1> QED
    <2>1. j.op # "rebuild"
      BY <1>1 DEF JobInv
    <2> QED
      BY <1>1, <1>5, <1>6, <1>7, <1>8, <1>9, <1>10, <1>11, <1>12, <2>1 DEF Op

\* What a request that has committed goes on with.
LEMMA RebuildIsJob ==
    ASSUME NEW o \in Objects
    PROVE  /\ Rebuild(o) \in Job /\ JobInv(Rebuild(o)) /\ Rebuild(o).obj = o
           /\ Rebuild(o).at = IF o \in Dids THEN "dids" ELSE "purge"
  <1> PICK at \in {"dids", "purge"} : at = IF o \in Dids THEN "dids" ELSE "purge"
    OBVIOUS
  <1>1. Idle \in Job
    BY DEF Idle, Job, Slot, Body, Unsaid
  <1>2. Rebuild(o) = [Idle EXCEPT !.op = "rebuild", !.obj = o, !.at = at]
    BY DEF Rebuild
  <1>3. Rebuild(o) \in Job
    BY <1>1, <1>2 DEF Job, Op, Step
  <1>4. Rebuild(o).op = "rebuild" /\ Rebuild(o).obj = o /\ Rebuild(o).at = at
    BY <1>2 DEF Idle
  <1> QED
    BY <1>3, <1>4 DEF JobInv

LEMMA CommitStep ==
    ASSUME IInv, NEW w \in Workers, Commit(w)
    PROVE  IInv'
  <1> PICK j \in Job : j = job[w]
    BY DEF IInv, TypeOK
  <1>1. JobInv(j) /\ j.at = "commit" /\ j.op # "idle" /\ j.obj \in Objects
    BY DEF IInv, Commit, JobInv
  <1>2. \A t \in Tenants : ~Refills(job[w], t)
    BY <1>1 DEF Refills
  <1>3. UNCHANGED <<cache, hurt, edits, call>>
    BY DEF Commit, Editing
  <1>4. CASE Refused(j)
    <2>1. Idle \in Job /\ JobInv(Idle)
      BY DEF Idle, Job, Slot, Body, Unsaid, JobInv
    <2>2. job' = [job EXCEPT ![w] = Idle] /\ UNCHANGED <<row, gone, raced>>
      BY <1>4 DEF Commit, Answered
    <2>3. edits' \in 0..MaxEdits
      BY <1>3 DEF IInv, TypeOK
    <2> QED
      BY <1>2, <1>3, <2>1, <2>2, <2>3, JobStep
  <1>5. CASE ~Refused(j)
    <2> DEFINE at == IF j.obj \in Dids THEN "dids" ELSE "purge"
               k == Rebuild(j.obj)
    <2>1. k \in Job /\ JobInv(k) /\ k.at = at /\ k.obj = j.obj
      BY <1>1, RebuildIsJob DEF Rebuild
    <2>2. job' = [job EXCEPT ![w] = k]
      BY <1>5 DEF Commit
    <2>3. PICK x \in Row \cup {None} : x = Written(j)
      BY <1>1, <1>5, WrittenOwned
    <2>4. /\ row' = [row EXCEPT ![j.obj] = x]
          /\ gone' \in SUBSET Objects
          /\ raced \subseteq raced' /\ raced' \subseteq Objects
          /\ Races(j) => j.obj \in raced'
      BY <1>1, <1>5, <2>3 DEF Commit, IInv, TypeOK
    <2>5. /\ Members(x, Owner[j.obj])
          /\ j.obj \notin raced' /\ x # None =>
               Owned(x.first, Owner[j.obj]) /\ Owned(x.second, Owner[j.obj])
      BY <1>1, <1>5, <2>3, <2>4, WrittenOwned
    <2> HIDE DEF k
    <2>6. TypeOK'
      BY <1>1, <1>3, <2>1, <2>2, <2>4 DEF IInv, TypeOK
    <2>7. \A v \in Workers : JobInv(job[v])'
      BY <2>1, <2>2 DEF IInv, TypeOK
    <2>8. RowsOwn' /\ PairsOwned'
      BY <1>1, <2>4, <2>5 DEF IInv, TypeOK, RowsOwn, PairsOwned
    <2>9. CacheOwn' /\ \A c \in Calls : CallInv(call[c])'
      BY <1>3 DEF IInv, CacheOwn
    <2>10. Filled'
      <3> SUFFICES ASSUME NEW o \in Objects \ Dids, Enabled(o)', cache'[Owner[o]][o] = None,
                          o \notin hurt'
                   PROVE  \E v \in Workers : Refills(job'[v], Owner[o])
        BY DEF Filled
      <3>1. CASE o = j.obj
        <4>1. Refills(k, Owner[o])
          BY <2>1, <3>1 DEF Refills
        <4> QED
          BY <2>2, <4>1 DEF IInv, TypeOK
      <3>2. CASE o # j.obj
        <4>1. PICK v \in Workers : Refills(job[v], Owner[o])
          BY <1>3, <2>4, <3>2 DEF IInv, TypeOK, Filled, Enabled, Exists
        <4>2. v # w
          BY <4>1, <1>2, IdsOwned
        <4> QED
          BY <2>2, <4>1, <4>2 DEF IInv, TypeOK
      <3> QED
        BY <3>1, <3>2
    <2> QED
      BY <2>6, <2>7, <2>8, <2>9, <2>10 DEF IInv
  <1> QED
    BY <1>4, <1>5

\* A step that writes keys of tenant t, and has request w go on with k: no key
\* that another request is to fill is left to nobody.
Fills(w, k, t, entries) ==
    /\ JobInv(k)
    /\ job' = [job EXCEPT ![w] = k]
    /\ cache' = [cache EXCEPT ![t] = entries]
    /\ \A o \in Objects : entries[o] # None => Owner[o] = t /\ Members(entries[o], t)
    /\ \A s \in Tenants : Refills(job[w], s) /\ s # t => Refills(k, s)
    /\ \A o \in Objects \ Dids :
         Enabled(o) /\ Owner[o] = t /\ entries[o] = None /\ o \notin hurt'
           => Refills(k, t) \/ (cache[t][o] = None /\ o \notin hurt /\ ~Refills(job[w], t))
    /\ hurt' \subseteq Objects
    /\ \A o \in Objects : Owner[o] # t /\ o \in hurt /\ o \notin hurt' => cache[Owner[o]][o] # None
    /\ edits' \in 0..MaxEdits
    /\ Filling

LEMMA CacheStep ==
    ASSUME IInv, NEW w \in Workers, NEW k \in Job, NEW t \in Tenants,
           NEW entries \in [Objects -> Row \cup {None}], Fills(w, k, t, entries)
    PROVE  IInv'
  <1>1. TypeOK'
    BY DEF IInv, TypeOK, Fills, Filling, Editing
  <1>2. \A v \in Workers : JobInv(job[v])'
    BY DEF IInv, TypeOK, Fills
  <1>3. CacheOwn'
    BY DEF IInv, TypeOK, CacheOwn, Fills
  <1>4. Filled'
    <2> SUFFICES ASSUME NEW o \in Objects \ Dids, Enabled(o), cache'[Owner[o]][o] = None,
                        o \notin hurt'
                 PROVE  \E v \in Workers : Refills(job'[v], Owner[o])
      BY DEF Filled, Filling, Fills, Enabled, Exists
    <2>1. Owner[o] \in Tenants
      BY IdsOwned
    <2>2. CASE Refills(k, Owner[o])
      BY <2>2 DEF IInv, TypeOK, Fills
    <2>3. CASE ~Refills(k, Owner[o])
      <3>1. cache[Owner[o]][o] = None /\ o \notin hurt /\ ~Refills(job[w], Owner[o])
        BY <2>1, <2>3 DEF IInv, TypeOK, Fills
      <3>2. PICK v \in Workers : Refills(job[v], Owner[o])
        BY <3>1 DEF IInv, Filled
      <3> QED
        BY <3>1, <3>2 DEF IInv, TypeOK, Fills
    <2> QED
      BY <2>2, <2>3
  <1>5. RowsOwn' /\ PairsOwned' /\ \A c \in Calls : CallInv(call[c])'
    BY DEF IInv, RowsOwn, PairsOwned, Filling, Editing, Fills
  <1> QED
    BY <1>1, <1>2, <1>3, <1>4, <1>5 DEF IInv

LEMMA PurgeStep ==
    ASSUME IInv, NEW w \in Workers, NEW kept, Purge(w, kept), edits' \in 0..MaxEdits
    PROVE  IInv'
  <1> PICK j \in Job : j = job[w]
    BY DEF IInv, TypeOK
  <1>1. JobInv(j) /\ j.at = "purge" /\ j.op # "idle" /\ j.obj \in Objects \ Dids
    BY DEF IInv, Purge, JobInv
  <1> PICK t \in Tenants : t = TenantOf(w)
    BY <1>1, IdsOwned DEF TenantOf
  <1> DEFINE k == [j EXCEPT !.at = "dids"]
             entries == [o \in Objects |-> IF o \in kept THEN cache[t][o] ELSE None]
  <1>2. k \in Job /\ JobInv(k) /\ Refills(k, t)
    BY <1>1 DEF Job, Step, JobInv, Refills, TenantOf
  <1>3. job' = [job EXCEPT ![w] = k]
    <2>1. Goes(w, "dids")
      BY DEF Purge
    <2> QED
      BY <2>1, GoesOn DEF IInv
  <1>4. \A s \in Tenants : Refills(job[w], s) => s = t
    BY DEF Refills, TenantOf
  <1>5. /\ entries \in [Objects -> Row \cup {None}]
        /\ cache' = [cache EXCEPT ![t] = entries]
        /\ \A o \in Objects : entries[o] # None => Owner[o] = t /\ Members(entries[o], t)
    BY DEF Purge, IInv, TypeOK, CacheOwn
  <1>6. Filling /\ hurt' = hurt /\ hurt \subseteq Objects
    BY DEF Purge, Filling, IInv, TypeOK
  <1>7. /\ \A s \in Tenants : Refills(job[w], s) /\ s # t => Refills(k, s)
        /\ \A o \in Objects \ Dids :
             Enabled(o) /\ Owner[o] = t /\ entries[o] = None /\ o \notin hurt'
               => Refills(k, t) \/ (cache[t][o] = None /\ o \notin hurt /\ ~Refills(job[w], t))
    BY <1>2, <1>4
  <1> HIDE DEF k, entries
  <1>8. Fills(w, k, t, entries)
    BY <1>2, <1>3, <1>5, <1>6, <1>7 DEF Fills
  <1> QED
    BY <1>2, <1>5, <1>8, CacheStep

\* What a builder makes of the tenant's keys, and which of them it takes to be lost.
LEMMA SetEntries ==
    ASSUME IInv, NEW w \in Workers, NEW kind, NEW lost, Set(w, kind, lost),
           kind \subseteq Objects, NEW t \in Tenants, t = TenantOf(w)
    PROVE  \E entries \in [Objects -> Row \cup {None}] :
             /\ cache' = [cache EXCEPT ![t] = entries]
             /\ hurt' \subseteq Objects
             /\ \A o \in Objects : Owner[o] # t /\ o \in hurt /\ o \notin hurt'
                                    => cache[Owner[o]][o] # None
             /\ \A o \in Objects : entries[o] # None => Owner[o] = t /\ Members(entries[o], t)
             /\ \A o \in Objects : o \notin kind => entries[o] = cache[t][o]
             /\ \A o \in Objects : Owner[o] = t /\ entries[o] = None /\ o \notin hurt'
                                    => o \notin hurt /\ ~(o \in kind /\ Enabled(o))
  <1> DEFINE rows == {o \in kind : Owner[o] = t /\ Enabled(o)}
             entries == [o \in Objects |-> IF o \in rows \ lost THEN row[o] ELSE cache[t][o]]
  <1>1. entries \in [Objects -> Row \cup {None}] /\ hurt \subseteq Objects
    BY DEF IInv, TypeOK
  <1>2. cache' = [cache EXCEPT ![t] = entries]
    BY DEF Set
  <1>3. \A o \in Objects : entries[o] # None => Owner[o] = t /\ Members(entries[o], t)
    BY DEF IInv, RowsOwn, CacheOwn
  <1>4. \A o \in Objects : o \in rows \ lost => entries[o] # None
    BY DEF Enabled, Exists
  <1>5. \A o \in Objects : o \notin kind => entries[o] = cache[t][o]
    OBVIOUS
  <1>6. hurt' = {o \in hurt \cup (rows \cap lost) : cache'[Owner[o]][o] = None}
    BY DEF Set
  <1>7. \A o \in Objects : cache'[Owner[o]][o] = IF Owner[o] = t THEN entries[o] ELSE cache[Owner[o]][o]
    BY <1>2, IdsOwned DEF IInv, TypeOK
  <1>9. \A o \in rows : o \in kind /\ Owner[o] = t /\ Enabled(o)
    OBVIOUS
  <1>10. \A o \in kind : Owner[o] = t /\ Enabled(o) => o \in rows
    OBVIOUS
  <1> HIDE DEF entries, rows
  <1>11. \A o \in Objects : Owner[o] # t /\ o \in hurt /\ o \notin hurt'
                              => cache[Owner[o]][o] # None
    BY <1>6, <1>7
  <1>12. \A o \in Objects : Owner[o] = t /\ entries[o] = None /\ o \notin hurt'
                              => o \notin hurt /\ ~(o \in kind /\ Enabled(o))
    BY <1>4, <1>6, <1>7, <1>10
  <1>13. hurt' \subseteq Objects
    BY <1>1, <1>6, <1>9
  <1> QED
    BY <1>1, <1>2, <1>3, <1>5, <1>11, <1>12, <1>13

LEMMA CacheInboundRoutesStep ==
    ASSUME IInv, NEW w \in Workers, NEW lost, CacheInboundRoutes(w, lost),
           edits' \in 0..MaxEdits
    PROVE  IInv'
  <1> PICK j \in Job : j = job[w]
    BY DEF IInv, TypeOK
  <1>1. JobInv(j) /\ j.at = "dids" /\ j.op # "idle" /\ j.obj \in Objects
    BY DEF IInv, CacheInboundRoutes, JobInv
  <1> PICK t \in Tenants : t = TenantOf(w)
    BY <1>1, IdsOwned DEF TenantOf
  <1>7. Set(w, Dids, lost) /\ Filling
    BY DEF CacheInboundRoutes
  <1> PICK entries \in [Objects -> Row \cup {None}] :
             /\ cache' = [cache EXCEPT ![t] = entries]
             /\ hurt' \subseteq Objects
             /\ \A o \in Objects : Owner[o] # t /\ o \in hurt /\ o \notin hurt'
                                    => cache[Owner[o]][o] # None
             /\ \A o \in Objects : entries[o] # None => Owner[o] = t /\ Members(entries[o], t)
             /\ \A o \in Objects : o \notin Dids => entries[o] = cache[t][o]
             /\ \A o \in Objects : Owner[o] = t /\ entries[o] = None /\ o \notin hurt'
                                    => o \notin hurt /\ ~(o \in Dids /\ Enabled(o))
    <2>1. Dids \subseteq Objects
      BY DEF Objects
    <2> QED
      BY <1>7, <2>1, SetEntries
  <1>2. \A s \in Tenants : Refills(job[w], s) => s = t
    BY DEF Refills, TenantOf
  <1>4. CASE j.obj \in Dids
    <2>1. Idle \in Job /\ JobInv(Idle)
      BY DEF Idle, Job, Slot, Body, Unsaid, JobInv
    <2>2. job' = [job EXCEPT ![w] = Idle]
      BY <1>4 DEF CacheInboundRoutes, Answered
    <2>3. ~Refills(job[w], t)
      BY <1>4 DEF Refills
    <2>4. /\ \A s \in Tenants : Refills(job[w], s) /\ s # t => Refills(Idle, s)
          /\ \A o \in Objects \ Dids :
               Enabled(o) /\ Owner[o] = t /\ entries[o] = None /\ o \notin hurt'
                 => Refills(Idle, t) \/ (cache[t][o] = None /\ o \notin hurt /\ ~Refills(job[w], t))
      BY <1>2, <2>3
    <2>5. Fills(w, Idle, t, entries)
      BY <1>7, <2>1, <2>2, <2>4 DEF Fills
    <2> QED
      BY <2>1, <2>5, CacheStep
  <1>5. CASE j.obj \notin Dids
    <2> DEFINE k == [j EXCEPT !.at = "objects"]
    <2>1. k \in Job /\ JobInv(k) /\ Refills(k, t)
      BY <1>1, <1>5 DEF Job, Step, JobInv, Refills, TenantOf
    <2>2. Goes(w, "objects")
      BY <1>5 DEF CacheInboundRoutes
    <2>3. job' = [job EXCEPT ![w] = k]
      BY <2>2, GoesOn DEF IInv
    <2> HIDE DEF k
    <2>4. /\ \A s \in Tenants : Refills(job[w], s) /\ s # t => Refills(k, s)
          /\ \A o \in Objects \ Dids :
               Enabled(o) /\ Owner[o] = t /\ entries[o] = None /\ o \notin hurt'
                 => Refills(k, t) \/ (cache[t][o] = None /\ o \notin hurt /\ ~Refills(job[w], t))
      BY <1>2, <2>1
    <2>5. Fills(w, k, t, entries)
      BY <1>7, <2>1, <2>3, <2>4 DEF Fills
    <2> QED
      BY <2>1, <2>5, CacheStep
  <1> QED
    BY <1>4, <1>5

LEMMA CacheObjectsStep ==
    ASSUME IInv, NEW w \in Workers, NEW lost, CacheObjects(w, lost), edits' \in 0..MaxEdits
    PROVE  IInv'
  <1> PICK j \in Job : j = job[w]
    BY DEF IInv, TypeOK
  <1>1. JobInv(j) /\ j.at = "objects" /\ j.op # "idle" /\ j.obj \in Objects
    BY DEF IInv, CacheObjects, JobInv
  <1> PICK t \in Tenants : t = TenantOf(w)
    BY <1>1, IdsOwned DEF TenantOf
  <1>7. Set(w, Objects \ Dids, lost) /\ Filling
    BY DEF CacheObjects
  <1> PICK entries \in [Objects -> Row \cup {None}] :
             /\ cache' = [cache EXCEPT ![t] = entries]
             /\ hurt' \subseteq Objects
             /\ \A o \in Objects : Owner[o] # t /\ o \in hurt /\ o \notin hurt'
                                    => cache[Owner[o]][o] # None
             /\ \A o \in Objects : entries[o] # None => Owner[o] = t /\ Members(entries[o], t)
             /\ \A o \in Objects : o \notin Objects \ Dids => entries[o] = cache[t][o]
             /\ \A o \in Objects : Owner[o] = t /\ entries[o] = None /\ o \notin hurt'
                                    => o \notin hurt /\ ~(o \in Objects \ Dids /\ Enabled(o))
    BY <1>7, SetEntries
  <1>2. \A s \in Tenants : Refills(job[w], s) => s = t
    BY DEF Refills, TenantOf
  <1>3. Idle \in Job /\ JobInv(Idle)
    BY DEF Idle, Job, Slot, Body, Unsaid, JobInv
  <1>4. job' = [job EXCEPT ![w] = Idle]
    BY DEF CacheObjects, Answered
  <1>5. /\ \A s \in Tenants : Refills(job[w], s) /\ s # t => Refills(Idle, s)
        /\ \A o \in Objects \ Dids :
             Enabled(o) /\ Owner[o] = t /\ entries[o] = None /\ o \notin hurt'
               => Refills(Idle, t) \/ (cache[t][o] = None /\ o \notin hurt /\ ~Refills(job[w], t))
    BY <1>2
  <1>6. Fills(w, Idle, t, entries)
    BY <1>3, <1>4, <1>5, <1>7 DEF Fills
  <1> QED
    BY <1>3, <1>6, CacheStep

LEMMA CachesStep ==
    ASSUME IInv, NEW w \in Workers, NEW keys, Caches(w, keys), edits' \in 0..MaxEdits
    PROVE  IInv'
  BY PurgeStep, CacheInboundRoutesStep, CacheObjectsStep DEF Caches

LEMMA WorkStep ==
    ASSUME IInv, NEW w \in Workers, Work(w)
    PROVE  IInv'
  <1>1. CASE Caches(w, {}) /\ UNCHANGED edits
    <2>1. edits' \in 0..MaxEdits
      BY <1>1 DEF IInv, TypeOK
    <2> QED
      BY <1>1, <2>1, CachesStep
  <1> QED
    BY <1>1, CheckStep, CommitStep DEF Work

-----------------------------------------------------------------------------
(* Faults. *)

LEMMA FaultEdits == ASSUME TypeOK, Fault PROVE edits' \in 0..MaxEdits
  BY DepthBound DEF TypeOK, Fault

\* Whoever gives up his rebuild, and whatever else goes with it: the keys that are
\* not there are hurt.
LEMMA AbortStep ==
    ASSUME IInv, NEW w \in Workers, Abort(w)
    PROVE  IInv'
  <1> PICK j \in Job : j = job[w]
    BY DEF IInv, TypeOK
  <1>1. JobInv(j) /\ j.obj \in Objects
    BY DEF IInv, Abort, JobInv
  <1> PICK t \in Tenants : t = TenantOf(w)
    BY <1>1, IdsOwned DEF TenantOf
  <1>2. Idle \in Job /\ JobInv(Idle)
    BY DEF Idle, Job, Slot, Body, Unsaid, JobInv
  <1>3. /\ job' = [job EXCEPT ![w] = Idle] /\ Filling /\ cache' = cache
        /\ hurt' = hurt \cup {o \in Objects : Owner[o] = t /\ Enabled(o)
                                               /\ cache[Owner[o]][o] = None}
    BY DEF Abort, Answered, Filling
  <1>4. edits' \in 0..MaxEdits
    BY FaultEdits DEF IInv, Abort
  <1> DEFINE entries == cache[t]
  <1>5. /\ entries \in [Objects -> Row \cup {None}]
        /\ cache' = [cache EXCEPT ![t] = entries]
        /\ \A o \in Objects : entries[o] # None => Owner[o] = t /\ Members(entries[o], t)
    BY <1>3 DEF IInv, TypeOK, CacheOwn
  <1>6. \A s \in Tenants : Refills(job[w], s) => s = t
    BY DEF Refills, TenantOf
  <1>7. /\ \A s \in Tenants : Refills(job[w], s) /\ s # t => Refills(Idle, s)
        /\ \A o \in Objects \ Dids :
             Enabled(o) /\ Owner[o] = t /\ entries[o] = None /\ o \notin hurt'
               => Refills(Idle, t) \/ (cache[t][o] = None /\ o \notin hurt /\ ~Refills(job[w], t))
    BY <1>3, <1>6
  <1>8. /\ hurt' \subseteq Objects
        /\ \A o \in Objects : Owner[o] # t /\ o \in hurt /\ o \notin hurt' => cache[Owner[o]][o] # None
    BY <1>3 DEF IInv, TypeOK
  <1> HIDE DEF entries
  <1>9. Fills(w, Idle, t, entries)
    BY <1>2, <1>3, <1>4, <1>5, <1>7, <1>8 DEF Fills
  <1> QED
    BY <1>2, <1>5, <1>9, CacheStep

LEMMA RedisRestartsStep ==
    ASSUME IInv, RedisRestarts
    PROVE  IInv'
  <1>1. /\ cache' = [t \in Tenants |-> [o \in Objects |-> None]]
        /\ hurt' = {o \in Objects : Enabled(o)}
        /\ UNCHANGED <<row, gone, job, raced, call>>
    BY DEF RedisRestarts, Editing
  <1>2. edits' \in 0..MaxEdits
    BY FaultEdits DEF IInv, RedisRestarts
  <1>3. TypeOK'
    BY <1>1, <1>2 DEF IInv, TypeOK
  <1>4. CacheOwn' /\ Filled'
    BY <1>1, IdsOwned DEF CacheOwn, Filled, Enabled, Exists
  <1>5. RowsOwn' /\ PairsOwned' /\ \A c \in Calls : CallInv(call[c])'
    BY <1>1 DEF IInv, RowsOwn, PairsOwned
  <1>6. \A v \in Workers : JobInv(job[v])'
    BY <1>1 DEF IInv
  <1> QED
    BY <1>3, <1>4, <1>5, <1>6 DEF IInv

LEMMA FaultStep ==
    ASSUME IInv,
           RedisRestarts \/ \E w \in Workers : CommandsFail(w) \/ Abort(w)
    PROVE  IInv'
  <1>1. ASSUME NEW w \in Workers, CommandsFail(w) PROVE IInv'
    <2>1. edits' \in 0..MaxEdits
      BY <1>1, FaultEdits DEF IInv, CommandsFail
    <2> QED
      BY <1>1, <2>1, CachesStep DEF CommandsFail
  <1> QED
    BY <1>1, AbortStep, RedisRestartsStep

-----------------------------------------------------------------------------
(* Calls. *)

\* A call that is over, for whatever cause.
LEMMA OverCall ==
    ASSUME NEW cause \in Cause
    PROVE  Over(cause) \in Call /\ CallInv(Over(cause)) /\ Over(cause).cause = cause
  <1>1. Over(cause) \in Call
    <2>1. NoCall \in Call
      BY DepthBound DEF Call, NoCall, Cause
    <2> QED
      BY <2>1 DEF Over, Call
  <1>2. /\ Over(cause).at = "ended" /\ Over(cause).entry = None /\ Over(cause).rings = {}
        /\ Over(cause).cause = cause /\ Over(cause).depth = 0
    BY DEF Over, NoCall
  <1> QED
    BY <1>1, <1>2 DEF CallInv

\* An end, for any cause but that an object was missing.
LEMMA EndStep ==
    ASSUME IInv, NEW c \in Calls, NEW cause \in Cause, End(c, cause), Calling
    PROVE  /\ IInv'
           /\ cause # "missing" => call'[c].cause # "missing"
           /\ \A d \in Calls \ {c} : call'[d] = call[d]
  <1>1. Becomes(c, Over(cause))
    BY DEF End
  <1> QED
    BY <1>1, OverCall, CallStep DEF Becomes, IInv, TypeOK

\* A step of call c that finds whatever it looks for.
Finds(c) == \A d \in Calls : call'[d].cause = "missing" => call[d].cause = "missing"

LEMMA EndFinds ==
    ASSUME IInv, NEW c \in Calls, NEW cause \in Cause \ {"missing"}, End(c, cause), Calling
    PROVE  IInv' /\ Finds(c)
  BY EndStep DEF Finds

LEMMA CallFinds ==
    ASSUME IInv, NEW c \in Calls, NEW r \in Call, CallInv(r), r.cause # "missing",
           Becomes(c, r), Calling
    PROVE  IInv' /\ Finds(c)
  BY CallStep DEF Finds, Becomes, IInv, TypeOK

LEMMA GoStep ==
    ASSUME IInv, NEW c \in Calls, call[c].at = "open", NEW p \in Pair, Go(c, p), Calling
    PROVE  IInv' /\ Finds(c)
  <1> PICK r \in Call : r = call[c]
    BY DEF IInv, TypeOK
  <1>1. CallInv(r) /\ r.at = "open"
    BY DEF IInv
  <1>2. CASE p.type = None
    BY <1>2, EndFinds DEF Go, Cause
  <1>3. CASE p.type # None /\ r.depth + 1 > MaxDepth
    BY <1>3, EndFinds DEF Go, Cause
  <1>4. CASE p.type # None /\ ~(r.depth + 1 > MaxDepth) /\ p.type \in Script \cup {"extension"}
    <2> DEFINE k == [r EXCEPT !.at = "script", !.type = p.type, !.id = p.id,
                              !.entry = None, !.rings = {}, !.depth = r.depth + 1]
    <2>1. Becomes(c, k)
      BY <1>4 DEF Go
    <2>2. k \in Call
      <3>1. r.depth + 1 \in 0..MaxDepth
        BY <1>4, DepthBound DEF Call
      <3>2. p.type \in Type \cup {None} /\ p.id \in Id \cup {None}
        BY DEF Pair
      <3> QED
        BY <3>1, <3>2 DEF Call
    <2>3. CallInv(k)
      BY <1>1, <1>4 DEF CallInv, Call
    <2>4. CASE r.cause # "missing"
      <3>1. k.cause # "missing"
        BY <2>4 DEF Call
      <3> HIDE DEF k
      <3> QED
        BY <2>1, <2>2, <2>3, <3>1, CallFinds
    <2>5. CASE r.cause = "missing"
      <3> HIDE DEF k
      <3> QED
        BY <2>1, <2>2, <2>3, <2>5, CallStep DEF Finds, Becomes, IInv, TypeOK
    <2> QED
      BY <2>4, <2>5
  <1>5. CASE p.type # None /\ ~(r.depth + 1 > MaxDepth) /\ p.type \notin Script \cup {"extension"}
    <2>1. p.type \in {"voicemail", "fax", "external", "hangup"}
      BY <1>5 DEF Pair, Type
    <2>2. Outcome[p.type] \in Cause \ {"missing"}
      BY <2>1 DEF Outcome, Cause
    <2>3. End(c, Outcome[p.type])
      BY <1>5 DEF Go
    <2> QED
      BY <2>2, <2>3, EndFinds
  <1> QED
    BY <1>2, <1>3, <1>4, <1>5

LEMMA EntersScript ==
    ASSUME NEW r \in Call, NEW type \in Type \cup {None}, NEW id \in Id \cup {None}
    PROVE  [r EXCEPT !.at = "script", !.type = type, !.id = id] \in Call
  BY DEF Call

LEMMA ArriveStep ==
    ASSUME IInv, NEW c \in Calls, NEW d \in Dids, Arrive(c, d)
    PROVE  IInv' /\ Finds(c)
  <1> d \in Objects
    BY DEF Objects
  <1> PICK t \in Tenants : t = Owner[d]
    BY IdsOwned
  <1> PICK e \in Row \cup {None} : e = cache[t][d]
    BY DEF IInv, TypeOK
  <1> DEFINE home == [NoCall EXCEPT !.tenant = t]
  <1>1. Calling
    BY DEF Arrive
  <1>2. home \in Call /\ home.at = "idle" /\ home.cause = "none"
    BY DepthBound DEF Call, NoCall, Cause
  <1>3. CASE e = None
    <2>1. End(c, "noRoute")
      BY <1>3 DEF Arrive, End
    <2> QED
      BY <1>1, <2>1, EndFinds DEF Cause
  <1>4. CASE e # None
    <2> PICK p \in Pair : p = e.first
      BY <1>4 DEF Row
    <2>1. CASE p.type \in Script \cup {"extension"}
      <3> DEFINE k == [home EXCEPT !.at = "script", !.type = p.type, !.id = p.id]
      <3>1. Becomes(c, k)
        BY <1>4, <2>1 DEF Arrive
      <3>2. k \in Call
        <4>1. p.type \in Type \cup {None} /\ p.id \in Id \cup {None}
          BY DEF Pair
        <4> QED
          BY <1>2, <4>1, EntersScript
      <3>3. CallInv(k) /\ k.cause # "missing"
        BY <2>1 DEF CallInv, NoCall
      <3> HIDE DEF k
      <3> QED
        BY <1>1, <3>1, <3>2, <3>3, CallFinds
    <2>2. CASE p.type \notin Script \cup {"extension"}
      <3> DEFINE cause == IF p.type \in {"voicemail", "fax"} THEN Outcome[p.type]
                          ELSE "unallocated"
      <3>1. End(c, cause)
        BY <1>4, <2>2 DEF Arrive, End
      <3>2. cause \in Cause \ {"missing"}
        BY DEF Outcome, Cause
      <3> HIDE DEF cause
      <3> QED
        BY <1>1, <3>1, <3>2, EndFinds
    <2> QED
      BY <2>1, <2>2
  <1> QED
    BY <1>3, <1>4

LEMMA DialStep ==
    ASSUME IInv, NEW c \in Calls, NEW type \in Script \cup {"extension"},
           NEW id \in Id, NEW t \in Tenants,
           Becomes(c, [NoCall EXCEPT !.at = "script", !.tenant = t, !.type = type, !.id = id]),
           Calling
    PROVE  IInv' /\ Finds(c)
  <1> DEFINE k == [NoCall EXCEPT !.at = "script", !.tenant = t, !.type = type, !.id = id]
  <1>1. k \in Call
    <2>1. NoCall \in Call
      BY DepthBound DEF Call, NoCall, Cause
    <2>2. type \in Type
      BY DEF Type
    <2> QED
      BY <2>1, <2>2 DEF Call
  <1>2. CallInv(k) /\ k.cause # "missing"
    BY DEF CallInv, NoCall
  <1> QED
    BY <1>1, <1>2, CallFinds

LEMMA ArrivalStep ==
    ASSUME IInv, NEW c \in Calls, Arrival(c)
    PROVE  IInv' /\ Finds(c)
  <1>1. CASE \E d \in Dids : Arrive(c, d)
    BY <1>1, ArriveStep
  <1>2. ASSUME NEW type \in Script, NEW o \in Groups \cup Menus, DialNumber(c, type, o)
        PROVE  IInv' /\ Finds(c)
    <2>1. o \in Objects /\ o \in Id /\ Owner[o] \in Tenants
      BY IdsOwned DEF Objects, Id
    <2> QED
      BY <1>2, <2>1, DialStep DEF DialNumber
  <1>3. ASSUME NEW e \in Exts, DialExtension(c, e) PROVE IInv' /\ Finds(c)
    <2>1. Number[e] \in Id /\ Owner[e] \in Tenants
      BY IdsOwned, NumbersGiven DEF Id
    <2> QED
      BY <1>3, <2>1, DialStep DEF DialExtension
  <1> QED
    BY <1>1, <1>2, <1>3 DEF Arrival

LEMMA OpenStep ==
    ASSUME IInv, NEW c \in Calls, Open(c)
    PROVE  /\ IInv'
           /\ \A d \in Calls \ {c} : call'[d] = call[d]
  <1> PICK r \in Call : r = call[c]
    BY DEF IInv, TypeOK
  <1> DEFINE entry == Fetch(r.type, r.id, r.tenant)
  <1>1. CallInv(r) /\ r.at = "script" /\ r.type \in Script /\ r.tenant \in Tenants /\ Calling
    BY DEF IInv, Open, CallInv
  <1>2. CASE entry = None
    BY <1>1, <1>2, EndStep DEF Open, Cause
  <1>3. CASE entry # None
    <2>1. r.id \in Objects /\ entry = cache[r.tenant][r.id]
      BY <1>1, <1>3, KindsAreObjects DEF Fetch
    <2>2. entry \in Row /\ Owner[r.id] = r.tenant /\ \A e \in entry.members : Owner[e] = r.tenant
      BY <1>1, <1>3, <2>1 DEF IInv, TypeOK, CacheOwn, Members
    <2> PICK e \in Row : e = entry
      BY <2>2
    <2> DEFINE rings == IF r.type = "ring_group" THEN e.members ELSE {}
               k == [r EXCEPT !.at = "open", !.entry = e, !.rings = rings]
    <2>3. Becomes(c, k)
      BY <1>3 DEF Open
    <2>4. rings \in SUBSET Exts /\ \A x \in rings : Owner[x] = r.tenant
      BY <2>2 DEF Row
    <2> HIDE DEF rings, entry
    <2>5. k \in Call
      BY <2>4 DEF Call
    <2>6. CallInv(k)
      BY <1>1, <2>1, <2>2, <2>4 DEF CallInv, Call
    <2> HIDE DEF k
    <2> QED
      BY <1>1, <2>3, <2>5, <2>6, CallStep DEF Becomes, IInv, TypeOK
  <1> QED
    BY <1>2, <1>3

LEMMA OpenExtensionStep ==
    ASSUME IInv, NEW c \in Calls, OpenExtension(c)
    PROVE  IInv' /\ Finds(c)
  <1> PICK r \in Call : r = call[c]
    BY DEF IInv, TypeOK
  <1> PICK rings \in SUBSET Exts : rings = Found(r.id, r.tenant)
    BY DEF Found
  <1> DEFINE k == [r EXCEPT !.at = "open", !.rings = rings]
  <1>1. CallInv(r) /\ r.at = "script" /\ r.type = "extension" /\ r.tenant \in Tenants
    BY DEF IInv, OpenExtension, CallInv
  <1>2. Becomes(c, k) /\ Calling
    BY DEF OpenExtension
  <1>3. k \in Call /\ k.cause = r.cause
    BY DEF Call
  <1>4. CallInv(k)
    <2>1. \A e \in rings : Owner[e] = r.tenant
      BY DEF Found
    <2>2. "extension" \notin Script
      BY DEF Script
    <2> QED
      BY <1>1, <2>1, <2>2 DEF CallInv, Call
  <1> HIDE DEF k
  <1> QED
    BY <1>2, <1>3, <1>4, CallStep DEF Finds, Becomes, IInv, TypeOK

\* What a call that is up finds in its object.
LEMMA EntryPairs ==
    ASSUME IInv, NEW c \in Calls, call[c].at = "open", call[c].type \in Script
    PROVE  call[c].entry.first \in Pair /\ call[c].entry.second \in Pair
  BY DEF IInv, CallInv, Row

LEMMA RunsStep ==
    ASSUME IInv, NEW c \in Calls, Runs(c), ~Open(c)
    PROVE  IInv' /\ Finds(c)
  <1>1. CASE OpenExtension(c)
    BY <1>1, OpenExtensionStep
  <1>2. CASE FailOver(c)
    <2>1. call[c].at = "open" /\ call[c].entry.first \in Pair /\ Calling
      BY <1>2, EntryPairs DEF FailOver, In, Script
    <2> QED
      BY <1>2, <2>1, EndFinds, GoStep DEF FailOver, Cause
  <1>3. CASE ExhaustRetries(c)
    <2>1. call[c].at = "open" /\ call[c].entry.first \in Pair /\ Calling
      BY <1>3, EntryPairs DEF ExhaustRetries, In, Script
    <2> QED
      BY <1>3, <2>1, EndFinds, GoStep DEF ExhaustRetries, Cause
  <1>4. CASE TakeMessage(c)
    BY <1>4, EndFinds DEF TakeMessage, Cause
  <1>5. CASE Forward(c)
    <2> DEFINE p == [type |-> "external", id |-> Outside]
    <2>1. p \in Pair
      BY DEF Pair, Type, Id
    <2>2. call[c].at = "open" /\ Go(c, p) /\ Calling
      BY <1>5 DEF Forward, In
    <2> HIDE DEF p
    <2> QED
      BY <2>1, <2>2, GoStep
  <1>6. ASSUME NEW now \in Moments, AskTheTime(c, now) PROVE IInv' /\ Finds(c)
    <2>1. /\ call[c].at = "open" /\ Calling
          /\ call[c].entry.first \in Pair /\ call[c].entry.second \in Pair
      BY <1>6, EntryPairs DEF AskTheTime, In, Script
    <2>2. \E p \in Pair : Go(c, p)
      BY <1>6, <2>1 DEF AskTheTime
    <2> QED
      BY <2>1, <2>2, GoStep
  <1> QED
    BY <1>1, <1>2, <1>3, <1>4, <1>5, <1>6 DEF Runs

LEMMA PeopleStep ==
    ASSUME IInv, NEW c \in Calls, People(c)
    PROVE  IInv' /\ Finds(c)
  <1>1. CASE Answer(c)
    BY <1>1, EndFinds DEF Answer, Cause
  <1>2. CASE PressDigit(c)
    <2>1. call[c].at = "open" /\ call[c].entry.second \in Pair /\ Calling
      BY <1>2, EntryPairs DEF PressDigit, In, Script
    <2> QED
      BY <1>2, <2>1, GoStep DEF PressDigit
  <1>3. CASE CallerHangsUp(c)
    BY <1>3, EndFinds DEF CallerHangsUp, Cause
  <1> QED
    BY <1>1, <1>2, <1>3 DEF People

LEMMA StutterStep ==
    ASSUME IInv, UNCHANGED vars
    PROVE  IInv'
  BY DEF IInv, TypeOK, RowsOwn, CacheOwn, PairsOwned, Filled, Enabled, Exists, vars

LEMMA NextStep ==
    ASSUME IInv, [Next]_vars
    PROVE  IInv'
  <1>1. ASSUME NEW w \in Workers, Request(w) \/ Work(w) PROVE IInv'
    BY <1>1, RequestStep, WorkStep
  <1>2. ASSUME NEW c \in Calls, Arrival(c) \/ Runs(c) \/ People(c) PROVE IInv'
    BY <1>2, ArrivalStep, OpenStep, RunsStep, PeopleStep
  <1> QED
    BY <1>1, <1>2, FaultStep, StutterStep DEF Next

LEMMA Inductive == Spec => []IInv
  BY InitIInv, NextStep, PTL DEF Spec

-----------------------------------------------------------------------------
(* The loop over the rules of a time condition. *)

\* Induction on numbers, with a set for the predicate: a set of naturals that
\* begins at 0 and goes on has them all, for else it would miss a least one.
LEMMA NoNumberMissing ==
    ASSUME NEW S \in SUBSET Nat, 0 \in S, \A n \in S : n + 1 \in S
    PROVE  S = Nat
  <1> SUFFICES ASSUME S # Nat PROVE FALSE
    OBVIOUS
  <1> DEFINE T == Nat \ S
  <1>1. T \subseteq Nat /\ T # {}
    OBVIOUS
  <1>2. PICK x \in T : \A y \in T : <<y, x>> \notin OpToRel(<, Nat)
    <2> HIDE DEF T
    <2> QED
      BY <1>1, NatLessThanWellFounded, WFMin
  <1>3. x # 0 /\ x - 1 \in Nat
    OBVIOUS
  <1>4. x - 1 \in T
    BY <1>3
  <1>5. <<x - 1, x>> \in OpToRel(<, Nat)
    BY <1>3 DEF OpToRel
  <1> QED
    BY <1>2, <1>4, <1>5

\* The rules that match, by their places in the list.
Hits(rules, now) == {i \in DOMAIN rules : RuleMatches(rules[i], now)}

\* One round of the loop for each place, on what run knew at the place before.
Rounds(run, rules, hits) ==
    [i \in 0..Len(rules) |->
        IF i = 0 THEN "no"
        ELSE IF run[i - 1] = "excluded" \/ i \notin hits THEN run[i - 1]
        ELSE IF rules[i].invert THEN "excluded" ELSE "yes"]

\* What the loop knows after i rules, said without the loop.
Verdict(rules, hits, i) ==
    IF \E k \in hits : k <= i /\ rules[k].invert THEN "excluded"
    ELSE IF \E k \in hits : k <= i THEN "yes" ELSE "no"

Verdicts(rules, hits) == [i \in 0..Len(rules) |-> Verdict(rules, hits, i)]

LEMMA NextVerdict ==
    ASSUME NEW rules \in Rules, NEW hits \in SUBSET (DOMAIN rules),
           NEW i \in 1..Len(rules)
    PROVE  Verdict(rules, hits, i) =
             IF Verdict(rules, hits, i - 1) = "excluded" \/ i \notin hits
             THEN Verdict(rules, hits, i - 1)
             ELSE IF rules[i].invert THEN "excluded" ELSE "yes"
  <1>1. i \in Nat /\ Len(rules) \in Nat /\ hits \subseteq 1..Len(rules)
    BY RulesAreLists
  <1>2. \A k \in hits : k <= i <=> (k <= i - 1 \/ k = i)
    BY <1>1
  <1> QED
    BY <1>1, <1>2 DEF Verdict

\* There is a function that the loop's recursion describes.
LEMMA VerdictsAreRounds ==
    ASSUME NEW rules \in Rules, NEW hits \in SUBSET (DOMAIN rules)
    PROVE  Verdicts(rules, hits) = Rounds(Verdicts(rules, hits), rules, hits)
  <1> PICK n \in Nat : n = Len(rules) /\ DOMAIN rules = 1..n
    BY RulesAreLists
  <1> SUFFICES ASSUME NEW i \in 0..n
               PROVE  Verdict(rules, hits, i) = Rounds(Verdicts(rules, hits), rules, hits)[i]
    BY DEF Verdicts, Rounds
  <1>1. CASE i = 0
    <2>1. \A k \in hits : ~(k <= 0)
      OBVIOUS
    <2> QED
      BY <1>1, <2>1 DEF Verdict, Rounds
  <1>2. CASE i # 0
    <2>1. i \in 1..n /\ i - 1 \in 0..n
      BY <1>2
    <2>2. Verdicts(rules, hits)[i - 1] = Verdict(rules, hits, i - 1)
      BY <2>1 DEF Verdicts
    <2> QED
      BY <1>2, <2>1, <2>2, NextVerdict DEF Rounds
  <1> QED
    BY <1>1, <1>2

\* Hence the function that the definition of the loop chooses is such a one.
LEMMA LoopRounds ==
    ASSUME NEW rules \in Rules, NEW now
    PROVE  Loop(rules, now) = Rounds(Loop(rules, now), rules, Hits(rules, now))
  <1> DEFINE hits == Hits(rules, now)
  <1>1. Loop(rules, now) = CHOOSE run : run = Rounds(run, rules, hits)
    BY Zenon DEF Loop, Rounds, Hits
  <1>2. \E run : run = Rounds(run, rules, hits)
    BY VerdictsAreRounds DEF Hits
  <1> HIDE DEF hits
  <1>3. \A f : f = (CHOOSE run : run = Rounds(run, rules, hits)) => f = Rounds(f, rules, hits)
    BY <1>2, Zenon
  <1> QED
    BY <1>1, <1>3 DEF hits

\* The loop comes to the verdict, after every rule.
LEMMA LoopVerdict ==
    ASSUME NEW rules \in Rules, NEW now, NEW i \in 0..Len(rules)
    PROVE  Loop(rules, now)[i] = Verdict(rules, Hits(rules, now), i)
  <1> DEFINE hits == Hits(rules, now)
             run == Loop(rules, now)
             S == {n \in Nat : n \in 0..Len(rules) => run[n] = Verdict(rules, hits, n)}
  <1>0. hits \in SUBSET (DOMAIN rules) /\ Len(rules) \in Nat /\ DOMAIN rules = 1..Len(rules)
    BY RulesAreLists DEF Hits
  <1>1. run = Rounds(run, rules, hits)
    BY LoopRounds
  <1> HIDE DEF run, hits
  <1>2. 0 \in S
    <2>1. \A k \in hits : ~(k <= 0)
      BY <1>0
    <2>2. run[0] = "no"
      <3>1. Rounds(run, rules, hits)[0] = "no"
        BY <1>0 DEF Rounds
      <3> QED
        BY <1>1, <3>1
    <2> QED
      BY <2>1, <2>2 DEF Verdict
  <1>3. ASSUME NEW n \in S PROVE n + 1 \in S
    <2> SUFFICES ASSUME n + 1 \in 0..Len(rules)
                 PROVE  run[n + 1] = Verdict(rules, hits, n + 1)
      OBVIOUS
    <2>1. n \in 0..Len(rules) /\ n + 1 \in 1..Len(rules) /\ (n + 1) - 1 = n /\ n + 1 # 0
      BY <1>0
    <2>2. run[n] = Verdict(rules, hits, n)
      BY <2>1
    <2>3. Rounds(run, rules, hits)[n + 1] =
            IF run[n] = "excluded" \/ n + 1 \notin hits THEN run[n]
            ELSE IF rules[n + 1].invert THEN "excluded" ELSE "yes"
      BY <2>1 DEF Rounds
    <2>4. Verdict(rules, hits, n + 1) =
            IF Verdict(rules, hits, n) = "excluded" \/ n + 1 \notin hits
            THEN Verdict(rules, hits, n)
            ELSE IF rules[n + 1].invert THEN "excluded" ELSE "yes"
      BY <1>0, <2>1, NextVerdict
    <2> QED
      BY <1>1, <2>2, <2>3, <2>4
  <1>4. S = Nat
    <2>1. S \in SUBSET Nat
      OBVIOUS
    <2> HIDE DEF S
    <2> QED
      BY <1>2, <1>3, <2>1, NoNumberMissing
  <1> QED
    BY <1>0, <1>4 DEF run, hits

\* A list of rules matches if one of them does and none that does excludes.
LEMMA MatchedIsExclusion ==
    ASSUME NEW rules \in Rules, NEW now
    PROVE  LET hits == {rules[i] : i \in Hits(rules, now)}
           IN Matched(rules, now) <=> hits # {} /\ \A rule \in hits : ~rule.invert
  <1> PICK n \in Nat : n = Len(rules) /\ DOMAIN rules = 1..n
    BY RulesAreLists
  <1>1. Loop(rules, now)[n] = Verdict(rules, Hits(rules, now), n)
    BY LoopVerdict
  <1>2. \A k \in Hits(rules, now) : k <= n
    BY DEF Hits
  <1>3. Matched(rules, now) <=> Loop(rules, now)[n] = "yes"
    BY DEF Matched
  <1> HIDE DEF Hits
  <1> QED
    BY <1>1, <1>2, <1>3 DEF Verdict

-----------------------------------------------------------------------------
(* The theorems. *)

\* Rows, keys, requests and calls keep their types; a call that is over rings
\* no phone.  This is about every handler of telephony.ts and every script.
THEOREM TypeCorrect == Spec => []TypeOK
  <1>1. IInv => TypeOK
    BY DEF IInv
  <1> QED
    BY <1>1, Inductive, PTL

\* telephony.ts, badDestination: for any bodies and any number of requests, a
\* pair that no race put together stays in its tenant.
THEOREM PairsStayOwned == Spec => []PairsOwned
  <1>1. IInv => PairsOwned
    BY DEF IInv
  <1> QED
    BY <1>1, Inductive, PTL

\* voip.lua, fetch: for any configuration, raced pairs included, and any edits
\* while it is up, a call follows the objects and rings the phones of the
\* tenant it came in for.
THEOREM CallsAreHome == Spec => []CallsStayHome
  <1>1. IInv => CallsStayHome
    BY DEF IInv, CallInv, CallsStayHome
  <1> QED
    BY <1>1, Inductive, PTL

\* time_condition.lua:79: for lists of rules of any length, in any order, a
\* stored condition matches exactly if a rule does and no exclusion does.
THEOREM ExclusionAlwaysWins == Spec => []ExclusionWins
  <1>1. ASSUME IInv PROVE ExclusionWins
    <2> SUFFICES ASSUME NEW o \in Conditions, NEW now \in Moments, row[o] # None
                 PROVE  LET r == row[o].rules
                            hits == {r[i] : i \in {k \in DOMAIN r : RuleMatches(r[k], now)}}
                        IN Matched(r, now) <=> hits # {} /\ \A rule \in hits : ~rule.invert
      BY DEF ExclusionWins
    <2>1. row[o].rules \in Rules
      BY <1>1 DEF IInv, TypeOK, Row, Objects
    <2> QED
      BY <2>1, MatchedIsExclusion DEF Hits
  <1> QED
    BY <1>1, Inductive, PTL

\* What does not touch a call: whatever the API does, and the faults.
Office ==
    \/ \E w \in Workers : Request(w) \/ Work(w) \/ CommandsFail(w) \/ Abort(w)
    \/ RedisRestarts

LEMMA OfficeStep == Office => call' = call
  <1>1. ASSUME NEW w \in Workers, NEW keys, Caches(w, keys) PROVE call' = call
    BY <1>1 DEF Caches, Purge, CacheInboundRoutes, CacheObjects, Filling, Editing
  <1>2. ASSUME NEW w \in Workers, Request(w) PROVE call' = call
    BY <1>2
    DEF Request, Create, Patch, PatchRules, Switch, Delete, DeleteOption, AddMember,
        RemoveMember, Begin, Editing
  <1>3. ASSUME NEW w \in Workers, Abort(w) \/ Check(w) \/ Commit(w) PROVE call' = call
    BY <1>3 DEF Abort, Check, Commit, Editing
  <1>4. RedisRestarts => call' = call
    BY DEF RedisRestarts, Editing
  <1> QED
    BY <1>1, <1>2, <1>3, <1>4 DEF Office, Work, CommandsFail

\* A script that finds its object missing has met a rebuild under way, if the
\* object is there, enabled and the tenant's, and no fault has taken its key.
LEMMA LostCause ==
    ASSUME IInv, NEW c \in Calls, Open(c), ~Rebuilding(call[c].tenant),
           Owned([type |-> call[c].type, id |-> call[c].id], call[c].tenant),
           Enabled(call[c].id), call[c].id \notin hurt, call[c].cause # "missing"
    PROVE  call'[c].cause # "missing"
  <1> PICK r \in Call : r = call[c]
    BY DEF IInv, TypeOK
  <1>1. CallInv(r) /\ r.type \in Script /\ r.tenant \in Tenants
    BY DEF IInv, Open, CallInv
  <1>2. r.id \in Kinds[r.type] /\ Owner[r.id] = r.tenant
    BY <1>1 DEF Owned
  <1>3. r.id \in Objects \ Dids
    BY <1>1, <1>2, KindsAreObjects
  <1>4. \A w \in Workers : ~Refills(job[w], r.tenant)
    BY DEF Rebuilding, Refills, Step, TenantOf
  <1>5. cache[r.tenant][r.id] # None
    BY <1>2, <1>3, <1>4 DEF IInv, Filled
  <1>6. Fetch(r.type, r.id, r.tenant) # None
    BY <1>2, <1>5 DEF Fetch
  <1>7. call'[c] = [r EXCEPT !.at = "open", !.entry = Fetch(r.type, r.id, r.tenant),
                     !.rings = IF r.type = "ring_group"
                               THEN Fetch(r.type, r.id, r.tenant).members ELSE {}]
    BY <1>6 DEF Open, Becomes, IInv, TypeOK
  <1> QED
    BY <1>7 DEF Call

\* cache.ts, rebuildTenant, and the scripts: for any number of requests, any faults
\* and any flow, a call is lost for want of an object only if the object was deleted
\* or is disabled, is not the tenant's, if a rebuild of the tenant is under way, or
\* if a fault has taken the key and no builder has set it since.
THEOREM LostJustly == Spec => LostCallsHaveACause
  <1> DEFINE A == \A c \in Calls :
                    LET r == call[c] IN
                    call'[c].cause = "missing" /\ r.cause # "missing" =>
                        \/ Rebuilding(r.tenant)
                        \/ ~Owned([type |-> r.type, id |-> r.id], r.tenant)
                        \/ ~Enabled(r.id)
                        \/ r.id \in hurt
  <1>1. ASSUME IInv, [Next]_vars PROVE [A]_vars
    <2>1. ASSUME Office PROVE call' = call
      BY <2>1, OfficeStep
    <2>2. ASSUME NEW c \in Calls, Arrival(c) \/ Runs(c) \/ People(c), ~Open(c) PROVE A
      <3>1. Finds(c)
        BY <1>1, <2>2, ArrivalStep, RunsStep, PeopleStep
      <3> QED
        BY <3>1 DEF Finds
    <2>3. ASSUME NEW c \in Calls, Open(c) PROVE A
      <3> SUFFICES ASSUME NEW d \in Calls, call'[d].cause = "missing", call[d].cause # "missing"
                   PROVE  \/ Rebuilding(call[d].tenant)
                          \/ ~Owned([type |-> call[d].type, id |-> call[d].id], call[d].tenant)
                          \/ ~Enabled(call[d].id)
                          \/ call[d].id \in hurt
        OBVIOUS
      <3>1. d = c
        BY <1>1, <2>3, OpenStep
      <3> QED
        BY <1>1, <2>3, <3>1, LostCause
    <2> QED
      BY <1>1, <2>1, <2>2, <2>3 DEF Next, Office, vars
  <1>2. LostCallsHaveACause <=> [][A]_vars
    BY DEF LostCallsHaveACause
  <1> QED
    BY <1>1, <1>2, Inductive, PTL DEF Spec

-----------------------------------------------------------------------------
(* Why calls come to an end. *)

\* How many steps a call has still before it at most: two for every hop.
Left(r) ==
    IF r.at = "ended" THEN 0
    ELSE IF r.at = "idle" THEN 2 * MaxDepth + 3
    ELSE 2 * (MaxDepth - r.depth) + (IF r.at = "script" THEN 2 ELSE 1)

Drops == \A c \in Calls : call'[c] # call[c] => Left(call'[c]) < Left(call[c])

LEMMA LeftIsNatural == ASSUME NEW r \in Call PROVE Left(r) \in Nat
  <1>1. r.depth \in 0..MaxDepth /\ MaxDepth \in Nat
    BY DepthBound DEF Call
  <1> QED
    BY <1>1 DEF Left

LEMMA BecomesDrops ==
    ASSUME IInv, NEW c \in Calls, NEW r \in Call, Becomes(c, r), Left(r) < Left(call[c])
    PROVE  Drops
  BY DEF Becomes, Drops, IInv, TypeOK

LEMMA EndDrops ==
    ASSUME IInv, NEW c \in Calls, call[c].at \in {"script", "open"},
           NEW cause \in Cause, End(c, cause)
    PROVE  Drops
  <1> PICK r \in Call : r = call[c]
    BY DEF IInv, TypeOK
  <1>1. Over(cause) \in Call /\ Left(Over(cause)) = 0
    BY OverCall DEF Over, Left, NoCall
  <1>2. Left(r) > 0
    <2>1. r.depth \in 0..MaxDepth /\ MaxDepth \in Nat
      BY DepthBound DEF Call
    <2> QED
      BY <2>1 DEF Left
  <1>3. Becomes(c, Over(cause))
    BY DEF End
  <1> QED
    BY <1>1, <1>2, <1>3, BecomesDrops

LEMMA GoDrops ==
    ASSUME IInv, NEW c \in Calls, call[c].at = "open", NEW p \in Pair, Go(c, p)
    PROVE  Drops
  <1> PICK r \in Call : r = call[c]
    BY DEF IInv, TypeOK
  <1>1. r.depth \in 0..MaxDepth /\ MaxDepth \in Nat
    BY DepthBound DEF Call
  <1>2. CASE \E cause \in Cause : End(c, cause)
    BY <1>2, EndDrops
  <1>3. CASE /\ p.type # None /\ ~(r.depth + 1 > MaxDepth)
             /\ p.type \in Script \cup {"extension"}
    <2> DEFINE k == [r EXCEPT !.at = "script", !.type = p.type, !.id = p.id,
                              !.entry = None, !.rings = {}, !.depth = r.depth + 1]
    <2>1. Becomes(c, k)
      BY <1>3 DEF Go
    <2>2. k \in Call /\ k.at = "script" /\ k.depth = r.depth + 1
      <3>1. r.depth + 1 \in 0..MaxDepth
        BY <1>1, <1>3
      <3>2. p.type \in Type \cup {None} /\ p.id \in Id \cup {None}
        BY DEF Pair
      <3> QED
        BY <3>1, <3>2 DEF Call
    <2>3. Left(k) < Left(r)
      BY <1>1, <2>2 DEF Left
    <2> HIDE DEF k
    <2> QED
      BY <2>1, <2>2, <2>3, BecomesDrops
  <1>4. CASE /\ ~\E cause \in Cause : End(c, cause)
             /\ ~(/\ p.type # None /\ ~(r.depth + 1 > MaxDepth)
                  /\ p.type \in Script \cup {"extension"})
    <2>1. /\ p.type # None /\ ~(r.depth + 1 > MaxDepth)
          /\ p.type \notin Script \cup {"extension"}
      BY <1>4 DEF Go, Cause
    <2>2. p.type \in {"voicemail", "fax", "external", "hangup"}
      BY <2>1 DEF Pair, Type
    <2>3. Outcome[p.type] \in Cause
      BY <2>2 DEF Outcome, Cause
    <2> QED
      BY <1>4, <2>1, <2>3 DEF Go
  <1> QED
    BY <1>2, <1>3, <1>4

\* A call that begins: from then on it has less before it than it had.
LEMMA BeginsDrops ==
    ASSUME IInv, NEW c \in Calls, call[c] = NoCall,
           NEW r \in Call, r.at \in {"script", "ended"}, r.depth = 0, Becomes(c, r)
    PROVE  Drops
  <1>1. Left(NoCall) = 2 * MaxDepth + 3
    BY DEF Left, NoCall
  <1>2. Left(r) < 2 * MaxDepth + 3
    BY DepthBound DEF Left
  <1> QED
    BY <1>1, <1>2, BecomesDrops

LEMMA ArrivalDrops == ASSUME IInv, NEW c \in Calls, Arrival(c) PROVE Drops
  <1>0. NoCall \in Call
    BY DepthBound DEF Call, NoCall, Cause
  <1>1. ASSUME NEW d \in Dids, Arrive(c, d) PROVE Drops
    <2> PICK t \in Tenants : t = Owner[d]
      BY IdsOwned DEF Objects
    <2> PICK e \in Row \cup {None} : e = cache[t][d]
      BY DEF IInv, TypeOK, Objects
    <2> DEFINE home == [NoCall EXCEPT !.tenant = t]
    <2>1. home \in Call /\ home.depth = 0 /\ call[c] = NoCall
      BY <1>0, <1>1 DEF Call, NoCall, Arrive
    <2>2. ASSUME NEW cause \in Cause, Becomes(c, Over(cause)) PROVE Drops
      <3>1. Over(cause) \in Call /\ Over(cause).at = "ended" /\ Over(cause).depth = 0
        BY OverCall DEF Over, NoCall
      <3> QED
        BY <2>1, <2>2, <3>1, BeginsDrops
    <2>3. ASSUME e # None, e.first.type \in Script \cup {"extension"} PROVE Drops
      <3> PICK p \in Pair : p = e.first
        BY <2>3 DEF Row
      <3> DEFINE k == [home EXCEPT !.at = "script", !.type = p.type, !.id = p.id]
      <3>1. Becomes(c, k)
        BY <1>1, <2>3 DEF Arrive
      <3>2. p.type \in Type \cup {None} /\ p.id \in Id \cup {None}
        BY DEF Pair
      <3> HIDE DEF home
      <3>3. k \in Call /\ k.at = "script" /\ k.depth = 0
        BY <2>1, <3>2 DEF Call
      <3> HIDE DEF k
      <3> QED
        BY <2>1, <3>1, <3>3, BeginsDrops
    <2>4. CASE e = None
      <3>1. Becomes(c, Over("noRoute"))
        BY <1>1, <2>4 DEF Arrive
      <3> HIDE DEF home
      <3>2. "noRoute" \in Cause
        BY DEF Cause
      <3> QED
        BY <2>2, <3>1, <3>2
    <2>5. CASE e # None /\ e.first.type \notin Script \cup {"extension"}
      <3> DEFINE cause == IF e.first.type \in {"voicemail", "fax"} THEN Outcome[e.first.type]
                          ELSE "unallocated"
      <3>1. cause \in Cause
        BY DEF Outcome, Cause
      <3>2. Becomes(c, Over(cause))
        BY <1>1, <2>5 DEF Arrive
      <3> HIDE DEF home, cause
      <3> QED
        BY <2>2, <3>1, <3>2
    <2> QED
      BY <2>3, <2>4, <2>5
  <1>2. ASSUME NEW type \in Script \cup {"extension"}, NEW id \in Id, NEW t \in Tenants,
               call[c] = NoCall,
               Becomes(c, [NoCall EXCEPT !.at = "script", !.tenant = t, !.type = type, !.id = id])
        PROVE  Drops
    <2> DEFINE k == [NoCall EXCEPT !.at = "script", !.tenant = t, !.type = type, !.id = id]
    <2>1. type \in Type
      BY DEF Type
    <2>2. k \in Call
      BY <1>0, <2>1 DEF Call
    <2>3. k.at = "script" /\ k.depth = 0
      BY DEF NoCall
    <2> QED
      BY <1>2, <2>2, <2>3, BeginsDrops
  <1>3. ASSUME NEW type \in Script, NEW o \in Groups \cup Menus, DialNumber(c, type, o) PROVE Drops
    <2>1. o \in Id /\ Owner[o] \in Tenants
      BY IdsOwned DEF Objects, Id
    <2> QED
      BY <1>2, <1>3, <2>1 DEF DialNumber
  <1>4. ASSUME NEW e \in Exts, DialExtension(c, e) PROVE Drops
    <2>1. Number[e] \in Id /\ Owner[e] \in Tenants
      BY IdsOwned, NumbersGiven DEF Id
    <2> QED
      BY <1>2, <1>4, <2>1 DEF DialExtension
  <1> QED
    BY <1>1, <1>3, <1>4 DEF Arrival

\* A script that opens stays at its depth.
LEMMA OpensDrops ==
    ASSUME IInv, NEW c \in Calls, NEW r \in Call, r = call[c], r.at = "script",
           NEW k \in Call, k.at = "open", k.depth = r.depth, Becomes(c, k)
    PROVE  Drops
  <1>1. r.depth \in 0..MaxDepth /\ MaxDepth \in Nat
    BY DepthBound DEF Call
  <1>2. Left(k) < Left(r)
    BY <1>1 DEF Left
  <1> QED
    BY <1>2, BecomesDrops

LEMMA OpenDrops == ASSUME IInv, NEW c \in Calls, Open(c) \/ OpenExtension(c) PROVE Drops
  <1> PICK r \in Call : r = call[c]
    BY DEF IInv, TypeOK
  <1>0. CallInv(r) /\ r.at = "script" /\ r.tenant \in Tenants
    BY DEF IInv, Open, OpenExtension, CallInv
  <1>1. CASE Open(c)
    <2> DEFINE entry == Fetch(r.type, r.id, r.tenant)
    <2>1. CASE entry = None
      BY <1>0, <1>1, <2>1, EndDrops DEF Open, Cause
    <2>2. CASE entry # None
      <3>1. entry \in Row
        BY <1>0, <1>1, <2>2, KindsAreObjects DEF Fetch, IInv, TypeOK, Open
      <3> PICK e \in Row : e = entry
        BY <3>1
      <3> DEFINE rings == IF r.type = "ring_group" THEN e.members ELSE {}
                 k == [r EXCEPT !.at = "open", !.entry = e, !.rings = rings]
      <3>2. Becomes(c, k)
        BY <1>1, <2>2 DEF Open
      <3>3. rings \in SUBSET Exts
        BY DEF Row
      <3> HIDE DEF rings, entry
      <3>4. k \in Call /\ k.at = "open" /\ k.depth = r.depth
        BY <3>3 DEF Call
      <3> HIDE DEF k
      <3> QED
        BY <1>0, <3>2, <3>4, OpensDrops
    <2> QED
      BY <2>1, <2>2
  <1>2. CASE OpenExtension(c)
    <2> PICK rings \in SUBSET Exts : rings = Found(r.id, r.tenant)
      BY DEF Found
    <2> DEFINE k == [r EXCEPT !.at = "open", !.rings = rings]
    <2>1. Becomes(c, k)
      BY <1>2 DEF OpenExtension
    <2>2. k \in Call /\ k.at = "open" /\ k.depth = r.depth
      BY DEF Call
    <2> HIDE DEF k
    <2> QED
      BY <1>0, <2>1, <2>2, OpensDrops
  <1> QED
    BY <1>1, <1>2

LEMMA CallDrops ==
    ASSUME IInv, NEW c \in Calls, Runs(c) \/ People(c)
    PROVE  Drops
  <1>1. CASE Open(c) \/ OpenExtension(c)
    BY <1>1, OpenDrops
  <1>2. CASE \E cause \in Cause : End(c, cause) /\ call[c].at \in {"script", "open"}
    BY <1>2, EndDrops
  <1>3. CASE \E p \in Pair : Go(c, p) /\ call[c].at = "open"
    BY <1>3, GoDrops
  <1>4. ASSUME FailOver(c) \/ ExhaustRetries(c) \/ PressDigit(c) \/ \E now \in Moments : AskTheTime(c, now)
        PROVE  Drops
    <2>1. call[c].at = "open" /\ call[c].entry.first \in Pair /\ call[c].entry.second \in Pair
      BY <1>4, EntryPairs DEF FailOver, ExhaustRetries, PressDigit, AskTheTime, In, Script
    <2> QED
      BY <1>2, <1>3, <1>4, <2>1 DEF FailOver, ExhaustRetries, PressDigit, AskTheTime, Cause
  <1>5. ASSUME Forward(c) PROVE Drops
    <2> DEFINE p == [type |-> "external", id |-> Outside]
    <2>1. p \in Pair
      BY DEF Pair, Type, Id
    <2>2. call[c].at = "open" /\ Go(c, p)
      BY <1>5 DEF Forward, In
    <2> HIDE DEF p
    <2> QED
      BY <1>3, <2>1, <2>2
  <1>6. ASSUME TakeMessage(c) \/ Answer(c) \/ CallerHangsUp(c) PROVE Drops
    BY <1>2, <1>6 DEF TakeMessage, Answer, CallerHangsUp, In, Cause
  <1> QED
    BY <1>1, <1>4, <1>5, <1>6 DEF Runs, People

\* voip.lua, MAX_DEPTH: every step of a call, and there is none that stays,
\* brings it nearer its end, and nothing that is edited puts it off: however the
\* flow turns, a call is over after 2 * MaxDepth + 3 steps at the most.
THEOREM CallsRunDown ==
    Spec => [][\A c \in Calls : call'[c] # call[c] =>
                 /\ Left(call[c]) \in Nat /\ Left(call'[c]) \in Nat
                 /\ Left(call'[c]) < Left(call[c])]_vars
  <1> DEFINE A == \A c \in Calls : call'[c] # call[c] =>
                    /\ Left(call[c]) \in Nat /\ Left(call'[c]) \in Nat
                    /\ Left(call'[c]) < Left(call[c])
  <1>1. ASSUME IInv, [Next]_vars PROVE [A]_vars
    <2>0. IInv'
      BY <1>1, NextStep
    <2>1. ASSUME Office PROVE call' = call
      BY <2>1, OfficeStep
    <2>2. ASSUME NEW c \in Calls, Arrival(c) \/ Runs(c) \/ People(c) PROVE Drops
      BY <1>1, <2>2, ArrivalDrops, CallDrops
    <2>3. UNCHANGED vars \/ Drops
      BY <1>1, <2>1, <2>2 DEF Next, Office, Drops
    <2>4. \A c \in Calls : Left(call[c]) \in Nat /\ Left(call'[c]) \in Nat
      BY <1>1, <2>0, LeftIsNatural DEF IInv, TypeOK
    <2> QED
      BY <2>3, <2>4 DEF Drops
  <1> QED
    BY <1>1, Inductive, PTL DEF Spec

\* The other half: a call that is up is at one of the scripts, which then holds
\* the object that it asks, so that one of them has always a step to take.
Moving == \A c \in Calls :
    LET r == call[c] IN
    /\ r.at = "script" => r.type \in Script \/ r.type = "extension"
    /\ r.at = "open" =>
         \/ r.type \in Script /\ r.entry \in Row /\ r.entry.first \in Pair /\ r.entry.second \in Pair
         \/ r.type = "extension"

\* ring_group.lua, ivr.lua, time_condition.lua and extension.lua: no call stands
\* at a type no script serves, or in a script that lost its object.
THEOREM NoCallIsStuck == Spec => []Moving
  <1>1. IInv => Moving
    BY DEF IInv, CallInv, Moving, Row
  <1> QED
    BY <1>1, Inductive, PTL
=============================================================================
