------------------------------ MODULE CallFlow ------------------------------
(***************************************************************************)
(* Call flows: the objects a call is led through, how the portal edits     *)
(* them and how a call follows them.                                       *)
(*                                                                         *)
(* An inbound route, a ring group, an IVR menu and a time condition hold   *)
(* destinations: pairs of a type and an id, both free columns without a    *)
(* foreign key.  The routes of portal/api/src/routes/telephony.ts check a  *)
(* pair (badDestination) in handlers that read, await, and then write      *)
(* (lib/crud.ts); the tenant's part of the cache is purged and filled anew *)
(* (services/cache.ts).  The Lua scripts of resources/lua/ read the cache  *)
(* hop by hop and hand the call on, counting hops (voip.lua).              *)
(***************************************************************************)
EXTENDS Integers, Sequences

CONSTANTS
    Tenants,
    Dids, Groups, Menus, Conditions,    \* ids of rows
    Exts,       \* ids of extension rows
    Owner,      \* the tenant of each id
    Numbers,    \* extension numbers
    Number,     \* the number of each extension
    Outside,    \* an external number
    None,       \* null
    Absent,     \* a field that a request body does not have
    Start,      \* the rows to begin with
    Bodies,     \* destinations that request bodies carry
    Rules,      \* lists of rules
    Moments,    \* when a time condition is asked
    Losses,     \* the sets of keys that a failure of Redis may hit
    Workers,    \* requests the API can have in flight
    Calls,
    MaxDepth,   \* MAX_DEPTH of voip.lua
    MaxEdits    \* bound of a behaviour: requests by administrators, and faults

Objects == Dids \cup Groups \cup Menus \cup Conditions

Script == {"ring_group", "ivr", "time_condition"}
Type == Script \cup {"extension", "voicemail", "fax", "external", "hangup"}
Id == Objects \cup Exts \cup Numbers \cup {Outside}

Pair == [type : Type \cup {None}, id : Id \cup {None}]
Body == [type : Type \cup {None, Absent}, id : Id \cup {None, Absent}]
NoPair == [type |-> None, id |-> None]
Unsaid == [type |-> Absent, id |-> Absent]

\* What an object holds.  first: where a DID leads, the failover of a group,
\* the timeout of a menu, the match of a condition; second: the option of a
\* menu, the no-match of a condition; members: of a group; rules: of a condition;
\* on: whether it is enabled.
Row == [first : Pair, second : Pair, members : SUBSET Exts, rules : Rules, on : BOOLEAN]

Kinds == [ring_group |-> Groups, ivr |-> Menus, time_condition |-> Conditions]

\* A pair leads to a row of tenant t, or to no row at all.
Owned(p, t) ==
    /\ p.type = "extension" => p.id \in Exts /\ Owner[p.id] = t
    /\ p.type \in Script => p.id \in Kinds[p.type] /\ Owner[p.id] = t

ASSUME IdsOwned == Owner \in [Objects \cup Exts -> Tenants]
ASSUME NumbersGiven == Number \in [Exts -> Numbers]
ASSUME IdsApart ==
    /\ \A a, b \in {"ring_group", "ivr", "time_condition"} : a # b => Kinds[a] \cap Kinds[b] = {}
    /\ Dids \cap (Groups \cup Menus \cup Conditions) = {}
    /\ Exts \cap (Objects \cup Numbers) = {}
    /\ Numbers \cap Objects = {}
    /\ {None, Absent, Outside} \cap (Objects \cup Exts \cup Type) = {}
    /\ None # Absent /\ None # Outside /\ Absent # Outside
ASSUME StartOwned == Start \in [Objects -> Row \cup {None}]
    /\ \A o \in Objects : Start[o] # None =>
         /\ Owned(Start[o].first, Owner[o]) /\ Owned(Start[o].second, Owner[o])
         /\ \A e \in Start[o].members : Owner[e] = Owner[o]
ASSUME BodiesTyped == Bodies \subseteq Body
ASSUME LossesAreKeys == Losses \subseteq SUBSET Objects
ASSUME SomeRules == Rules # {}
ASSUME RulesAreLists == \A rules \in Rules :
    /\ Len(rules) \in Nat /\ DOMAIN rules = 1..Len(rules)
    /\ \A i \in DOMAIN rules : rules[i].invert \in BOOLEAN
ASSUME DepthBound == MaxDepth \in Nat /\ MaxEdits \in Nat

VARIABLES
    row,    \* the rows in Postgres
    gone,   \* ids of rows that were deleted: ids are not used again
    cache,  \* the keys in Redis, by tenant and id
    job,    \* what each request has still to do
    raced,  \* history: rows written over a pair that was not the one checked
    hurt,   \* history: objects whose key a fault has kept out of the cache
    edits,
    call    \* where each call is

vars == <<row, gone, cache, job, raced, hurt, edits, call>>

-----------------------------------------------------------------------------
(* Time conditions.  A rule without a field is one that every value meets:  *)
(* all dates, all days, from the first hour, to after the last.             *)

RuleMatches(rule, now) ==
    /\ now.date \in rule.dates /\ now.day \in rule.days
    /\ rule.start <= now.hour /\ now.hour < rule.end

\* Mutant: the loop goes on after an exclusion, and the last rule decides.
LastRuleMatched(rules, now) ==
    LET hits == {i \in DOMAIN rules : RuleMatches(rules[i], now)}
    IN \E i \in hits : ~rules[i].invert /\ \A j \in hits : j <= i

\* The loop of time_condition.lua: what it knows after each rule.  It leaves off
\* at the first exclusion that matches, and forgets what matched before.
Loop(rules, now) ==
    LET hits == {i \in DOMAIN rules : RuleMatches(rules[i], now)}
        run[i \in 0..Len(rules)] ==
            IF i = 0 THEN "no"
            ELSE IF run[i - 1] = "excluded" \/ i \notin hits THEN run[i - 1]
            ELSE IF rules[i].invert THEN "excluded" ELSE "yes"
    IN run

Matched(rules, now) == Loop(rules, now)[Len(rules)] = "yes"

-----------------------------------------------------------------------------
(* Requests. *)

Op == {"create", "patch", "rules", "enable", "disable", "delete", "deleteOption",
       "addMember", "removeMember", "rebuild"}
Step == {"check", "commit", "purge", "dids", "objects"}
Slot == {"first", "second"}

Idle == [op |-> "idle", obj |-> None, slot |-> "first", body |-> Unsaid, ext |-> None,
         rules |-> None, seen |-> None, at |-> "idle"]

Job == [op : Op \cup {"idle"}, obj : Objects \cup {None}, slot : Slot, body : Body,
        ext : Exts \cup {None}, rules : Rules \cup {None},
        seen : Row \cup {None}, at : Step \cup {"idle"}]

Exists(o) == row[o] # None
Enabled(o) == Exists(o) /\ row[o].on

\* A call: nothing yet, on its way to a script, in one, or over.
NoCall == [at |-> "idle", tenant |-> None, type |-> None, id |-> None, depth |-> 0,
           entry |-> None, rings |-> {}, cause |-> "none"]
Cause == {"none", "answered", "caller", "mailbox", "fax", "out", "hangup", "missing",
          "noRoute", "unallocated", "tooDeep"}
Call == [at : {"idle", "script", "open", "ended"}, tenant : Tenants \cup {None},
         type : Type \cup {None}, id : Id \cup {None}, depth : 0..MaxDepth,
         entry : Row \cup {None}, rings : SUBSET Exts, cause : Cause]

Init ==
    /\ row = Start
    /\ gone = {}
    /\ cache = [t \in Tenants |->
                  [o \in Objects |-> IF Owner[o] = t /\ Enabled(o) THEN row[o] ELSE None]]
    /\ job = [w \in Workers |-> Idle]
    /\ raced = {} /\ hurt = {}
    /\ edits = 0
    /\ call = [c \in Calls |-> NoCall]

Editing == UNCHANGED call

\* Every handler begins by reading the row its path names, within the tenant.
\* Of the places for requests, which are all alike, it takes a free one.
Begin(w, o, j) ==
    /\ job[w] = Idle /\ edits < MaxEdits
    /\ w = CHOOSE v \in Workers : job[v] = Idle
    /\ edits' = edits + 1
    /\ job' = [job EXCEPT ![w] = [j EXCEPT !.obj = o, !.seen = row[o]]]
    /\ UNCHANGED <<row, gone, cache, raced, hurt>> /\ Editing

Create(w, o, b) ==
    /\ ~Exists(o) /\ o \notin gone
    /\ \A v \in Workers : job[v].obj # o
    /\ o \in Dids => b.type \notin {None, Absent}
    /\ Begin(w, o, [Idle EXCEPT !.op = "create", !.body = b, !.at = "check"])

\* PATCH of a pair, of which the body has both halves or one.  The option of a
\* menu is put, not patched, and names its type.
Patch(w, o, slot, b) ==
    /\ Exists(o) /\ b # Unsaid
    /\ slot = "second" => o \in Menus \cup Conditions
    /\ slot = "second" /\ o \in Menus => b.type \in Type
    /\ Begin(w, o, [Idle EXCEPT !.op = "patch", !.slot = slot, !.body = b, !.at = "check"])

PatchRules(w, o, r) ==
    /\ Exists(o) /\ o \in Conditions
    /\ Begin(w, o, [Idle EXCEPT !.op = "rules", !.rules = r, !.at = "check"])

\* PATCH of enabled: it is checked like any other PATCH.
Switch(w, o, op) ==
    /\ Exists(o) /\ op \in {"enable", "disable"}
    /\ Begin(w, o, [Idle EXCEPT !.op = op, !.at = "check"])

Delete(w, o) == Exists(o) /\ Begin(w, o, [Idle EXCEPT !.op = "delete", !.at = "commit"])

DeleteOption(w, o) ==
    /\ Exists(o) /\ o \in Menus
    /\ Begin(w, o, [Idle EXCEPT !.op = "deleteOption", !.at = "commit"])

AddMember(w, o, e) ==
    /\ Exists(o) /\ o \in Groups
    /\ Begin(w, o, [Idle EXCEPT !.op = "addMember", !.ext = e, !.at = "check"])

RemoveMember(w, o, e) ==
    /\ Exists(o) /\ o \in Groups
    /\ Begin(w, o, [Idle EXCEPT !.op = "removeMember", !.ext = e, !.at = "commit"])

-----------------------------------------------------------------------------
(* The check of a request. *)

\* A pair with what the body says of it.
Merge(b, p) == [type |-> IF b.type = Absent THEN p.type ELSE b.type,
                id |-> IF b.id = Absent THEN p.id ELSE b.id]

\* tenantOwns: there is such a row, and it is the tenant's.
TenantOwns(type, id, t) ==
    IF type = "extension" THEN id \in Exts /\ Owner[id] = t
    ELSE id \in Kinds[type] /\ Owner[id] = t /\ Exists(id)

\* badDestination finds nothing wrong with the pair.
GoodDestination(p, t) ==
    \/ p = NoPair
    \/ p.type \in {"external", "hangup", "voicemail", "fax"}
    \/ p.type \in Script \cup {"extension"} /\ TenantOwns(p.type, p.id, t)

\* The body's part for a slot, and what stands behind the fields it leaves out.
Said(j, slot) == IF j.op \in {"create", "patch"} /\ j.slot = slot THEN j.body ELSE Unsaid
IsOption(j) == j.op = "patch" /\ j.slot = "second" /\ j.obj \in Menus
Behind(j, slot) == IF j.op = "create" \/ IsOption(j) THEN NoPair ELSE j.seen[slot]

\* Mutant: the body is checked alone; without a type it has no destination.
BodyPairs(j) ==
    {Merge(Said(j, slot), NoPair) : slot \in {s \in Slot : Said(j, s).type # Absent}}

\* The pairs as they will be after the write.  The PUT of an option looks at
\* nothing but the option, the PATCH of a menu at all but its options.
EffectivePairs(j) ==
    {Merge(Said(j, slot), Behind(j, slot)) :
        slot \in IF IsOption(j) THEN {"second"}
                 ELSE IF j.obj \in Menus THEN {"first"} ELSE Slot}

Answered(w) == job' = [job EXCEPT ![w] = Idle]
Goes(w, at) == job' = [job EXCEPT ![w].at = at]

Check(w) ==
    LET j == job[w]
        good == IF j.op = "addMember" THEN Owner[j.ext] = Owner[j.obj]
                ELSE \A p \in EffectivePairs(j) : GoodDestination(p, Owner[j.obj])
    IN
    /\ j.at = "check"
    /\ IF good THEN Goes(w, "commit") ELSE Answered(w)
    /\ UNCHANGED <<row, gone, cache, raced, hurt, edits>> /\ Editing

-----------------------------------------------------------------------------
(* The write, and the cache after it. *)

\* DELETE of a member answers 404 and rebuilds nothing if there is none; an
\* UPDATE of a row that is gone ends the request, as does an INSERT that
\* refers to one.
Refused(j) ==
    \/ j.op \in {"patch", "rules", "enable", "disable", "addMember"} /\ ~Exists(j.obj)
    \/ j.op = "removeMember" /\ (~Exists(j.obj) \/ j.ext \notin row[j.obj].members)

Fresh(j) == [first |-> Merge(j.body, NoPair), second |-> NoPair, members |-> {},
             rules |-> CHOOSE r \in Rules : TRUE, on |-> TRUE]

\* The row after the statement: an UPDATE sets the columns the body has, and
\* leaves the others as they are by now.
Written(j) ==
    LET now == row[j.obj]
        base == IF IsOption(j) THEN NoPair ELSE now[j.slot]
    IN CASE j.op = "create" -> Fresh(j)
         [] j.op = "patch" -> [now EXCEPT ![j.slot] = Merge(j.body, base)]
         [] j.op = "rules" -> [now EXCEPT !.rules = j.rules]
         [] j.op \in {"enable", "disable"} -> [now EXCEPT !.on = j.op = "enable"]
         [] j.op = "addMember" -> [now EXCEPT !.members = @ \cup {j.ext}]
         [] j.op = "removeMember" -> [now EXCEPT !.members = @ \ {j.ext}]
         [] j.op = "deleteOption" /\ now # None -> [now EXCEPT !.second = NoPair]
         [] OTHER -> None

\* The statement puts half a pair on a half that was not there when it was checked.
Races(j) == j.op = "patch" /\ ~IsOption(j) /\ row[j.obj][j.slot] # j.seen[j.slot]

\* What is left of a request then: afterChange, for the object's tenant.
Rebuild(o) == [Idle EXCEPT !.op = "rebuild", !.obj = o,
                           !.at = IF o \in Dids THEN "dids" ELSE "purge"]

Commit(w) ==
    LET j == job[w] IN
    /\ j.at = "commit"
    /\ IF Refused(j)
       THEN Answered(w) /\ UNCHANGED <<row, gone, raced>>
       ELSE /\ row' = [row EXCEPT ![j.obj] = Written(j)]
            /\ gone' = IF j.op = "delete" THEN gone \cup {j.obj} ELSE gone
            /\ raced' = IF Races(j) THEN raced \cup {j.obj} ELSE raced
            /\ job' = [job EXCEPT ![w] = Rebuild(j.obj)]
    /\ UNCHANGED <<cache, hurt, edits>> /\ Editing

TenantOf(w) == Owner[job[w].obj]

\* Mutant: the keys are purged, and left to the next rebuild.
PurgeOnly(w, kept) ==
    /\ job[w].at = "purge"
    /\ cache' = [cache EXCEPT ![TenantOf(w)] = [o \in Objects |-> None]]
    /\ Answered(w)
    /\ UNCHANGED <<row, gone, raced, hurt>> /\ Editing

\* rebuildTenant deletes the tenant's keys, but for those that Redis did not delete:
\* the builders run all the same.
Purge(w, kept) ==
    LET t == TenantOf(w) IN
    /\ job[w].at = "purge"
    /\ cache' = [cache EXCEPT ![t] =
                    [o \in Objects |-> IF o \in kept THEN cache[t][o] ELSE None]]
    /\ Goes(w, "dids")
    /\ UNCHANGED <<row, gone, raced, hurt>> /\ Editing

\* A builder of services/cache.ts sets the keys of the rows there are and that are
\* enabled, and deletes none.  A SET that is lost is logged, and passed over.
Set(w, kind, lost) ==
    LET t == TenantOf(w)
        rows == {o \in kind : Owner[o] = t /\ Enabled(o)}
    IN
    /\ cache' = [cache EXCEPT ![t] =
                    [o \in Objects |-> IF o \in rows \ lost THEN row[o] ELSE cache[t][o]]]
    /\ hurt' = {o \in hurt \cup (rows \cap lost) : cache'[Owner[o]][o] = None}

Filling == UNCHANGED <<row, gone, raced>> /\ Editing

CacheInboundRoutes(w, lost) ==
    /\ job[w].at = "dids"
    /\ Set(w, Dids, lost)
    /\ IF job[w].obj \in Dids THEN Answered(w) ELSE Goes(w, "objects")
    /\ Filling

\* cacheRingGroups, cacheIvrMenus and cacheTimeConditions, one after the other.
CacheObjects(w, lost) ==
    /\ job[w].at = "objects"
    /\ Set(w, Objects \ Dids, lost)
    /\ Answered(w)
    /\ Filling

Caches(w, untouched) ==
    Purge(w, untouched) \/ CacheInboundRoutes(w, untouched) \/ CacheObjects(w, untouched)

-----------------------------------------------------------------------------
(* Faults. *)

Fault == edits < MaxEdits /\ edits' = edits + 1

\* Redis fails some commands of a purge or of a builder, which does not look.
CommandsFail(w) == Fault /\ \E keys \in Losses : Caches(w, keys)

\* A rebuild ends where it is: a read of a builder throws, which is logged, or the
\* process dies.  The keys that are not there then are left to the next rebuild.
Abort(w) ==
    /\ Fault
    /\ job[w].at \in {"purge", "dids", "objects"}
    /\ hurt' = hurt \cup {o \in Objects : Owner[o] = TenantOf(w) /\ Enabled(o)
                                          /\ cache[Owner[o]][o] = None}
    /\ Answered(w)
    /\ UNCHANGED <<row, gone, cache, raced>> /\ Editing

\* Redis comes back without its keys; what then fills it by itself is in TenantCache.
RedisRestarts ==
    /\ Fault
    /\ cache' = [t \in Tenants |-> [o \in Objects |-> None]]
    /\ hurt' = {o \in Objects : Enabled(o)}
    /\ UNCHANGED <<row, gone, job, raced>> /\ Editing

-----------------------------------------------------------------------------
(* Calls. *)

Calling == UNCHANGED <<row, gone, cache, job, raced, hurt, edits>>

Becomes(c, r) == call' = [call EXCEPT ![c] = r]

\* A call that is over.
Over(cause) == [NoCall EXCEPT !.at = "ended", !.cause = cause]

\* Mutant: the bridge is left to ring on.
EndRinging(c, cause) == Becomes(c, [Over(cause) EXCEPT !.rings = call[c].rings])

End(c, cause) == Becomes(c, Over(cause))

Outcome == [voicemail |-> "mailbox", fax |-> "fax", external |-> "out", hangup |-> "hangup"]

\* Mutant: the script that is started is not told how deep the call is.
GoForgetful(c, p) ==
    IF p.type = None THEN End(c, "unallocated")
    ELSE IF p.type \in Script \cup {"extension"}
    THEN Becomes(c, [call[c] EXCEPT !.at = "script", !.type = p.type, !.id = p.id,
                                    !.entry = None, !.rings = {}, !.depth = 0])
    ELSE End(c, Outcome[p.type])

\* voip.go: one hop more, to a script or to an end.  Scripts hang up instead
\* where they have no destination.
Go(c, p) ==
    IF p.type = None THEN End(c, "unallocated")
    ELSE IF call[c].depth + 1 > MaxDepth THEN End(c, "tooDeep")
    ELSE IF p.type \in Script \cup {"extension"}
    THEN Becomes(c, [call[c] EXCEPT !.at = "script", !.type = p.type, !.id = p.id,
                                    !.entry = None, !.rings = {}, !.depth = @ + 1])
    ELSE End(c, Outcome[p.type])

\* xml_handler.lua finds the DID among the caller's tenant's keys; the first
\* hop is not counted, and an external number is not one it knows.
Arrive(c, d) ==
    LET t == Owner[d]
        p == cache[t][d].first
        home == [NoCall EXCEPT !.tenant = t]
    IN
    /\ call[c] = NoCall /\ (Exists(d) \/ d \in gone)
    /\ Becomes(c, IF cache[t][d] = None
                  THEN Over("noRoute")
                  ELSE IF p.type \in Script \cup {"extension"}
                  THEN [home EXCEPT !.at = "script", !.type = p.type, !.id = p.id]
                  ELSE Over(IF p.type \in {"voicemail", "fax"} THEN Outcome[p.type]
                            ELSE "unallocated"))
    /\ Calling

\* A user of the tenant dials the number of a group or a menu.
DialNumber(c, type, o) ==
    /\ call[c] = NoCall /\ o \in Kinds[type] /\ type # "time_condition"
    /\ cache[Owner[o]][o] # None
    /\ Becomes(c, [NoCall EXCEPT !.at = "script", !.tenant = Owner[o], !.type = type, !.id = o])
    /\ Calling

\* A user of the tenant dials the number of an extension.
DialExtension(c, e) ==
    /\ call[c] = NoCall
    /\ Becomes(c, [NoCall EXCEPT !.at = "script", !.tenant = Owner[e], !.type = "extension",
                                 !.id = Number[e]])
    /\ Calling

\* Mutant: keys without the domain, as if ids alone told tenants apart.
FetchAnywhere(type, id, t) ==
    IF id \in Kinds[type] THEN cache[Owner[id]][id] ELSE None

\* voip.fetch: the key is made of the kind, the domain the call came in with,
\* and the id.
Fetch(type, id, t) == IF id \in Kinds[type] THEN cache[t][id] ELSE None

\* The script reads its object, and gives up if the cache has none.
Open(c) ==
    LET r == call[c]
        entry == Fetch(r.type, r.id, r.tenant)
    IN
    /\ r.at = "script" /\ r.type \in Script
    /\ IF entry = None THEN End(c, "missing")
       ELSE Becomes(c, [r EXCEPT !.at = "open", !.entry = entry,
                                 !.rings = IF r.type = "ring_group" THEN entry.members ELSE {}])
    /\ Calling

In(c, type) == call[c].at = "open" /\ call[c].type = type

\* Any phone that rings may answer.
Answer(c) ==
    /\ call[c].at = "open" /\ call[c].rings # {}
    /\ End(c, "answered")
    /\ Calling

\* A group nobody answers for, or that has no members, fails over: to its
\* destination, or else to its mailbox, or without members to nothing.
FailOver(c) ==
    LET p == call[c].entry.first IN
    /\ In(c, "ring_group")
    /\ IF p.type = None
       THEN End(c, IF call[c].rings = {} THEN "noRoute" ELSE "mailbox")
       ELSE Go(c, p)
    /\ Calling

PressDigit(c) ==
    /\ In(c, "ivr") /\ call[c].entry.second.type # None
    /\ Go(c, call[c].entry.second)
    /\ Calling

\* maxRetries times no digit, or one without an option.
ExhaustRetries(c) ==
    /\ In(c, "ivr")
    /\ IF call[c].entry.first.type = None THEN End(c, "noRoute") ELSE Go(c, call[c].entry.first)
    /\ Calling

AskTheTime(c, now) ==
    LET e == call[c].entry IN
    /\ In(c, "time_condition")
    /\ Go(c, IF Matched(e.rules, now) THEN e.first ELSE e.second)
    /\ Calling

\* extension.lua takes what follows the domain for a number: voip:call: keys are
\* made of numbers, and so are the users it bridges to.
Found(id, t) == {e \in Exts : Owner[e] = t /\ Number[e] = id}

OpenExtension(c) ==
    /\ call[c].at = "script" /\ call[c].type = "extension"
    /\ Becomes(c, [call[c] EXCEPT !.at = "open", !.rings = Found(call[c].id, call[c].tenant)])
    /\ Calling

\* Nobody answers, do not disturb, busy: the mailbox, or no mailbox.
TakeMessage(c) ==
    /\ In(c, "extension")
    /\ \E cause \in {"mailbox", "hangup"} : End(c, cause)
    /\ Calling

\* The user's own forwarding, of all calls or of those not taken, is a hop too.
Forward(c) ==
    /\ In(c, "extension") /\ call[c].rings # {}
    /\ Go(c, [type |-> "external", id |-> Outside])
    /\ Calling

CallerHangsUp(c) ==
    /\ call[c].at \in {"script", "open"}
    /\ End(c, "caller")
    /\ Calling

-----------------------------------------------------------------------------
Request(w) ==
    \/ \E o \in Objects, b \in Bodies : Create(w, o, b)
    \/ \E o \in Objects, slot \in Slot, b \in Bodies : Patch(w, o, slot, b)
    \/ \E o \in Conditions, r \in Rules : PatchRules(w, o, r)
    \/ \E o \in Objects : Delete(w, o) \/ DeleteOption(w, o)
    \/ \E o \in Objects, op \in {"enable", "disable"} : Switch(w, o, op)
    \/ \E o \in Groups, e \in Exts : AddMember(w, o, e) \/ RemoveMember(w, o, e)

Work(w) == Check(w) \/ Commit(w) \/ (Caches(w, {}) /\ UNCHANGED edits)

Arrival(c) ==
    \/ \E d \in Dids : Arrive(c, d)
    \/ \E type \in Script, o \in Groups \cup Menus : DialNumber(c, type, o)
    \/ \E e \in Exts : DialExtension(c, e)

\* What a script does by itself: ringing and waiting for digits time out.
Runs(c) ==
    \/ Open(c) \/ OpenExtension(c) \/ FailOver(c) \/ ExhaustRetries(c) \/ TakeMessage(c)
    \/ Forward(c)
    \/ \E now \in Moments : AskTheTime(c, now)

People(c) == Answer(c) \/ PressDigit(c) \/ CallerHangsUp(c)

Next ==
    \/ \E w \in Workers : Request(w) \/ Work(w) \/ CommandsFail(w) \/ Abort(w)
    \/ RedisRestarts
    \/ \E c \in Calls : Arrival(c) \/ Runs(c) \/ People(c)

Spec == Init /\ [][Next]_vars

FairSpec == Spec /\ \A c \in Calls : WF_vars(Runs(c))

-----------------------------------------------------------------------------
(* Properties. *)

\* The variables hold values of their types; a call that is over, or on its
\* way, holds on to no object and rings no phone.
TypeOK ==
    /\ row \in [Objects -> Row \cup {None}]
    /\ gone \subseteq Objects
    /\ cache \in [Tenants -> [Objects -> Row \cup {None}]]
    /\ job \in [Workers -> Job]
    /\ raced \subseteq Objects /\ hurt \subseteq Objects
    /\ edits \in 0..MaxEdits
    /\ call \in [Calls -> Call]
    /\ \A c \in Calls : call[c].at # "open" => call[c].entry = None /\ call[c].rings = {}

\* telephony.ts:33-42: a stored destination never leads out of its tenant, in
\* whatever order halves of it are changed, unless a request wrote over a pair
\* that had changed since it looked.
PairsOwned == \A o \in Objects \ raced : row[o] # None =>
    Owned(row[o].first, Owner[o]) /\ Owned(row[o].second, Owner[o])

\* voip.lua and cache.ts: a call follows objects of the tenant it came in for,
\* and rings phones of that tenant, and no others: even when a destination
\* points elsewhere, and whatever is edited and rebuilt while it is up.
CallsStayHome == \A c \in Calls :
    LET r == call[c] IN
    r.at = "open" =>
        /\ r.type \in Script => r.id \in Objects /\ Owner[r.id] = r.tenant
        /\ \A e \in r.rings : Owner[e] = r.tenant

Rebuilding(t) == \E w \in Workers : job[w].at \in Step \ {"check", "commit"} /\ TenantOf(w) = t

\* cache.ts and the scripts: a script that does not find its object stands for one
\* that was deleted or is disabled, for a pair that was written in a race, for a
\* rebuild that has purged the tenant and is still filling, or for a fault since
\* which no builder has set the key.  No edit, and no two that overlap, leave an
\* enabled object without its key of themselves.
LostCallsHaveACause == [][\A c \in Calls :
    LET r == call[c] IN
    call'[c].cause = "missing" /\ r.cause # "missing" =>
        \/ Rebuilding(r.tenant)
        \/ ~Owned([type |-> r.type, id |-> r.id], r.tenant)
        \/ ~Enabled(r.id)
        \/ r.id \in hurt]_vars

\* time_condition.lua:79: "Ordering in the list does not matter; the exclusion
\* wins wherever it sits", and only a rule that matches opens the match branch.
ExclusionWins == \A o \in Conditions, now \in Moments : row[o] # None =>
    LET r == row[o].rules
        hits == {r[i] : i \in {k \in DOMAIN r : RuleMatches(r[k], now)}}
    IN Matched(r, now) <=> hits # {} /\ \A rule \in hits : ~rule.invert

\* voip.lua:46: "without a ceiling it recurses": a call comes to an end by
\* itself, however the flow it is in turns in circles.
CallEnds == \A c \in Calls : (call[c].at \in {"script", "open"}) ~> (call[c].at = "ended")

\* voip.lua:68: "so the user's own DND and forwarding apply wherever the call
\* came from - an inbound DID, an IVR option, a ring-group failover": a call
\* handed to an extension of the tenant finds that extension.
ExtensionDestination == \A c \in Calls :
    LET r == call[c] IN
    In(c, "extension") /\ r.id \in Exts /\ Owner[r.id] = r.tenant => r.rings = {r.id}
=============================================================================
