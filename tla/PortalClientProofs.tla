------------------------- MODULE PortalClientProofs -------------------------
(***************************************************************************)
(* Proofs about PortalClient for any number of extensions, trunks,         *)
(* requests and feature codes.                                             *)
(***************************************************************************)
EXTENDS PortalClient, TLAPS

BoolOrNone == BOOLEAN \cup {None}
Data(k) == (IF k = "trunks" THEN TrunkTable ELSE [Exts -> BoolOrNone]) \cup {None}

\* What a request r of the tab says, according to how far it has come; e and t are
\* the tables, b the page the behaviour is about.
ReqInv(r, e, t, b) ==
    /\ r.op = "idle" => r = NoReq
    /\ r.op # "idle" => r.at # "idle" /\ KeyOf(r.op) = b
    /\ r.op \in ExtOps =>
         /\ r.row \in Exts /\ r.id = None
         /\ r.at \in {"sent", "written", "read", "done", "refused", "failed"}
    /\ r.op \in {"trunk", "drop"} =>
         /\ r.row \in Trunks \cup (IF r.op = "trunk" THEN {None} ELSE {})
         /\ r.at \in {"sent", "done", "keySent", "keyDone", "refused"}
         /\ r.at = "sent" => r.id = None
         /\ r.at \in {"done", "keySent", "keyDone"} => r.id \in Trunks
    /\ r.at \in {"keySent", "keyDone"} => r.op = "trunk" /\ r.val
    /\ r.at = "read" => r.got \in BoolOrNone
    /\ r.at \in {"written", "read", "done", "failed"} /\ r.op \in ExtOps => e[r.row] # None
    /\ r.at = "keyDone" => t[r.id] # "bare"
    /\ r.at = "refused" /\ r.id # None => t[r.id] = None

DialInv(d, e) ==
    /\ d.user = "none" => d.api = "none"
    /\ d.api # "none" => d.row \in Exts /\ e[d.row] # None
    /\ d.api = "read" => d.got \in BoolOrNone

\* A request that may have changed the list of k and has not been answered.
Touches(r, k) ==
    /\ r.op # "idle" /\ KeyOf(r.op) = k
    /\ r.at \in {"written", "read", "done", "failed", "keySent", "keyDone"} \/ r.id # None

\* What the tab has of the rows, or is about to get, unless it knows to ask again.
Fresh(k) ==
    k \notin unheard /\ (\A s \in Slots : ~Touches(req[s], k)) =>
        /\ list[k].fetch = "read" => list[k].got = Rows(k)
        /\ list[k].fetch = "idle" /\ ~list[k].behind /\ ~list[k].error /\ list[k].data # None =>
             list[k].data = Rows(k)

\* here: the list q is on screen.  mine: it is that of the subject.
ListInv(q, here, mine) ==
    /\ q.fetch = "read" => q.got # None
    /\ q.fetch # "idle" => mine
    /\ mine /\ q.fetch = "idle" => q.data # None \/ q.error
    /\ here /\ q.fetch = "idle" /\ ~q.error => ~q.behind

FormInv ==
    /\ form.kind = "none" => form.awaits = None
    /\ form.kind = "handling" => page = "extensions" /\ form.row \in Exts
    /\ form.kind = "trunk" => page = "trunks" /\ form.row \in Trunks \cup {None}
    /\ form.awaits # None => req[form.awaits].row = form.row

\* A dialog that waits is on the screen.
MakerInv ==
    /\ maker.open \/ maker.made # None => page = "extensions"
    /\ maker.open /\ maker.made # None => maker.seen
    /\ maker.awaits # None =>
         maker.open /\ list["extensions"].data # None /\ ~list["extensions"].error

\* A save that has yet to set the password of t.
Owes(r, t) == r.id = t /\ r.op = "trunk" /\ r.val /\ r.at \in {"done", "keySent"}
TrunkInv ==
    \A t \in Trunks : trunk[t] = "bare" => t \in excused \/ \E s \in Slots : Owes(req[s], t)

\* Handlers that have written the row of x and not yet its entry.
HandlesReq(r, x) == r.op \in ExtOps /\ r.row = x /\ r.at \in {"written", "read"}
HandlesDial(d, x) == d.row = x /\ d.api \in {"written", "read"}

\* Of an extension whose handlers did not overlap and did not fail, at most one
\* handler is at work, what it has read is the row, and after it the entry is.
EntryInv(x) ==
    x \notin unsure =>
        /\ \A s \in Slots : HandlesReq(req[s], x) =>
             /\ \A v \in Slots : HandlesReq(req[v], x) => v = s
             /\ \A i \in Dials : ~HandlesDial(dial[i], x)
             /\ req[s].at = "read" => req[s].got = Entry(ext[x])
        /\ \A i \in Dials : HandlesDial(dial[i], x) =>
             /\ \A j \in Dials : HandlesDial(dial[j], x) => j = i
             /\ dial[i].api = "read" => dial[i].got = Entry(ext[x])
        /\ ~Handling(x) /\ ext[x] # None => entry[x] = Entry(ext[x])

\* The dial that wrote last is in the row.
WriterInv ==
    /\ writer \in [Exts -> 0..MaxDials]
    /\ \A x \in Exts, i \in Dials : writer[x] = i =>
         dial[i].row = x /\ ext[x] # None /\ ext[x].dnd = dial[i].val
         /\ dial[i].api \in {"written", "read", "done", "failed"}

TypeInv ==
    /\ TypeOK
    /\ \A s \in Slots : ReqInv(req[s], ext, trunk, subject)
    /\ \A i \in Dials : DialInv(dial[i], ext)
    /\ \A k \in Keys : ListInv(list[k], page = k, subject = k)
    /\ FormInv
    /\ MakerInv

IInv ==
    /\ TypeInv
    /\ \A k \in Keys : Fresh(k)
    /\ TrunkInv
    /\ \A x \in Exts : EntryInv(x)
    /\ WriterInv

-----------------------------------------------------------------------------
(* What a state that satisfies TypeInv gives. *)

Req == [op : Op, row : Exts \cup Trunks \cup {None}, id : Trunks \cup {None},
        val : BOOLEAN, got : BOOLEAN \cup {None},
        at : {"idle", "sent", "written", "read", "done", "keySent", "keyDone", "refused",
              "failed"}]
DialRec == [row : Exts \cup {None}, val : BOOLEAN, got : BOOLEAN \cup {None},
            user : {"none", "waits", "tone", "sorry"},
            api : {"none", "asked", "written", "read", "done", "lost", "failed"}]
Form == [kind : {"none", "handling", "trunk"}, row : Exts \cup Trunks \cup {None},
         val : BOOLEAN, awaits : Slots \cup {None}]
Maker == [open : BOOLEAN, made : Exts \cup {None}, seen : BOOLEAN, awaits : Slots \cup {None}]

\* The tables.
RowsOk ==
    /\ ext \in ExtTable /\ entry \in [Exts -> BoolOrNone]
    /\ trunk \in TrunkTable
\* The lists and pages.
ListsOk ==
    /\ subject \in Keys /\ page \in {subject, "elsewhere"}
    /\ DOMAIN list = Keys
    /\ \A k \in Keys : list[k] \in Query(Data(k)) /\ ListInv(list[k], page = k, subject = k)
\* The requests.
ReqsOk ==
    /\ req \in [Slots -> Req]
    /\ \A s \in Slots : ReqInv(req[s], ext, trunk, subject)
\* The feature codes.
DialsOk ==
    /\ dial \in [Dials -> DialRec]
    /\ \A i \in Dials : DialInv(dial[i], ext)
\* The dialogs.
FormOk ==
    /\ form \in Form /\ FormInv
    /\ form.awaits # None => req[form.awaits].op = form.kind
MakerOk ==
    /\ maker \in Maker /\ MakerInv
    /\ maker.awaits # None => req[maker.awaits].op = "create"

LEMMA Parts == TypeInv <=> RowsOk /\ ListsOk /\ ReqsOk /\ DialsOk /\ FormOk /\ MakerOk
  <1>1. /\ Data("extensions") = [Exts -> BOOLEAN \cup {None}] \cup {None}
        /\ Data("trunks") = TrunkTable \cup {None}
    BY DEF Data, BoolOrNone
  <1>2. (\A k \in Keys : list[k] \in Query(Data(k)))
          <=> /\ list["extensions"] \in Query([Exts -> BOOLEAN \cup {None}] \cup {None})
              /\ list["trunks"] \in Query(TrunkTable \cup {None})
    BY <1>1 DEF Keys
  <1> QED
    BY <1>2 DEF TypeInv, TypeOK, RowsOk, ListsOk, ReqsOk, DialsOk, FormOk, MakerOk, Req, DialRec,
             Form, Maker, BoolOrNone

-----------------------------------------------------------------------------
(* Queries. *)

LEMMA NoneIsData == \A k \in Keys : None \in Data(k)
  BY DEF Data

LEMMA Counts ==
    /\ 0 \in 0..Retries
    /\ \A n \in 0..Retries : n # Retries => n + 1 \in 0..Retries
    /\ MaxDials \in Nat
  <1>1. Retries \in Nat /\ MaxDials \in Nat
    BY BoundsNat
  <1> QED
    BY <1>1

LEMMA Asking ==
    ASSUME NEW D, None \in D, NEW q \in Query(D)
    PROVE  /\ Ask(q) \in Query(D)
           /\ Ask(q).data = q.data /\ Ask(q).behind = q.behind
           /\ Ask(q).fetch = "sent" /\ Ask(q).got = None
           /\ Ask(q).error <=> q.error /\ q.data # None
  <1>1. /\ Ask(q).data = q.data /\ Ask(q).behind = q.behind
        /\ Ask(q).fetch = "sent" /\ Ask(q).got = None /\ Ask(q).tries = 0
        /\ Ask(q).error = (q.error /\ q.data # None)
    BY DEF Ask, Query
  <1>2. Ask(q) \in Query(D)
    <2>1. (q.error /\ q.data # None) \in BOOLEAN
      OBVIOUS
    <2> DEFINE e == q.error /\ q.data # None
    <2>2. Ask(q) = [q EXCEPT !.error = e, !.fetch = "sent", !.got = None, !.tries = 0]
      BY DEF Ask
    <2> HIDE DEF e
    <2> QED
      BY <2>1, <2>2, Counts DEF Query, e
  <1> QED
    BY <1>1, <1>2

LEMMA Arriving ==
    ASSUME NEW D, None \in D, NEW d \in D
    PROVE  LET m == [Unasked EXCEPT !.data = d] IN
           /\ m \in Query(D)
           /\ m.data = d /\ ~m.error /\ ~m.behind /\ m.fetch = "idle" /\ m.got = None
  BY Counts DEF Query, Unasked

LEMMA GivingUp ==
    ASSUME NEW D, None \in D, NEW q \in Query(D)
    PROVE  LET m == [q EXCEPT !.error = TRUE, !.fetch = "idle", !.got = None, !.tries = 0] IN
           /\ m \in Query(D)
           /\ m.data = q.data /\ m.behind = q.behind
           /\ m.error /\ m.fetch = "idle" /\ m.got = None
  BY Counts DEF Query

LEMMA Retrying ==
    ASSUME NEW D, None \in D, NEW q \in Query(D), q.tries # Retries
    PROVE  LET m == [q EXCEPT !.fetch = "sent", !.got = None, !.tries = @ + 1] IN
           /\ m \in Query(D)
           /\ m.data = q.data /\ m.behind = q.behind /\ m.error = q.error
           /\ m.fetch = "sent" /\ m.got = None
  BY Counts DEF Query

LEMMA RowsAreData == RowsOk => \A k \in Keys : Rows(k) \in Data(k) /\ Rows(k) # None
  <1> SUFFICES ASSUME RowsOk, NEW k \in Keys
               PROVE  Rows(k) \in Data(k) /\ Rows(k) # None
    OBVIOUS
  <1>1. CASE k = "trunks"
    BY <1>1, NoneIsNoList DEF RowsOk, Rows, Data
  <1>2. CASE k = "extensions"
    <2>1. [x \in Exts |-> IF ext[x] = None THEN None ELSE ext[x].on] \in [Exts -> BoolOrNone]
      BY DEF RowsOk, ExtTable, ExtRow, BoolOrNone
    <2> QED
      BY <1>2, <2>1, NoneIsNoList DEF Rows, Data, BoolOrNone
  <1> QED
    BY <1>1, <1>2 DEF Keys

-----------------------------------------------------------------------------
(* The kinds of steps, and what each leaves alone. *)

Serves(s) == Serve(s) \/ SendPassword(s)
Answers(s) == Succeed(s) \/ Refused(s) \/ Lost(s)
Fetches(k) == Refetch(k) \/ Fetch(k) \/ \E final \in BOOLEAN : FetchFails(k, final)
Features(i) == Feature(i) \/ \E x \in Exts, dnd \in BOOLEAN : Dial(i, x, dnd)

LEMMA Kinds ==
    Next <=> \/ Admin
             \/ \E k \in Keys : Fetches(k)
             \/ \E s \in Slots : Serves(s) \/ Answers(s)
             \/ \E i \in Dials : Features(i)
  BY DEF Next, Serves, Answers, Fetches, Features

LEMMA AdminFrame ==
    ASSUME Admin
    PROVE  UNCHANGED <<rows, subject, dial, history, faults>>
  BY DEF Admin, Leave, Return, Toggle, Create, OpenHandling, OpenTrunk, RemoveTrunk, CloseForm,
         Save, OpenMaker, CloseMaker, Send, tab

LEMMA FetchFrame ==
    ASSUME NEW k \in Keys, Fetches(k)
    PROVE  UNCHANGED <<rows, page, subject, req, dial, writer, unsure, excused>>
  BY DEF Fetches, Refetch, Fetch, FetchRead, FetchArrives, FetchFails, tab, history

LEMMA ServeFrame ==
    ASSUME NEW s \in Slots, Serves(s)
    PROVE  UNCHANGED <<list, tab, dial, unheard>>
  BY DEF Serves, Serve, WriteExtension, CacheRead, CacheSet, CacheFails, WriteTrunk, SetPassword,
         SendPassword, Serving, history

LEMMA AnswerFrame ==
    ASSUME NEW s \in Slots, Answers(s)
    PROVE  UNCHANGED <<rows, page, subject, dial, writer, unsure>>
  BY DEF Answers, Succeed, Refused, Lost, Fail

LEMMA FeatureFrame ==
    ASSUME NEW i \in Dials, Features(i)
    PROVE  UNCHANGED <<trunk, list, tab, req, unheard, excused>>
  BY DEF Features, Feature, FeatureWrite, FeatureRead, FeatureSet, FeatureFails, Tone, GiveUp, Dial, FeatureOnly

LEMMA EntryIsKey == \A row \in ExtRow : Entry(row) \in BoolOrNone
  BY DEF ExtRow, Entry, BoolOrNone

LEMMA Sending ==
    ASSUME ReqsOk, NEW op, NEW row, NEW val, Send(op, row, val)
    PROVE  /\ FreeSlot \in Slots /\ req[FreeSlot] = NoReq
           /\ req' = [req EXCEPT ![FreeSlot] = [op |-> op, row |-> row, id |-> None, val |-> val,
                                                at |-> "sent", got |-> None]]
           /\ UNCHANGED <<rows, list, dial, history, faults>>
  <1>1. FreeSlot \in Slots /\ req[FreeSlot] = NoReq
    BY DEF Send, FreeSlot
  <1> QED
    BY <1>1 DEF Send, FreeSlot

-----------------------------------------------------------------------------
(* The tables. *)

LEMMA RowsStep ==
    ASSUME TypeInv, [Next]_vars
    PROVE  /\ RowsOk'
           /\ \A x \in Exts : ext[x] # None => ext'[x] # None
           /\ \A t \in Trunks :
                /\ trunk'[t] = "bare" =>
                     trunk[t] = "bare" \/ \A s \in Slots : t \notin {req[s].id, req[s].row}
                /\ trunk[t] = None /\ trunk'[t] # None => \A s \in Slots : t # req[s].id
  <1> DEFINE Goal ==
               /\ RowsOk'
               /\ \A x \in Exts : ext[x] # None => ext'[x] # None
               /\ \A t \in Trunks :
                    /\ trunk'[t] = "bare" =>
                         trunk[t] = "bare" \/ \A s \in Slots : t \notin {req[s].id, req[s].row}
                    /\ trunk[t] = None /\ trunk'[t] # None => \A s \in Slots : t # req[s].id
  <1>0. /\ RowsOk
        /\ \A s \in Slots : req[s] \in Req /\ ReqInv(req[s], ext, trunk, subject)
        /\ \A i \in Dials : dial[i] \in DialRec /\ DialInv(dial[i], ext)
    BY Parts DEF ReqsOk, DialsOk
  <1>1. CASE UNCHANGED rows
    BY <1>0, <1>1 DEF rows, RowsOk
  <1>2. ASSUME NEW s \in Slots, Serves(s) PROVE Goal
    <2>1. CASE WriteExtension(s)
      <3>1. req[s].row \in Exts /\ req[s].val \in BOOLEAN /\ req[s].op \in ExtOps
        BY <1>0, <2>1 DEF WriteExtension, ReqInv, Req
      <3>2. ASSUME NEW e, ext' = [ext EXCEPT ![req[s].row] = e], e \in ExtRow
            PROVE  Goal
        BY <1>0, <3>1, <3>2, <2>1, NoneIsNoRow DEF WriteExtension, RowsOk, ExtTable
      <3>3. CASE ext' = ext
        BY <1>0, <2>1, <3>3 DEF WriteExtension, RowsOk
      <3>4. ASSUME (req[s].op = "create") # (ext[req[s].row] # None)
            PROVE  Goal
        <4> DEFINE old == ext[req[s].row]
                   e == CASE req[s].op = "create" -> [dnd |-> FALSE, on |-> TRUE]
                          [] req[s].op = "toggle" -> [old EXCEPT !.on = req[s].val]
                          [] req[s].op = "handling" -> [old EXCEPT !.dnd = req[s].val]
        <4>1. req[s].op # "create" => old \in ExtRow
          BY <1>0, <3>1, <3>4 DEF RowsOk, ExtTable
        <4>2. e \in ExtRow
          BY <3>1, <4>1 DEF ExtRow, ExtOps
        <4>3. ext' = [ext EXCEPT ![req[s].row] = e]
          BY <2>1, <3>4 DEF WriteExtension
        <4> HIDE DEF e
        <4> QED
          BY <3>2, <4>2, <4>3
      <3> QED
        BY <2>1, <3>3, <3>4 DEF WriteExtension
    <2>2. CASE CacheSet(s)
      BY <1>0, <2>2 DEF CacheSet, RowsOk, ReqInv, BoolOrNone, ExtOps
    <2>3. CASE WriteTrunk(s)
      <3>1. req[s].row \in Trunks \cup {None}
        BY <1>0, <2>3 DEF WriteTrunk, ReqInv
      <3>2. ASSUME NEW t \in Trunks, trunk[t] = None,
                   \A v \in Slots : t \notin {req[v].row, req[v].id},
                   trunk' = [trunk EXCEPT ![t] = "bare"]
            PROVE  Goal
        BY <1>0, <2>3, <3>2 DEF WriteTrunk, RowsOk, TrunkTable, TrunkRow
      <3>3. CASE \/ trunk' = trunk
                 \/ req[s].row # None /\ trunk' = [trunk EXCEPT ![req[s].row] = None]
        BY <1>0, <2>3, <3>1, <3>3, NoneIsNoRow DEF WriteTrunk, RowsOk, TrunkTable, TrunkRow
      <3> QED
        BY <2>3, <3>2, <3>3 DEF WriteTrunk
    <2>4. CASE SetPassword(s)
      <3>1. req[s].id \in Trunks
        BY <1>0, <2>4 DEF SetPassword, ReqInv
      <3> QED
        BY <1>0, <2>4, <3>1 DEF SetPassword, RowsOk, TrunkTable, TrunkRow
    <2>5. CASE CacheRead(s) \/ SendPassword(s) \/ \E thrown \in BOOLEAN : CacheFails(s, thrown)
      BY <1>1, <2>5 DEF CacheRead, CacheFails, SendPassword
    <2> QED
      BY <1>2, <2>1, <2>2, <2>3, <2>4, <2>5 DEF Serves, Serve
  <1>3. ASSUME NEW i \in Dials, Features(i) PROVE Goal
    <2>0. trunk' = trunk
      BY <1>3, FeatureFrame
    <2>1. CASE FeatureWrite(i)
      <3>1. dial[i].row \in Exts /\ ext[dial[i].row] # None /\ dial[i].val \in BOOLEAN
        BY <1>0, <2>1 DEF FeatureWrite, DialInv, DialRec
      <3>2. [ext[dial[i].row] EXCEPT !.dnd = dial[i].val] \in ExtRow
        BY <1>0, <3>1 DEF RowsOk, ExtTable, ExtRow
      <3> QED
        BY <1>0, <2>0, <2>1, <3>1, <3>2, NoneIsNoRow DEF FeatureWrite, RowsOk, ExtTable
    <2>2. CASE FeatureSet(i)
      BY <1>0, <2>0, <2>2 DEF FeatureSet, RowsOk, DialInv, BoolOrNone
    <2>3. ASSUME ~FeatureWrite(i), ~FeatureSet(i) PROVE UNCHANGED rows
      BY <1>3, <2>0, <2>3 DEF Features, Feature, FeatureRead, FeatureFails, Tone, GiveUp, Dial, rows
    <2> QED
      BY <1>1, <2>1, <2>2, <2>3
  <1> QED
    BY <1>1, <1>2, <1>3, Kinds, AdminFrame, FetchFrame, AnswerFrame DEF vars

-----------------------------------------------------------------------------
(* The requests. *)

\* What a request says stays true while other steps change the tables.
LEMMA ReqsKept ==
    ASSUME TypeInv, [Next]_vars, NEW s \in Slots, req'[s] = req[s], subject' = subject
    PROVE  req'[s] \in Req /\ ReqInv(req'[s], ext', trunk', subject')
  <1>0. req[s] \in Req /\ ReqInv(req[s], ext, trunk, subject)
    BY Parts DEF ReqsOk
  <1>1. /\ \A x \in Exts : ext[x] # None => ext'[x] # None
        /\ \A t \in Trunks :
             /\ trunk'[t] = "bare" => trunk[t] = "bare" \/ t # req[s].id
             /\ trunk[t] = None /\ trunk'[t] # None => t # req[s].id
    BY RowsStep
  <1> QED
    BY <1>0, <1>1 DEF ReqInv, Req

LEMMA SubjectStep == [Next]_vars => subject' = subject
  BY Kinds, AdminFrame, FetchFrame, ServeFrame, AnswerFrame, FeatureFrame DEF vars, tab

\* A new request of the tab.
NewReq(op, row, val) ==
    [op |-> op, row |-> row, id |-> None, val |-> val, at |-> "sent", got |-> None]

LEMMA AdminReqs ==
    ASSUME TypeInv, Admin
    PROVE  \/ UNCHANGED req
           \/ \E s \in Slots : \E r \in Req :
                /\ req[s] = NoReq
                /\ req' = [req EXCEPT ![s] = r]
                /\ \A v \in Slots \ {s} : req'[v] = req[v]
                /\ r.op # "idle" /\ r.at = "sent" /\ r.id = None
                /\ ReqInv(r, ext, trunk, subject)
  <1> DEFINE Goal ==
               \E s \in Slots : \E r \in Req :
                 /\ req[s] = NoReq
                 /\ req' = [req EXCEPT ![s] = r]
                 /\ \A v \in Slots \ {s} : req'[v] = req[v]
                 /\ r.op # "idle" /\ r.at = "sent" /\ r.id = None
                 /\ ReqInv(r, ext, trunk, subject)
  <1>0. ReqsOk /\ FormOk /\ MakerOk /\ ListsOk
    BY Parts
  <1>1. ASSUME NEW op, NEW row, NEW val, Send(op, row, val),
               NewReq(op, row, val) \in Req, ReqInv(NewReq(op, row, val), ext, trunk, subject),
               op # "idle"
        PROVE  Goal
    <2> DEFINE r == NewReq(op, row, val)
    <2>1. r.op = op /\ r.at = "sent" /\ r.id = None
      BY DEF NewReq
    <2>2. req' = [req EXCEPT ![FreeSlot] = r]
      BY <1>0, <1>1, Sending DEF NewReq
    <2> HIDE DEF r
    <2>3. FreeSlot \in Slots /\ req[FreeSlot] = NoReq
      BY <1>0, <1>1, Sending
    <2>4. \A v \in Slots \ {FreeSlot} : req'[v] = req[v]
      BY <1>0, <2>2 DEF ReqsOk
    <2>5. r \in Req /\ ReqInv(r, ext, trunk, subject)
      BY <1>1 DEF r
    <2> QED
      BY <1>1, <2>1, <2>2, <2>3, <2>4, <2>5
  <1>2. ASSUME page = "extensions" \/ page = "trunks" PROVE subject = page
    BY <1>0, <1>2 DEF ListsOk
  <1>3. ASSUME NEW x \in Exts, Toggle(x) PROVE Goal
    <2>1. subject = "extensions" /\ Send("toggle", x, ~list["extensions"].data[x])
      BY <1>2, <1>3 DEF Toggle
    <2>2. (~list["extensions"].data[x]) \in BOOLEAN
      OBVIOUS
    <2> DEFINE on == ~list["extensions"].data[x]
    <2>3. on \in BOOLEAN /\ Send("toggle", x, on)
      BY <2>1, <2>2
    <2> HIDE DEF on
    <2>4. /\ NewReq("toggle", x, on) \in Req
          /\ ReqInv(NewReq("toggle", x, on), ext, trunk, subject)
      BY <2>1, <2>3 DEF NewReq, Req, Op, ReqInv, KeyOf, ExtOps
    <2> QED
      BY <1>1, <2>3, <2>4
  <1>4. ASSUME NEW x \in Exts, Create(x) PROVE Goal
    <2>1. subject = "extensions" /\ Send("create", x, FALSE)
      BY <1>0, <1>2, <1>4 DEF Create, MakerOk, MakerInv
    <2>2. /\ NewReq("create", x, FALSE) \in Req
          /\ ReqInv(NewReq("create", x, FALSE), ext, trunk, subject)
      BY <2>1 DEF NewReq, Req, Op, ReqInv, KeyOf, ExtOps
    <2> QED
      BY <1>1, <2>1, <2>2
  <1>5. ASSUME NEW t \in Trunks, RemoveTrunk(t) PROVE Goal
    <2>1. subject = "trunks" /\ Send("drop", t, FALSE)
      BY <1>2, <1>5 DEF RemoveTrunk
    <2>2. /\ NewReq("drop", t, FALSE) \in Req
          /\ ReqInv(NewReq("drop", t, FALSE), ext, trunk, subject)
      BY <2>1 DEF NewReq, Req, Op, ReqInv, KeyOf, ExtOps
    <2> QED
      BY <1>1, <2>1, <2>2
  <1>6. CASE Save
    <2>1. Send(form.kind, form.row, form.val) /\ form.kind # "none" /\ form \in Form
      BY <1>0, <1>6 DEF Save, FormOk
    <2>2. CASE form.kind = "handling"
      <3>1. subject = "extensions" /\ form.row \in Exts
        BY <1>0, <1>2, <2>2 DEF FormOk, FormInv
      <3>2. /\ NewReq("handling", form.row, form.val) \in Req
            /\ ReqInv(NewReq("handling", form.row, form.val), ext, trunk, subject)
        BY <2>1, <3>1 DEF NewReq, Req, Op, ReqInv, KeyOf, ExtOps, Form
      <3> QED
        BY <1>1, <2>1, <2>2, <3>2
    <2>3. CASE form.kind = "trunk"
      <3>1. subject = "trunks" /\ form.row \in Trunks \cup {None}
        BY <1>0, <1>2, <2>3 DEF FormOk, FormInv
      <3>2. /\ NewReq("trunk", form.row, form.val) \in Req
            /\ ReqInv(NewReq("trunk", form.row, form.val), ext, trunk, subject)
        BY <2>1, <3>1 DEF NewReq, Req, Op, ReqInv, KeyOf, ExtOps, Form
      <3> QED
        BY <1>1, <2>1, <2>3, <3>2
    <2> QED
      BY <2>1, <2>2, <2>3 DEF Form
  <1>7. ASSUME \/ Leave \/ Return \/ CloseForm \/ OpenMaker \/ CloseMaker
               \/ \E x \in Exts, dnd \in BOOLEAN : OpenHandling(x, dnd)
               \/ \E t \in Trunks \cup {None}, password \in BOOLEAN : OpenTrunk(t, password)
        PROVE  UNCHANGED req
    BY <1>7 DEF Leave, Return, CloseForm, OpenMaker, CloseMaker, OpenHandling, OpenTrunk
  <1> QED
    BY <1>3, <1>4, <1>5, <1>6, <1>7 DEF Admin

LEMMA ReqsStep ==
    ASSUME TypeInv, [Next]_vars
    PROVE  ReqsOk'
  <1>0. /\ req \in [Slots -> Req]
        /\ \A s \in Slots : ReqInv(req[s], ext, trunk, subject)
        /\ subject' = subject
    BY Parts, SubjectStep DEF ReqsOk
  <1>1. CASE UNCHANGED req
    BY <1>0, <1>1, ReqsKept DEF ReqsOk
  <1>2. ASSUME NEW s \in Slots, NEW r \in Req, req' = [req EXCEPT ![s] = r],
               ReqInv(r, ext', trunk', subject)
        PROVE  ReqsOk'
    <2>1. \A v \in Slots \ {s} : req'[v] = req[v]
      BY <1>0, <1>2
    <2>2. \A v \in Slots : ReqInv(req'[v], ext', trunk', subject')
      BY <1>0, <1>2, <2>1, ReqsKept
    <2> QED
      BY <1>0, <1>2, <2>2 DEF ReqsOk
  <1>3. NoReq \in Req /\ ReqInv(NoReq, ext', trunk', subject)
    BY DEF NoReq, Req, Op, ReqInv, ExtOps
  <1>4. CASE Admin
    <2>1. UNCHANGED <<ext, trunk>>
      BY <1>4, AdminFrame DEF rows
    <2> QED
      BY <1>1, <1>2, <1>4, <2>1, AdminReqs
  <1>5. ASSUME NEW s \in Slots, Answers(s) PROVE ReqsOk'
    <2>1. req' = [req EXCEPT ![s] = NoReq]
      BY <1>5 DEF Answers, Succeed, Refused, Lost, Fail
    <2> QED
      BY <1>2, <1>3, <2>1
  <1>6. ASSUME NEW s \in Slots, Serves(s) PROVE ReqsOk'
    <2> DEFINE r == req[s]
    <2>0. r \in Req /\ ReqInv(r, ext, trunk, subject)
      BY <1>0
    <2>1. CASE WriteExtension(s)
      <3>1. r.op \in ExtOps /\ r.at = "sent" /\ r.row \in Exts /\ trunk' = trunk
        BY <2>0, <2>1 DEF WriteExtension, ReqInv
      <3>2. \E at \in {"refused", "written"} :
              req' = [req EXCEPT ![s].at = at] /\ (at = "written" => ext'[r.row] # None)
        <4>1. CASE (r.op = "create") = (ext[r.row] # None)
          BY <2>1, <4>1 DEF WriteExtension, At
        <4>2. CASE (r.op = "create") # (ext[r.row] # None)
          <5>1. At(s, "written")
            BY <2>1, <4>2 DEF WriteExtension
          <5>2. ext'[r.row] \in ExtRow
            <6> DEFINE old == ext[r.row]
                       e == CASE r.op = "create" -> [dnd |-> FALSE, on |-> TRUE]
                              [] r.op = "toggle" -> [old EXCEPT !.on = r.val]
                              [] r.op = "handling" -> [old EXCEPT !.dnd = r.val]
            <6>1. ext' = [ext EXCEPT ![r.row] = e]
              BY <2>1, <4>2 DEF WriteExtension
            <6>2. ext \in ExtTable
              BY Parts DEF RowsOk
            <6>3. r.op # "create" => old \in ExtRow
              BY <3>1, <4>2, <6>2 DEF ExtTable
            <6>4. e \in ExtRow
              BY <2>0, <3>1, <6>3 DEF ExtRow, ExtOps, Req
            <6> HIDE DEF e
            <6> QED
              BY <3>1, <6>1, <6>2, <6>4 DEF ExtTable
          <5> QED
            BY <5>1, <5>2, NoneIsNoRow DEF At
        <4> QED
          BY <4>1, <4>2
      <3>3. PICK at \in {"refused", "written"} :
              req' = [req EXCEPT ![s].at = at] /\ (at = "written" => ext'[r.row] # None)
        BY <3>2
      <3>4. [r EXCEPT !.at = at] \in Req
        BY <2>0 DEF Req
      <3>5. ReqInv([r EXCEPT !.at = at], ext', trunk', subject)
        BY <2>0, <3>1, <3>3 DEF ReqInv, Req, ExtOps
      <3> QED
        BY <1>2, <3>3, <3>4, <3>5
    <2>2. CASE CacheRead(s)
      <3>1. r.at = "written" /\ r.op \in ExtOps /\ r.row \in Exts /\ ext[r.row] # None
        BY <2>0, <2>2 DEF CacheRead, ReqInv, Req, Op, ExtOps, NoReq
      <3>2. Entry(ext[r.row]) \in BoolOrNone /\ UNCHANGED <<ext, trunk>>
        BY <2>2, <3>1, Parts, EntryIsKey DEF RowsOk, ExtTable, CacheRead, rows
      <3> DEFINE got == Entry(ext[r.row])
                 n == [r EXCEPT !.at = "read", !.got = got]
      <3> HIDE DEF got
      <3>3. n \in Req /\ ReqInv(n, ext', trunk', subject)
        BY <2>0, <3>1, <3>2 DEF got, ReqInv, Req, ExtOps, BoolOrNone
      <3>4. req' = [req EXCEPT ![s] = n]
        BY <2>2 DEF CacheRead, got
      <3> HIDE DEF n
      <3> QED
        BY <1>2, <3>3, <3>4
    <2>3. CASE CacheSet(s)
      <3>1. r.at = "read" /\ r.op \in ExtOps /\ r.row \in Exts /\ UNCHANGED <<ext, trunk>>
        BY <2>0, <2>3 DEF CacheSet, ReqInv, Req, Op, ExtOps, NoReq
      <3> DEFINE n == [r EXCEPT !.at = "done", !.got = None]
      <3>2. n \in Req /\ ReqInv(n, ext', trunk', subject)
        BY <2>0, <3>1 DEF ReqInv, Req, ExtOps
      <3>3. req' = [req EXCEPT ![s] = n]
        BY <2>3 DEF CacheSet
      <3> HIDE DEF n
      <3> QED
        BY <1>2, <3>2, <3>3
    <2>7. ASSUME NEW thrown \in BOOLEAN, CacheFails(s, thrown) PROVE ReqsOk'
      <3>1. /\ r.at \in {"written", "read"} /\ r.op \in ExtOps /\ r.row \in Exts
            /\ UNCHANGED <<ext, trunk>>
        BY <2>0, <2>7 DEF CacheFails, ReqInv, Req, Op, ExtOps, NoReq, rows
      <3> PICK at \in {"done", "failed"} : at = IF thrown THEN "failed" ELSE "done"
        OBVIOUS
      <3> DEFINE n == [r EXCEPT !.at = at, !.got = None]
      <3>2. n \in Req /\ ReqInv(n, ext', trunk', subject)
        BY <2>0, <3>1 DEF ReqInv, Req, ExtOps
      <3>3. req' = [req EXCEPT ![s] = n]
        BY <2>7 DEF CacheFails
      <3> HIDE DEF n
      <3> QED
        BY <1>2, <3>2, <3>3
    <2>4. CASE WriteTrunk(s)
      <3>1. r.op \in {"trunk", "drop"} /\ r.at = "sent" /\ r.id = None /\ ext' = ext
        BY <2>0, <2>4 DEF WriteTrunk, ReqInv
      <3>2. CASE req' = [req EXCEPT ![s].at = "refused"]
        <4>1. [r EXCEPT !.at = "refused"] \in Req
          BY <2>0 DEF Req
        <4>2. ReqInv([r EXCEPT !.at = "refused"], ext', trunk', subject)
          BY <2>0, <3>1 DEF ReqInv, Req, ExtOps
        <4> QED
          BY <1>2, <3>2, <4>1, <4>2
      <3>3. ASSUME NEW t \in Trunks, req' = [req EXCEPT ![s].at = "done", ![s].id = t]
            PROVE  ReqsOk'
        <4> DEFINE n == [r EXCEPT !.at = "done", !.id = t]
        <4>1. n \in Req
          BY <2>0 DEF Req
        <4>2. ReqInv(n, ext', trunk', subject)
          BY <2>0, <3>1 DEF ReqInv, Req, ExtOps
        <4>3. req' = [req EXCEPT ![s] = n]
          BY <3>3
        <4> HIDE DEF n
        <4> QED
          BY <1>2, <4>1, <4>2, <4>3
      <3>4. r.row \in Trunks \cup {None}
        BY <2>0, <3>1 DEF ReqInv
      <3> QED
        BY <2>4, <3>2, <3>3, <3>4 DEF WriteTrunk, At
    <2>5. CASE SetPassword(s)
      <3>1. r.at = "keySent" /\ r.op = "trunk" /\ r.val /\ r.id \in Trunks /\ ext' = ext
        BY <2>0, <2>5 DEF SetPassword, ReqInv
      <3>2. CASE trunk[r.id] = None
        <4>1. req' = [req EXCEPT ![s].at = "refused"] /\ trunk' = trunk
          BY <2>5, <3>2 DEF SetPassword, At
        <4>2. [r EXCEPT !.at = "refused"] \in Req
          BY <2>0 DEF Req
        <4>3. ReqInv([r EXCEPT !.at = "refused"], ext', trunk', subject)
          BY <2>0, <3>1, <3>2, <4>1 DEF ReqInv, Req, ExtOps
        <4> QED
          BY <1>2, <4>1, <4>2, <4>3
      <3>3. CASE trunk[r.id] # None
        <4>1. /\ req' = [req EXCEPT ![s].at = "keyDone"]
              /\ trunk' = [trunk EXCEPT ![r.id] = "keyed"]
          BY <2>5, <3>3 DEF SetPassword, At
        <4>2. trunk'[r.id] = "keyed"
          BY <3>1, <4>1, Parts DEF RowsOk, TrunkTable
        <4>3. [r EXCEPT !.at = "keyDone"] \in Req
          BY <2>0 DEF Req
        <4>4. ReqInv([r EXCEPT !.at = "keyDone"], ext', trunk', subject)
          BY <2>0, <3>1, <4>2 DEF ReqInv, Req, ExtOps
        <4> QED
          BY <1>2, <4>1, <4>3, <4>4
      <3> QED
        BY <3>2, <3>3
    <2>6. CASE SendPassword(s)
      <3>1. r.op = "trunk" /\ r.val /\ r.at = "done" /\ UNCHANGED <<ext, trunk>>
        BY <2>6 DEF SendPassword, rows
      <3>2. req' = [req EXCEPT ![s].at = "keySent"]
        BY <2>6 DEF SendPassword, At
      <3>3. [r EXCEPT !.at = "keySent"] \in Req
        BY <2>0 DEF Req
      <3>4. ReqInv([r EXCEPT !.at = "keySent"], ext', trunk', subject)
        BY <2>0, <3>1 DEF ReqInv, Req, ExtOps
      <3> QED
        BY <1>2, <3>2, <3>3, <3>4
    <2> QED
      BY <1>6, <2>1, <2>2, <2>3, <2>4, <2>5, <2>6, <2>7 DEF Serves, Serve
  <1> QED
    BY <1>1, <1>4, <1>5, <1>6, Kinds, FetchFrame, FeatureFrame DEF vars

-----------------------------------------------------------------------------
(* The lists. *)

\* One list changes, and the page stays.
LEMMA OneList ==
    ASSUME ListsOk, NEW k \in Keys, NEW q \in Query(Data(k)), list' = [list EXCEPT ![k] = q],
           UNCHANGED <<page, subject>>, ListInv(q, page = k, subject = k)
    PROVE  /\ ListsOk'
           /\ list'[k] = q
           /\ \A o \in Keys \ {k} : list'[o] = list[o]
  BY DEF ListsOk

LEMMA RefetchList ==
    ASSUME ListsOk, NEW k \in Keys, Refetch(k)
    PROVE  /\ ListsOk'
           /\ list'[k] = Ask(list[k])
           /\ \A o \in Keys \ {k} : list'[o] = list[o]
  <1>1. list[k] \in Query(Data(k)) /\ ListInv(list[k], page = k, subject = k)
    BY DEF ListsOk
  <1>2. subject = k
    BY DEF Refetch, Mounted, ListsOk, Keys
  <1>3. Ask(list[k]) \in Query(Data(k)) /\ Ask(list[k]).fetch = "sent"
    BY <1>1, NoneIsData, Asking
  <1>4. ListInv(Ask(list[k]), page = k, subject = k)
    BY <1>2, <1>3 DEF ListInv
  <1> QED
    BY <1>3, <1>4, OneList DEF Refetch, tab

LEMMA FetchReadList ==
    ASSUME ListsOk, RowsOk, NEW k \in Keys, FetchRead(k)
    PROVE  /\ ListsOk'
           /\ list'[k].fetch = "read" /\ list'[k].got = Rows(k)
           /\ list'[k].data = list[k].data /\ list'[k].error = list[k].error
           /\ \A o \in Keys \ {k} : list'[o] = list[o]
  <1> DEFINE q == [list[k] EXCEPT !.fetch = "read", !.got = Rows(k)]
  <1>1. list[k] \in Query(Data(k)) /\ ListInv(list[k], page = k, subject = k)
    BY DEF ListsOk
  <1>2. Rows(k) \in Data(k) /\ Rows(k) # None
    BY RowsAreData
  <1>3. /\ q \in Query(Data(k))
        /\ q.data = list[k].data /\ q.error = list[k].error
        /\ q.fetch = "read" /\ q.got = Rows(k)
    BY <1>1, <1>2 DEF Query
  <1>4. ListInv(q, page = k, subject = k)
    BY <1>1, <1>2, <1>3 DEF ListInv, FetchRead
  <1>5. list' = [list EXCEPT ![k] = q] /\ UNCHANGED <<page, subject>>
    BY DEF FetchRead, tab
  <1> HIDE DEF q
  <1> QED
    BY <1>3, <1>4, <1>5, OneList

LEMMA FetchArrivesList ==
    ASSUME ListsOk, NEW k \in Keys, FetchArrives(k)
    PROVE  /\ ListsOk'
           /\ list'[k].fetch = "idle" /\ list'[k].data = list[k].got /\ list[k].got # None
           /\ ~list'[k].error
           /\ \A o \in Keys \ {k} : list'[o] = list[o]
  <1> DEFINE q == [Unasked EXCEPT !.data = list[k].got]
  <1>1. list[k] \in Query(Data(k)) /\ ListInv(list[k], page = k, subject = k)
    BY DEF ListsOk
  <1>2. list[k].got \in Data(k) /\ list[k].got # None
    BY <1>1 DEF Query, ListInv, FetchArrives
  <1>3. /\ q \in Query(Data(k))
        /\ q.data = list[k].got /\ ~q.error /\ ~q.behind /\ q.fetch = "idle"
    BY <1>2, NoneIsData, Arriving
  <1>4. ListInv(q, page = k, subject = k)
    BY <1>2, <1>3 DEF ListInv
  <1>5. list' = [list EXCEPT ![k] = q] /\ UNCHANGED <<page, subject>>
    BY DEF FetchArrives, tab
  <1> HIDE DEF q
  <1> QED
    BY <1>2, <1>3, <1>4, <1>5, OneList

LEMMA FetchFailsList ==
    ASSUME ListsOk, NEW k \in Keys, NEW final \in BOOLEAN, FetchFails(k, final)
    PROVE  /\ ListsOk'
           /\ list'[k].data = list[k].data
           /\ \/ list'[k].fetch = "idle" /\ list'[k].error
                 /\ maker' = Blanked([maker EXCEPT !.made = None, !.seen = FALSE])
              \/ list'[k].fetch = "sent" /\ list'[k].error = list[k].error
                 /\ UNCHANGED <<form, maker>>
           /\ \A o \in Keys \ {k} : list'[o] = list[o]
           /\ subject = k
  <1>1. list[k] \in Query(Data(k)) /\ ListInv(list[k], page = k, subject = k)
    BY DEF ListsOk
  <1>2. subject = k
    BY <1>1 DEF FetchFails, ListInv
  <1>3. CASE final \/ list[k].tries = Retries \/ ~Mounted(k)
    <2> DEFINE q == [list[k] EXCEPT !.error = TRUE, !.fetch = "idle", !.got = None, !.tries = 0]
    <2>1. /\ q \in Query(Data(k))
          /\ q.data = list[k].data /\ q.error /\ q.fetch = "idle"
      BY <1>1, NoneIsData, GivingUp
    <2>2. ListInv(q, page = k, subject = k)
      BY <2>1 DEF ListInv
    <2>3. /\ list' = [list EXCEPT ![k] = q] /\ UNCHANGED <<page, subject>>
          /\ maker' = Blanked([maker EXCEPT !.made = None, !.seen = FALSE])
      BY <1>3 DEF FetchFails
    <2> HIDE DEF q
    <2> QED
      BY <1>2, <2>1, <2>2, <2>3, OneList
  <1>4. CASE ~(final \/ list[k].tries = Retries \/ ~Mounted(k))
    <2> DEFINE q == [list[k] EXCEPT !.fetch = "sent", !.got = None, !.tries = @ + 1]
    <2>1. /\ q \in Query(Data(k))
          /\ q.data = list[k].data /\ q.error = list[k].error /\ q.fetch = "sent"
      BY <1>1, <1>4, NoneIsData, Retrying
    <2>2. ListInv(q, page = k, subject = k)
      BY <1>2, <2>1 DEF ListInv
    <2>3. list' = [list EXCEPT ![k] = q] /\ UNCHANGED <<page, subject, form, maker>>
      BY <1>4 DEF FetchFails
    <2> HIDE DEF q
    <2> QED
      BY <1>2, <2>1, <2>2, <2>3, OneList
  <1> QED
    BY <1>3, <1>4

\* Returning to the page asks for what is missing or marked.
LEMMA ReturnList ==
    ASSUME ListsOk, Return
    PROVE  /\ ListsOk'
           /\ \A k \in Keys :
                \/ list'[k] = list[k]
                \/ list'[k].fetch = "sent" /\ list'[k].data = list[k].data
                   /\ (list'[k].error <=> list[k].error /\ list[k].data # None)
  <1> DEFINE k == subject
             ask == list[k].fetch = "idle" /\ (list[k].data = None \/ list[k].behind)
  <1>0. k \in Keys /\ list[k] \in Query(Data(k)) /\ ListInv(list[k], page = k, subject = k)
    BY DEF ListsOk
  <1>1. page = "elsewhere" /\ page' = k /\ subject' = subject /\ k \in {"extensions", "trunks"}
    BY <1>0 DEF Return, Keys
  <1>2. CASE ask
    <2>1. list' = [list EXCEPT ![k] = Ask(list[k])]
      BY <1>2 DEF Return
    <2>2. /\ Ask(list[k]) \in Query(Data(k)) /\ Ask(list[k]).data = list[k].data
          /\ Ask(list[k]).fetch = "sent"
          /\ Ask(list[k]).error <=> list[k].error /\ list[k].data # None
      BY <1>0, NoneIsData, Asking
    <2>3. ListInv(Ask(list[k]), TRUE, TRUE)
      BY <2>2 DEF ListInv
    <2>4. list'[k] = Ask(list[k]) /\ \A o \in Keys \ {k} : list'[o] = list[o]
      BY <1>0, <2>1 DEF ListsOk
    <2>5. \A o \in Keys : list'[o] \in Query(Data(o)) /\ ListInv(list'[o], page' = o, subject' = o)
      BY <1>0, <1>1, <2>2, <2>3, <2>4 DEF ListsOk, ListInv
    <2> QED
      BY <1>1, <2>1, <2>2, <2>4, <2>5 DEF ListsOk
  <1>3. CASE ~ask
    <2>1. list' = list
      BY <1>3 DEF Return
    <2>2. \A o \in Keys : ListInv(list[o], page' = o, subject' = o)
      BY <1>0, <1>1, <1>3 DEF ListsOk, ListInv, Query
    <2> QED
      BY <1>1, <2>1, <2>2 DEF ListsOk
  <1> QED
    BY <1>2, <1>3

\* A save that succeeds: the list is asked for, or marked.
LEMMA SucceedList ==
    ASSUME ListsOk, ReqsOk, NEW s \in Slots, Succeed(s)
    PROVE  LET k == KeyOf(req[s].op) IN
           /\ ListsOk'
           /\ req[s].op # "idle" /\ k = subject
           /\ list'[k].data = list[k].data
           /\ list'[k].error => list[k].error
           /\ IF Mounted(k) THEN list'[k].fetch = "sent"
              ELSE list'[k].behind /\ list'[k].fetch = list[k].fetch /\ list'[k].got = list[k].got
           /\ \A o \in Keys \ {k} : list'[o] = list[o]
  <1> DEFINE k == KeyOf(req[s].op)
             m == [list[k] EXCEPT !.behind = TRUE]
  <1>0. req[s].op # "idle" /\ k = subject /\ k \in Keys
    BY DEF ListsOk, ReqsOk, ReqInv, Succeed, Whole, NoReq
  <1>1. list[k] \in Query(Data(k)) /\ ListInv(list[k], page = k, subject = k)
    BY <1>0 DEF ListsOk
  <1>2. /\ m \in Query(Data(k))
        /\ m.data = list[k].data /\ m.error = list[k].error /\ m.fetch = list[k].fetch
        /\ m.got = list[k].got /\ m.behind
    BY <1>1 DEF Query
  <1>3. list' = [list EXCEPT ![k] = IF Mounted(k) THEN Ask(m) ELSE m] /\ UNCHANGED <<page, subject>>
    BY DEF Succeed, Invalidate
  <1> HIDE DEF m
  <1>4. /\ Ask(m) \in Query(Data(k)) /\ Ask(m).data = m.data /\ Ask(m).fetch = "sent"
        /\ Ask(m).error => m.error
    BY <1>0, <1>2, NoneIsData, Asking
  <1>5. CASE Mounted(k)
    <2>1. ListInv(Ask(m), page = k, subject = k)
      BY <1>0, <1>4 DEF ListInv
    <2>2. list' = [list EXCEPT ![k] = Ask(m)]
      BY <1>3, <1>5
    <2> QED
      BY <1>0, <1>2, <1>3, <1>4, <1>5, <2>1, <2>2, OneList
  <1>6. CASE ~Mounted(k)
    <2>1. ListInv(m, page = k, subject = k)
      BY <1>1, <1>2, <1>6 DEF ListInv, Mounted
    <2>2. list' = [list EXCEPT ![k] = m]
      BY <1>3, <1>6
    <2> QED
      BY <1>0, <1>2, <1>3, <1>6, <2>1, <2>2, OneList
  <1> QED
    BY <1>5, <1>6

LEMMA ListsStep ==
    ASSUME TypeInv, [Next]_vars
    PROVE  ListsOk'
  <1>0. ListsOk /\ RowsOk /\ ReqsOk
    BY Parts
  <1>1. CASE UNCHANGED <<list, page, subject>>
    BY <1>0, <1>1 DEF ListsOk
  <1>2. CASE Leave
    <2>1. UNCHANGED <<list, subject>> /\ page' = "elsewhere"
      BY <1>2 DEF Leave
    <2>2. \A k \in Keys : ListInv(list[k], FALSE, subject = k)
      BY <1>0 DEF ListsOk, ListInv
    <2> QED
      BY <1>0, <2>1, <2>2 DEF ListsOk, Keys
  <1>3. ASSUME Admin, ~Leave, ~Return
        PROVE  UNCHANGED <<list, page, subject>>
    BY <1>3 DEF Admin, Toggle, Create, OpenHandling, OpenTrunk, RemoveTrunk, CloseForm, Save,
                OpenMaker, CloseMaker, Send, tab
  <1>4. ASSUME NEW s \in Slots, Answers(s), ~Succeed(s)
        PROVE  UNCHANGED <<list, page, subject>>
    BY <1>4 DEF Answers, Refused, Lost, Fail
  <1>5. ASSUME NEW k \in Keys, Fetches(k)
        PROVE  ListsOk'
    BY <1>0, <1>5, RefetchList, FetchReadList, FetchArrivesList, FetchFailsList DEF Fetches, Fetch
  <1> QED
    BY <1>0, <1>1, <1>2, <1>3, <1>4, <1>5, Kinds, ReturnList, SucceedList, ServeFrame, FeatureFrame
    DEF vars, tab

-----------------------------------------------------------------------------
(* The feature codes. *)

\* A dial that moves, and what it was.
LEMMA DialsStep ==
    ASSUME TypeInv, [Next]_vars
    PROVE  DialsOk'
  <1>0. /\ dial \in [Dials -> DialRec]
        /\ \A i \in Dials : DialInv(dial[i], ext)
        /\ \A x \in Exts : ext[x] # None => ext'[x] # None
    BY Parts, RowsStep DEF DialsOk
  <1>1. \A i \in Dials : DialInv(dial[i], ext')
    BY <1>0 DEF DialInv
  <1>2. CASE UNCHANGED dial
    BY <1>0, <1>1, <1>2 DEF DialsOk
  <1>3. ASSUME NEW i \in Dials, NEW d \in DialRec, dial' = [dial EXCEPT ![i] = d], DialInv(d, ext')
        PROVE  DialsOk'
    BY <1>0, <1>1, <1>3 DEF DialsOk
  <1>4. ASSUME NEW i \in Dials, Features(i)
        PROVE  DialsOk'
    <2>0. dial[i] \in DialRec /\ DialInv(dial[i], ext')
      BY <1>0, <1>1
    <2>1. CASE \E x \in Exts, dnd \in BOOLEAN : Dial(i, x, dnd)
      <3>1. PICK x \in Exts, dnd \in BOOLEAN : Dial(i, x, dnd)
        BY <2>1
      <3> DEFINE d == [row |-> x, val |-> dnd, user |-> "waits", api |-> "asked", got |-> None]
      <3>2. d \in DialRec
        BY DEF DialRec
      <3>3. DialInv(d, ext')
        BY <3>1 DEF Dial, DialInv
      <3>4. dial' = [dial EXCEPT ![i] = d]
        BY <3>1 DEF Dial
      <3> HIDE DEF d
      <3> QED
        BY <1>3, <3>2, <3>3, <3>4
    <2>2. CASE FeatureWrite(i)
      <3>1. [dial[i] EXCEPT !.api = "written"] \in DialRec
        BY <2>0 DEF DialRec
      <3>2. DialInv([dial[i] EXCEPT !.api = "written"], ext')
        BY <2>0, <2>2 DEF FeatureWrite, DialInv, DialRec
      <3> QED
        BY <1>3, <2>2, <3>1, <3>2 DEF FeatureWrite
    <2>3. CASE FeatureRead(i)
      <3>1. ext[dial[i].row] \in ExtRow
        BY <1>0, <2>3, Parts DEF FeatureRead, DialInv, RowsOk, ExtTable
      <3> PICK got \in BoolOrNone : got = Entry(ext[dial[i].row])
        BY <3>1, EntryIsKey
      <3> DEFINE d == [dial[i] EXCEPT !.api = "read", !.got = got]
      <3>2. d \in DialRec /\ DialInv(d, ext')
        BY <2>0, <2>3 DEF FeatureRead, DialInv, DialRec, BoolOrNone
      <3>3. dial' = [dial EXCEPT ![i] = d]
        BY <2>3 DEF FeatureRead
      <3> HIDE DEF d
      <3> QED
        BY <1>3, <3>2, <3>3
    <2>4. CASE FeatureSet(i)
      <3> DEFINE d == [dial[i] EXCEPT !.api = "done", !.got = None]
      <3>1. d \in DialRec /\ DialInv(d, ext')
        BY <2>0, <2>4 DEF FeatureSet, DialInv, DialRec
      <3>2. dial' = [dial EXCEPT ![i] = d]
        BY <2>4 DEF FeatureSet
      <3> HIDE DEF d
      <3> QED
        BY <1>3, <3>1, <3>2
    <2>7. ASSUME NEW thrown \in BOOLEAN, FeatureFails(i, thrown)
          PROVE  DialsOk'
      <3> PICK api \in {"done", "failed"}, user \in {"sorry", dial[i].user} :
            /\ api = IF thrown THEN "failed" ELSE "done"
            /\ user = IF thrown /\ dial[i].user = "waits" THEN "sorry" ELSE dial[i].user
        OBVIOUS
      <3> DEFINE d == [dial[i] EXCEPT !.api = api, !.got = None, !.user = user]
      <3>1. d \in DialRec /\ DialInv(d, ext')
        BY <2>0, <2>7 DEF FeatureFails, DialInv, DialRec
      <3>2. dial' = [dial EXCEPT ![i] = d]
        BY <2>7 DEF FeatureFails
      <3> HIDE DEF d
      <3> QED
        BY <1>3, <3>1, <3>2
    <2>5. CASE Tone(i)
      <3> DEFINE d == [dial[i] EXCEPT !.user = "tone"]
      <3>1. d \in DialRec /\ DialInv(d, ext')
        BY <2>0 DEF DialInv, DialRec
      <3>2. dial' = [dial EXCEPT ![i] = d]
        BY <2>5 DEF Tone
      <3> HIDE DEF d
      <3> QED
        BY <1>3, <3>1, <3>2
    <2>6. ASSUME NEW reached \in BOOLEAN, GiveUp(i, reached)
          PROVE  DialsOk'
      <3> DEFINE d == [dial[i] EXCEPT !.user = "sorry",
                                      !.api = IF reached THEN dial[i].api ELSE "lost"]
      <3>1. d \in DialRec /\ DialInv(d, ext')
        BY <2>0, <2>6 DEF GiveUp, DialInv, DialRec
      <3>2. dial' = [dial EXCEPT ![i] = d]
        BY <2>6 DEF GiveUp
      <3> HIDE DEF d
      <3> QED
        BY <1>3, <3>1, <3>2
    <2> QED
      BY <1>4, <2>1, <2>2, <2>3, <2>4, <2>5, <2>6, <2>7 DEF Features, Feature
  <1> QED
    BY <1>2, <1>4, Kinds, AdminFrame, FetchFrame, ServeFrame, AnswerFrame DEF vars

-----------------------------------------------------------------------------
(* The dialogs. *)

LEMMA PageIsSubject ==
    ASSUME ListsOk, page = "extensions" \/ page = "trunks"
    PROVE  subject = page
  BY DEF ListsOk

\* What the button of a dialog waits for is not disturbed by others' requests.
\* A step of the API moves one request along and keeps what it asks for.
LEMMA ServeKeeps ==
    ASSUME req \in [Slots -> Req], NEW v \in Slots, Serves(v)
    PROVE  \A u \in Slots : req'[u].op = req[u].op /\ req'[u].row = req[u].row
  <1>1. CASE WriteExtension(v)
    BY <1>1 DEF WriteExtension, At, Req
  <1>2. CASE CacheRead(v)
    BY <1>2 DEF CacheRead, Req
  <1>3. CASE CacheSet(v)
    BY <1>3 DEF CacheSet, Req
  <1>4. ASSUME NEW thrown \in BOOLEAN, CacheFails(v, thrown)
        PROVE  \A u \in Slots : req'[u].op = req[u].op /\ req'[u].row = req[u].row
    BY <1>4 DEF CacheFails, Req
  <1>5. CASE WriteTrunk(v)
    BY <1>5 DEF WriteTrunk, At, Req
  <1>6. CASE SetPassword(v) \/ SendPassword(v)
    BY <1>6 DEF SetPassword, SendPassword, At, Req
  <1> QED
    BY <1>1, <1>2, <1>3, <1>4, <1>5, <1>6 DEF Serves, Serve

LEMMA OthersStay ==
    ASSUME TypeInv, [Next]_vars, NEW s \in Slots, req[s].op # "idle"
    PROVE  \/ req'[s].op = req[s].op /\ req'[s].row = req[s].row
           \/ Answers(s) /\ req' = [req EXCEPT ![s] = NoReq]
  <1>0. ReqsOk /\ req \in [Slots -> Req] /\ NoReq.op = "idle"
    BY Parts DEF ReqsOk, NoReq
  <1>1. CASE UNCHANGED req
    BY <1>1
  <1>2. CASE Admin
    BY <1>0, <1>2, AdminReqs
  <1>3. ASSUME NEW v \in Slots, Serves(v)
        PROVE  req'[s].op = req[s].op /\ req'[s].row = req[s].row
    BY <1>0, <1>3, ServeKeeps
  <1>4. ASSUME NEW v \in Slots, Answers(v)
        PROVE  req' = [req EXCEPT ![v] = NoReq]
    BY <1>4 DEF Answers, Succeed, Refused, Lost, Fail
  <1> QED
    BY <1>0, <1>1, <1>2, <1>3, <1>4, Kinds, FetchFrame, FeatureFrame DEF vars

\* A dialog that is not, or that waits for nothing.
LEMMA FormIdle ==
    ASSUME ListsOk', form' = NoForm
    PROVE  FormOk'
  BY NonePart DEF FormOk, FormInv, NoForm, Form

LEMMA FormStep ==
    ASSUME TypeInv, [Next]_vars
    PROVE  FormOk'
  <1>0. FormOk /\ ListsOk /\ ReqsOk /\ ListsOk'
    BY Parts, ListsStep
  <1>1. /\ form \in Form
        /\ form.awaits # None =>
             /\ form.awaits \in Slots /\ req[form.awaits].op = form.kind
             /\ req[form.awaits].row = form.row /\ req[form.awaits].op # "idle"
    BY <1>0 DEF FormOk, FormInv, Form
  <1>2. ASSUME UNCHANGED <<form, page>>,
               form.awaits # None => req'[form.awaits].op = form.kind
                                       /\ req'[form.awaits].row = form.row
        PROVE  FormOk'
    BY <1>0, <1>2 DEF FormOk, FormInv
  <1>3. ASSUME UNCHANGED <<form, page>>,
               \A s \in Slots : req[s].op # "idle" =>
                 req'[s].op = req[s].op /\ req'[s].row = req[s].row
        PROVE  FormOk'
    BY <1>1, <1>2, <1>3
  <1>4. CASE Admin
    <2>0. \A s \in Slots : req[s].op # "idle" => req'[s].op = req[s].op /\ req'[s].row = req[s].row
      BY <1>0, <1>4, AdminReqs DEF NoReq
    <2>1. CASE Leave \/ CloseForm
      BY <1>0, <2>1, FormIdle DEF Leave, CloseForm
    <2>2. CASE Return
      <3>1. form.kind = "none" /\ form' = form
        BY <1>0, <2>2 DEF Return, FormOk, FormInv, Form
      <3> QED
        BY <1>0, <3>1 DEF FormOk, FormInv
    <2>3. ASSUME NEW x \in Exts, NEW dnd \in BOOLEAN, OpenHandling(x, dnd)
          PROVE  FormOk'
      <3>1. form' = [NoForm EXCEPT !.kind = "handling", !.row = x, !.val = dnd]
        BY <2>3 DEF OpenHandling
      <3>2. /\ form' \in Form
            /\ form'.kind = "handling" /\ form'.row = x /\ form'.awaits = None
        BY <3>1 DEF NoForm, Form
      <3>3. page' = "extensions"
        BY <2>3 DEF OpenHandling
      <3> QED
        BY <3>2, <3>3 DEF FormOk, FormInv
    <2>4. ASSUME NEW t \in Trunks \cup {None}, NEW password \in BOOLEAN, OpenTrunk(t, password)
          PROVE  FormOk'
      <3>1. form' = [NoForm EXCEPT !.kind = "trunk", !.row = t, !.val = password]
        BY <2>4 DEF OpenTrunk
      <3>2. /\ form' \in Form
            /\ form'.kind = "trunk" /\ form'.row = t /\ form'.awaits = None
        BY <3>1 DEF NoForm, Form
      <3>3. page' = "trunks"
        BY <2>4 DEF OpenTrunk
      <3> QED
        BY <3>2, <3>3 DEF FormOk, FormInv
    <2>5. CASE Save
      <3>1. Send(form.kind, form.row, form.val)
        BY <2>5 DEF Save
      <3>2. /\ FreeSlot \in Slots
            /\ req'[FreeSlot].op = form.kind /\ req'[FreeSlot].row = form.row
        BY <1>0, <3>1, Sending DEF ReqsOk
      <3>3. form' = [form EXCEPT !.awaits = FreeSlot] /\ page' = page
        BY <2>5 DEF Save
      <3>4. /\ form' \in Form
            /\ form'.kind = form.kind /\ form'.row = form.row /\ form'.awaits = FreeSlot
        BY <1>1, <3>2, <3>3 DEF Form
      <3> QED
        BY <1>0, <2>5, <3>2, <3>3, <3>4 DEF FormOk, FormInv, Save
    <2>6. ASSUME \/ \E x \in Exts : Toggle(x) \/ Create(x)
                 \/ \E t \in Trunks : RemoveTrunk(t)
                 \/ OpenMaker \/ CloseMaker
          PROVE  UNCHANGED <<form, page>>
      BY <2>6 DEF Toggle, Create, RemoveTrunk, OpenMaker, CloseMaker, tab
    <2> QED
      BY <1>3, <1>4, <2>0, <2>1, <2>2, <2>3, <2>4, <2>5, <2>6 DEF Admin
  <1>5. ASSUME NEW k \in Keys, Fetches(k)
        PROVE  FormOk'
    <2>1. UNCHANGED <<page, req>>
      BY <1>5, FetchFrame
    <2>2. CASE form' = form
      BY <1>3, <2>1, <2>2
    <2>3. CASE form' = [form EXCEPT !.awaits = None]
      <3>1. form' \in Form /\ form'.kind = form.kind /\ form'.row = form.row /\ form'.awaits = None
        BY <1>1, <2>3 DEF Form
      <3> QED
        BY <1>0, <2>1, <3>1 DEF FormOk, FormInv
    <2> QED
      BY <1>5, <2>2, <2>3 DEF Fetches, Refetch, Fetch, FetchRead, FetchArrives, FetchFails, Blanked, tab
  <1>6. ASSUME NEW s \in Slots, Answers(s)
        PROVE  FormOk'
    <2>1. page' = page /\ req' = [req EXCEPT ![s] = NoReq]
      BY <1>6, AnswerFrame DEF Answers, Succeed, Refused, Lost, Fail
    <2>2. \A v \in Slots \ {s} : req'[v] = req[v]
      BY <1>0, <2>1 DEF ReqsOk
    <2>3. CASE Succeed(s)
      <3>1. CASE Closes(s)
        BY <1>0, <2>3, <3>1, FormIdle DEF Succeed
      <3>2. CASE ~Closes(s)
        <4>1. form' = form
          BY <2>3, <3>2 DEF Succeed
        <4>2. form.awaits # s
          BY <1>1, <3>2, NonePart DEF Closes
        <4> QED
          BY <1>1, <1>2, <2>1, <2>2, <4>1, <4>2
      <3> QED
        BY <3>1, <3>2
    <2>4. CASE Fail(s)
      <3>1. CASE form.awaits = s
        <4>1. form' = [form EXCEPT !.awaits = None]
          BY <2>4, <3>1 DEF Fail
        <4>2. form' \in Form /\ form'.kind = form.kind /\ form'.row = form.row /\ form'.awaits = None
          BY <1>1, <4>1 DEF Form
        <4>3. form.kind # "none"
          BY <1>0, <1>1, <3>1, NonePart DEF ReqsOk, Req, Op
        <4> QED
          BY <1>0, <2>1, <4>2, <4>3 DEF FormOk, FormInv
      <3>2. CASE form.awaits # s
        BY <1>1, <1>2, <2>1, <2>2, <2>4, <3>2 DEF Fail
      <3> QED
        BY <3>1, <3>2
    <2> QED
      BY <1>6, <2>3, <2>4 DEF Answers, Refused, Lost
  <1>7. ASSUME NEW s \in Slots, Serves(s)
        PROVE  FormOk'
    <2>1. \A v \in Slots : req[v].op # "idle" => req'[v].op = req[v].op /\ req'[v].row = req[v].row
      BY <1>0, <1>7, ServeKeeps DEF ReqsOk
    <2> QED
      BY <1>3, <1>7, <2>1, ServeFrame DEF tab
  <1>8. CASE UNCHANGED <<form, page, req>>
    BY <1>3, <1>8
  <1> QED
    BY <1>4, <1>5, <1>6, <1>7, <1>8, Kinds, FeatureFrame DEF vars, tab

\* The extensions page shows its dialogs as long as its list has data and no error.
Shown(q) == q.data # None /\ ~q.error

LEMMA UpIsShown ==
    ASSUME ListsOk, page = "extensions"
    PROVE  Up => Shown(list["extensions"])
  BY DEF Up, QueryState, Shown

LEMMA MakerIdle ==
    ASSUME maker' = NoMaker
    PROVE  MakerOk'
  BY NonePart DEF MakerOk, MakerInv, NoMaker, Maker

LEMMA MakerStep ==
    ASSUME TypeInv, [Next]_vars
    PROVE  MakerOk'
  <1> DEFINE L == list["extensions"]
  <1>0. MakerOk /\ ListsOk /\ ReqsOk /\ "extensions" \in Keys /\ L \in Query(Data("extensions"))
    BY Parts DEF ListsOk, Keys
  <1>1. /\ maker \in Maker
        /\ maker.awaits # None =>
             /\ maker.awaits \in Slots /\ req[maker.awaits].op = "create"
             /\ maker.open /\ page = "extensions" /\ Shown(L)
    BY <1>0 DEF MakerOk, MakerInv, Maker, Shown
  <1>2. ASSUME UNCHANGED <<maker, page>>,
               maker.awaits # None => req'[maker.awaits].op = "create" /\ Shown(L')
        PROVE  MakerOk'
    BY <1>0, <1>2 DEF MakerOk, MakerInv, Shown
  <1>3. ASSUME UNCHANGED <<maker, page>>, Shown(L) => Shown(L'),
               \A s \in Slots : req[s].op # "idle" => req'[s].op = req[s].op
        PROVE  MakerOk'
    BY <1>1, <1>2, <1>3
  <1>4. CASE Admin
    <2>0. \A s \in Slots : req[s].op # "idle" => req'[s].op = req[s].op
      BY <1>0, <1>4, AdminReqs DEF NoReq
    <2>1. CASE Leave \/ CloseMaker
      BY <2>1, MakerIdle DEF Leave, CloseMaker
    <2>2. CASE Return
      <3>1. ~maker.open /\ maker.made = None /\ maker.awaits = None /\ maker' = maker
        BY <1>0, <2>2 DEF Return, MakerOk, MakerInv
      <3> QED
        BY <1>1, <3>1 DEF MakerOk, MakerInv
    <2>3. CASE OpenMaker
      <3> DEFINE m == [maker EXCEPT !.open = TRUE, !.seen = maker.made # None]
      <3>1. (maker.made # None) \in BOOLEAN
        OBVIOUS
      <3>2. /\ m \in Maker
            /\ m.open /\ m.made = maker.made /\ (m.seen <=> maker.made # None)
            /\ m.awaits = maker.awaits
        BY <1>1, <3>1 DEF Maker
      <3>3. maker' = m /\ page = "extensions" /\ UNCHANGED <<page, req, list>>
        BY <2>3 DEF OpenMaker
      <3> HIDE DEF m
      <3> QED
        BY <1>0, <1>1, <3>2, <3>3 DEF MakerOk, MakerInv
    <2>4. ASSUME NEW x \in Exts, Create(x)
          PROVE  MakerOk'
      <3>1. Send("create", x, FALSE) /\ maker.open /\ maker.made = None /\ Up
        BY <2>4 DEF Create
      <3>2. FreeSlot \in Slots /\ req'[FreeSlot].op = "create" /\ list' = list
        <4>1. ASSUME NEW v, Send("create", x, v)
              PROVE  FreeSlot \in Slots /\ req'[FreeSlot].op = "create" /\ list' = list
          BY <1>0, <4>1, Sending DEF ReqsOk
        <4> QED
          BY <3>1, <4>1
      <3>3. maker' = [maker EXCEPT !.awaits = FreeSlot] /\ page' = page /\ page = "extensions"
        BY <1>0, <2>4, <3>1 DEF Create, MakerOk, MakerInv
      <3>4. /\ maker' \in Maker
            /\ maker'.open = maker.open /\ maker'.made = maker.made /\ maker'.seen = maker.seen
            /\ maker'.awaits = FreeSlot
        BY <1>1, <3>2, <3>3 DEF Maker
      <3>5. Shown(L)
        BY <1>0, <3>1, <3>3, UpIsShown
      <3> QED
        BY <3>1, <3>2, <3>3, <3>4, <3>5 DEF MakerOk, MakerInv, Shown
    <2>5. ASSUME \/ \E x \in Exts : Toggle(x) \/ \E dnd \in BOOLEAN : OpenHandling(x, dnd)
                 \/ \E t \in Trunks \cup {None}, password \in BOOLEAN : OpenTrunk(t, password)
                 \/ \E t \in Trunks : RemoveTrunk(t)
                 \/ CloseForm \/ Save
          PROVE  UNCHANGED <<maker, page, list>>
      BY <2>5 DEF Toggle, RemoveTrunk, OpenHandling, OpenTrunk, CloseForm, Save, Send, tab
    <2> QED
      BY <1>3, <1>4, <2>0, <2>1, <2>2, <2>3, <2>4, <2>5 DEF Admin
  <1>5. ASSUME NEW k \in Keys, Fetches(k)
        PROVE  MakerOk'
    <2>0. UNCHANGED <<page, req>>
      BY <1>5, FetchFrame
    <2>1. CASE Refetch(k) \/ FetchRead(k) \/ FetchArrives(k)
      <3>1. maker' = maker
        BY <2>1 DEF Refetch, FetchRead, FetchArrives, tab
      <3>2. Shown(L) => Shown(L')
        <4>1. CASE k = "extensions"
          <5>1. CASE Refetch(k)
            <6>1. L' = Ask(L)
              BY <1>0, <4>1, <5>1, RefetchList
            <6> QED
              BY <1>0, <6>1, NoneIsData, Asking DEF Shown
          <5>2. CASE FetchRead(k) \/ FetchArrives(k)
            BY <1>0, <4>1, <5>2, FetchReadList, FetchArrivesList, Parts DEF Shown
          <5> QED
            BY <2>1, <5>1, <5>2
        <4>2. CASE k # "extensions"
          BY <1>0, <2>1, <4>2, RefetchList, FetchReadList, FetchArrivesList, Parts
        <4> QED
          BY <4>1, <4>2
      <3> QED
        BY <1>3, <2>0, <3>1, <3>2
    <2>2. ASSUME NEW final \in BOOLEAN, FetchFails(k, final)
          PROVE  MakerOk'
      <3>1. CASE UNCHANGED maker /\ (maker.awaits # None => Shown(L'))
        BY <1>1, <1>2, <2>0, <3>1
      <3>2. CASE /\ UNCHANGED <<form, maker>>
                 /\ list'[k].error = list[k].error /\ list'[k].data = list[k].data
        <4>1. L' = L \/ (L'.error = L.error /\ L'.data = L.data)
          BY <1>0, <2>2, <3>2, FetchFailsList
        <4> QED
          BY <1>1, <3>1, <3>2, <4>1 DEF Shown
      <3>3. CASE maker' = Blanked([maker EXCEPT !.made = None, !.seen = FALSE])
        <4> DEFINE m == [maker EXCEPT !.made = None, !.seen = FALSE]
        <4>1. /\ m \in Maker
              /\ m.open = maker.open /\ m.made = None /\ m.awaits = maker.awaits
          BY <1>1 DEF Maker
        <4> HIDE DEF m
        <4>2. /\ maker' \in Maker
              /\ maker'.open = maker.open /\ maker'.made = None
              /\ maker'.awaits = IF page = "extensions" THEN None ELSE maker.awaits
          BY <3>3, <4>1 DEF Blanked, Maker, m
        <4> QED
          BY <1>0, <1>1, <2>0, <4>2 DEF MakerOk, MakerInv
      <3> QED
        BY <1>0, <2>2, <3>2, <3>3, FetchFailsList
    <2> QED
      BY <1>5, <2>1, <2>2 DEF Fetches, Fetch
  <1>6. ASSUME NEW s \in Slots, Answers(s)
        PROVE  MakerOk'
    <2>1. page' = page /\ req' = [req EXCEPT ![s] = NoReq]
      BY <1>6, AnswerFrame DEF Answers, Succeed, Refused, Lost, Fail
    <2>2. \A v \in Slots \ {s} : req'[v] = req[v]
      BY <1>0, <2>1 DEF ReqsOk
    <2>3. CASE Succeed(s)
      <3>0. Shown(L) => Shown(L')
        BY <1>0, <2>3, SucceedList DEF Shown
      <3>1. CASE req[s].op = "create" /\ Up
        <4>1. page = "extensions" /\ req[s].row \in Exts /\ req[s].row # None
          BY <1>0, <3>1, NonePart DEF Up, ListsOk, ReqsOk, ReqInv, ExtOps, KeyOf
        <4> DEFINE m == [maker EXCEPT !.made = req[s].row, !.seen = maker.open,
                                      !.awaits = IF maker.awaits = s THEN None ELSE maker.awaits]
        <4>2. /\ m \in Maker
              /\ m.open = maker.open /\ m.made = req[s].row /\ m.seen = maker.open
              /\ m.awaits = IF maker.awaits = s THEN None ELSE maker.awaits
          BY <1>1, <4>1 DEF Maker
        <4>3. maker' = m
          BY <2>3, <3>1 DEF Succeed, Made
        <4> HIDE DEF m
        <4> QED
          BY <1>1, <2>1, <2>2, <3>0, <4>1, <4>2, <4>3 DEF MakerOk, MakerInv, Shown
      <3>2. CASE ~(req[s].op = "create" /\ Up)
        <4>1. maker' = maker
          BY <2>3, <3>2 DEF Succeed
        <4>2. maker.awaits # s
          <5>1. ASSUME maker.awaits = s PROVE Up
            BY <1>0, <1>1, <5>1, NonePart DEF Up, Shown, QueryState
          <5> QED
            BY <1>1, <3>2, <5>1, NonePart
        <4> QED
          BY <1>1, <1>2, <2>1, <2>2, <3>0, <4>1, <4>2
      <3> QED
        BY <3>1, <3>2
    <2>4. CASE Fail(s)
      <3>0. list' = list
        BY <2>4 DEF Fail
      <3>1. CASE maker.awaits = s
        <4>1. maker' = [maker EXCEPT !.awaits = None]
          BY <2>4, <3>1 DEF Fail
        <4>2. /\ maker' \in Maker
              /\ maker'.open = maker.open /\ maker'.made = maker.made /\ maker'.seen = maker.seen
              /\ maker'.awaits = None
          BY <1>1, <4>1 DEF Maker
        <4> QED
          BY <1>0, <2>1, <4>2 DEF MakerOk, MakerInv
      <3>2. CASE maker.awaits # s
        BY <1>1, <1>2, <2>1, <2>2, <2>4, <3>0, <3>2 DEF Fail
      <3> QED
        BY <3>1, <3>2
    <2> QED
      BY <1>6, <2>3, <2>4 DEF Answers, Refused, Lost
  <1>7. ASSUME NEW s \in Slots, Serves(s)
        PROVE  MakerOk'
    <2>1. \A v \in Slots : req[v].op # "idle" => req'[v].op = req[v].op
      BY <1>0, <1>7, ServeKeeps DEF ReqsOk
    <2> QED
      BY <1>3, <1>7, <2>1, ServeFrame DEF tab
  <1>8. CASE UNCHANGED <<maker, page, req, list>>
    BY <1>3, <1>8
  <1> QED
    BY <1>4, <1>5, <1>6, <1>7, <1>8, Kinds, FeatureFrame DEF vars, tab

LEMMA TypeStep ==
    ASSUME TypeInv, [Next]_vars
    PROVE  TypeInv'
  <1>1. RowsOk' /\ ListsOk' /\ ReqsOk' /\ DialsOk' /\ FormOk' /\ MakerOk'
    BY RowsStep, ListsStep, ReqsStep, DialsStep, FormStep, MakerStep
  <1>2. TypeInv' <=> RowsOk' /\ ListsOk' /\ ReqsOk' /\ DialsOk' /\ FormOk' /\ MakerOk'
    BY Parts, PTL
  <1> QED
    BY <1>1, <1>2

-----------------------------------------------------------------------------
(* The lists agree with the rows. *)

LEMMA RowsSame ==
    ASSUME NEW k \in Keys, trunk' = trunk,
           \A x \in Exts : (ext[x] = None <=> ext'[x] = None)
                             /\ (ext[x] # None => ext'[x].on = ext[x].on)
    PROVE  Rows(k)' = Rows(k)
  BY DEF Rows

\* Nothing of k changes, and whoever has touched its list still has.
LEMMA FreshKept ==
    ASSUME NEW k \in Keys, Fresh(k), list'[k] = list[k], Rows(k)' = Rows(k),
           k \in unheard => k \in unheard',
           \A s \in Slots : Touches(req[s], k) => Touches(req'[s], k) \/ k \in unheard'
    PROVE  Fresh(k)'
  BY DEF Fresh

LEMMA FreshFetch ==
    ASSUME TypeInv, NEW k \in Keys, NEW o \in Keys, Fresh(o), Fetches(k)
    PROVE  Fresh(o)'
  <1>0. ListsOk /\ RowsOk /\ UNCHANGED <<rows, req>>
    BY Parts, FetchFrame
  <1>1. Rows(o)' = Rows(o)
    BY <1>0 DEF Rows, rows
  <1>2. o # k => list'[o] = list[o]
    BY <1>0, RefetchList, FetchReadList, FetchArrivesList, FetchFailsList DEF Fetches, Fetch
  <1>3. o # k => (o \in unheard => o \in unheard')
    BY DEF Fetches, Fetch, Refetch, FetchRead, FetchArrives, FetchFails, history
  <1>4. CASE o # k
    BY <1>0, <1>1, <1>2, <1>3, <1>4, FreshKept
  <1>5. CASE o = k
    <2>1. CASE Refetch(k) \/ \E final \in BOOLEAN : FetchFails(k, final)
      <3>1. list'[k].fetch = "sent" \/ (list'[k].fetch = "idle" /\ list'[k].error)
        <4>1. ASSUME Refetch(k) PROVE list'[k].fetch = "sent"
          BY <1>0, <4>1, RefetchList, NoneIsData, Asking DEF ListsOk
        <4> QED
          BY <1>0, <2>1, <4>1, FetchFailsList
      <3> QED
        BY <1>5, <3>1 DEF Fresh
    <2>2. CASE FetchRead(k)
      BY <1>0, <1>1, <1>5, <2>2, FetchReadList DEF Fresh
    <2>3. CASE FetchArrives(k)
      <3>1. unheard' = unheard /\ list[k].fetch = "read"
        BY <2>3 DEF FetchArrives, history
      <3> QED
        BY <1>0, <1>1, <1>5, <2>3, <3>1, FetchArrivesList DEF Fresh
    <2> QED
      BY <2>1, <2>2, <2>3 DEF Fetches, Fetch
  <1> QED
    BY <1>4, <1>5

LEMMA FreshServe ==
    ASSUME TypeInv, [Next]_vars, NEW s \in Slots, NEW k \in Keys, Fresh(k), Serves(s)
    PROVE  Fresh(k)'
  <1> DEFINE r == req[s]
  <1>0. /\ r \in Req /\ ReqInv(r, ext, trunk, subject)
        /\ req \in [Slots -> Req]
        /\ UNCHANGED <<list, unheard>>
        /\ ext \in ExtTable
    BY Parts, ServeFrame DEF ReqsOk, RowsOk, tab
  <1>1. \A v \in Slots \ {s} : req'[v] = req[v]
    BY <1>0 DEF Serves, Serve, WriteExtension, CacheRead, CacheSet, CacheFails, WriteTrunk, SetPassword,
                SendPassword, At
  <1>2. ASSUME Touches(req'[s], k)
        PROVE  Fresh(k)'
    BY <1>2 DEF Fresh
  <1>3. ASSUME Rows(k)' = Rows(k), Touches(r, k) => Touches(req'[s], k)
        PROVE  Fresh(k)'
    BY <1>0, <1>1, <1>3, FreshKept
  <1>4. CASE WriteExtension(s)
    <2>1. r.op \in ExtOps /\ r.at = "sent" /\ r.row \in Exts /\ trunk' = trunk /\ r.id = None
      BY <1>0, <1>4 DEF WriteExtension, ReqInv
    <2>2. CASE At(s, "written")
      <3>1. req'[s].op = r.op /\ req'[s].at = "written"
        BY <1>0, <2>2 DEF At, Req
      <3>2. k = "extensions" => Touches(req'[s], k)
        BY <2>1, <3>1 DEF Touches, KeyOf, ExtOps
      <3>3. k = "trunks" => Rows(k)' = Rows(k) /\ ~Touches(r, k)
        BY <2>1 DEF Rows, Touches, KeyOf
      <3> QED
        BY <1>2, <1>3, <3>2, <3>3 DEF Keys
    <2>3. CASE At(s, "refused") /\ ext' = ext
      BY <1>3, <2>1, <2>3 DEF Rows, Touches
    <2> QED
      BY <1>4, <2>2, <2>3 DEF WriteExtension
  <1>5. CASE CacheRead(s) \/ CacheSet(s) \/ \E thrown \in BOOLEAN : CacheFails(s, thrown)
    <2>1. UNCHANGED <<ext, trunk>> /\ r.op \in ExtOps /\ r.id = None
      <3>1. UNCHANGED <<ext, trunk>> /\ r.at \in {"written", "read"}
        BY <1>5 DEF CacheRead, CacheSet, CacheFails, rows
      <3> QED
        BY <1>0, <3>1 DEF ReqInv, Req, Op, ExtOps, NoReq
    <2>2. req'[s].op = r.op /\ req'[s].at \in {"read", "done", "failed"} /\ req'[s].id = r.id
      <3>1. CASE CacheRead(s) \/ CacheSet(s)
        BY <1>0, <3>1 DEF CacheRead, CacheSet, Req
      <3>2. ASSUME NEW thrown \in BOOLEAN, CacheFails(s, thrown)
            PROVE  req'[s].op = r.op /\ req'[s].at \in {"done", "failed"} /\ req'[s].id = r.id
        BY <1>0, <3>2 DEF CacheFails, Req
      <3> QED
        BY <1>5, <3>1, <3>2
    <2> QED
      BY <1>3, <2>1, <2>2 DEF Rows, Touches
  <1>6. CASE WriteTrunk(s)
    <2>1. r.op \in {"trunk", "drop"} /\ r.at = "sent" /\ r.id = None /\ ext' = ext
      BY <1>0, <1>6 DEF WriteTrunk, ReqInv
    <2>2. CASE At(s, "refused") /\ trunk' = trunk
      BY <1>3, <2>1, <2>2 DEF Rows, Touches
    <2>3. ASSUME NEW t \in Trunks, req' = [req EXCEPT ![s].at = "done", ![s].id = t]
          PROVE  Fresh(k)'
      <3>1. req'[s].op = r.op /\ req'[s].at = "done"
        BY <1>0, <2>3 DEF Req
      <3>2. k = "trunks" => Touches(req'[s], k)
        BY <2>1, <3>1 DEF Touches, KeyOf, ExtOps
      <3>3. k = "extensions" => Rows(k)' = Rows(k) /\ ~Touches(r, k)
        BY <2>1 DEF Rows, Touches, KeyOf
      <3> QED
        BY <1>2, <1>3, <3>2, <3>3 DEF Keys
    <2>4. r.row \in Trunks \cup {None}
      BY <1>0, <2>1 DEF ReqInv
    <2> QED
      BY <1>6, <2>2, <2>3, <2>4 DEF WriteTrunk
  <1>7. CASE SetPassword(s) \/ SendPassword(s)
    <2>1. r.op = "trunk" /\ r.at \in {"done", "keySent"} /\ r.id \in Trunks /\ ext' = ext
      BY <1>0, <1>7 DEF SetPassword, SendPassword, ReqInv, rows
    <2>2. req'[s].op = r.op /\ req'[s].id = r.id
      BY <1>0, <1>7 DEF SetPassword, SendPassword, At, Req
    <2>3. k = "trunks" => Touches(req'[s], k)
      BY <2>1, <2>2, NonePart DEF Touches, KeyOf, ExtOps
    <2>4. k = "extensions" => Rows(k)' = Rows(k) /\ ~Touches(r, k)
      BY <2>1 DEF Rows, Touches, KeyOf, ExtOps
    <2> QED
      BY <1>2, <1>3, <2>3, <2>4 DEF Keys
  <1> QED
    BY <1>4, <1>5, <1>6, <1>7 DEF Serves, Serve

LEMMA FreshAnswer ==
    ASSUME TypeInv, NEW s \in Slots, NEW k \in Keys, Fresh(k), Answers(s)
    PROVE  Fresh(k)'
  <1> DEFINE r == req[s]
  <1>0. /\ ListsOk /\ ReqsOk
        /\ r \in Req /\ ReqInv(r, ext, trunk, subject)
        /\ req \in [Slots -> Req]
        /\ Rows(k)' = Rows(k)
    BY Parts, AnswerFrame DEF ReqsOk, Rows, rows
  <1>1. \A v \in Slots \ {s} : req'[v] = req[v]
    BY <1>0 DEF Answers, Succeed, Refused, Lost, Fail
  <1>2. CASE Succeed(s)
    <2>1. unheard \subseteq unheard'
      BY <1>2 DEF Succeed
    <2>2. CASE k # KeyOf(r.op)
      <3>1. list'[k] = list[k] /\ ~Touches(r, k)
        BY <1>0, <1>2, <2>2, SucceedList DEF Touches
      <3> QED
        BY <1>0, <1>1, <2>1, <3>1, FreshKept
    <2>3. CASE k = KeyOf(r.op)
      <3>1. CASE Mounted(k)
        <4>1. list'[k].fetch = "sent"
          BY <1>0, <1>2, <2>3, <3>1, SucceedList
        <4> QED
          BY <4>1 DEF Fresh
      <3>2. CASE ~Mounted(k)
        <4>1. list'[k].behind /\ list'[k].fetch = list[k].fetch
          BY <1>0, <1>2, <2>3, <3>2, SucceedList
        <4>2. list[k].fetch = "read" => k \in unheard'
          BY <1>2, <2>3, <3>2 DEF Succeed
        <4> QED
          BY <4>1, <4>2 DEF Fresh
      <3> QED
        BY <3>1, <3>2
    <2> QED
      BY <2>2, <2>3
  <1>3. CASE Refused(s) \/ Lost(s)
    <2>1. /\ Fail(s) /\ list' = list
          /\ r.at \in {"sent", "done", "keySent", "keyDone", "refused", "failed"}
      BY <1>3 DEF Refused, Lost, Fail
    <2>2. Touches(r, k) => k \in unheard'
      BY <2>1 DEF Touches, Fail
    <2>3. unheard \subseteq unheard'
      BY <2>1 DEF Fail
    <2> QED
      BY <1>0, <1>1, <2>1, <2>2, <2>3, FreshKept
  <1> QED
    BY <1>2, <1>3 DEF Answers

LEMMA FreshStep ==
    ASSUME TypeInv, [Next]_vars, NEW k \in Keys, Fresh(k)
    PROVE  Fresh(k)'
  <1>0. ListsOk /\ RowsOk
    BY Parts
  <1>1. CASE UNCHANGED <<list, rows, unheard, req>>
    BY <1>1, FreshKept DEF Rows, rows
  <1>2. CASE Admin
    <2>1. UNCHANGED <<rows, unheard>>
      BY <1>2, AdminFrame DEF history
    <2>2. Rows(k)' = Rows(k)
      BY <2>1 DEF Rows, rows
    <2>3. \A s \in Slots : Touches(req[s], k) => Touches(req'[s], k)
      BY <1>2, AdminReqs DEF Touches, NoReq
    <2>4. list'[k] = list[k] \/ list'[k].fetch = "sent"
      <3>1. ASSUME ~Return PROVE list' = list
        BY <1>2, <3>1 DEF Admin, Leave, Toggle, Create, OpenHandling, OpenTrunk, RemoveTrunk,
                          CloseForm, Save, OpenMaker, CloseMaker, Send
      <3> QED
        BY <1>0, <3>1, ReturnList
    <2>5. CASE list'[k] = list[k]
      BY <2>1, <2>2, <2>3, <2>5, FreshKept
    <2>6. CASE list'[k].fetch = "sent"
      BY <2>6 DEF Fresh
    <2> QED
      BY <2>4, <2>5, <2>6
  <1>3. ASSUME NEW i \in Dials, Features(i)
        PROVE  Fresh(k)'
    <2>1. UNCHANGED <<trunk, list, req, unheard>>
      BY <1>3, FeatureFrame
    <2>2. \A x \in Exts : (ext[x] = None <=> ext'[x] = None)
                            /\ (ext[x] # None => ext'[x].on = ext[x].on)
      <3>1. CASE FeatureWrite(i)
        <4>1. dial[i].row \in Exts /\ ext[dial[i].row] # None
          BY <3>1, Parts DEF FeatureWrite, DialsOk, DialInv
        <4>2. ext' = [ext EXCEPT ![dial[i].row].dnd = dial[i].val]
          BY <3>1 DEF FeatureWrite
        <4>3. ext'[dial[i].row] # None
          BY <1>0, <4>1, RowsStep
        <4> QED
          BY <1>0, <4>1, <4>2, <4>3 DEF RowsOk, ExtTable, ExtRow
      <3>2. CASE ~FeatureWrite(i)
        <4>1. ext' = ext
          BY <1>3, <3>2 DEF Features, Feature, FeatureRead, FeatureSet, FeatureFails, Tone, GiveUp, Dial
        <4> QED
          BY <4>1
      <3> QED
        BY <3>1, <3>2
    <2> QED
      BY <2>1, <2>2, RowsSame, FreshKept
  <1> QED
    BY <1>1, <1>2, <1>3, Kinds, FreshFetch, FreshServe, FreshAnswer DEF vars, history

-----------------------------------------------------------------------------
(* Trunks without a password. *)

LEMMA TrunkStep ==
    ASSUME TypeInv, TrunkInv, [Next]_vars
    PROVE  TrunkInv'
  <1>0. /\ ReqsOk /\ req \in [Slots -> Req]
        /\ trunk \in TrunkTable
    BY Parts DEF ReqsOk, RowsOk
  <1>1. ASSUME trunk' = trunk, \A t \in Trunks : t \in excused => t \in excused',
               \A s \in Slots, t \in Trunks : Owes(req[s], t) => Owes(req'[s], t) \/ t \in excused'
        PROVE  TrunkInv'
    BY <1>1 DEF TrunkInv
  <1>2. CASE UNCHANGED <<trunk, excused, req>>
    BY <1>1, <1>2
  <1>3. CASE Admin
    <2>1. UNCHANGED <<trunk, excused>>
      BY <1>3, AdminFrame DEF rows, history
    <2>2. \A s \in Slots, t \in Trunks : Owes(req[s], t) => Owes(req'[s], t)
      BY <1>3, AdminReqs DEF Owes, NoReq
    <2> QED
      BY <1>1, <2>1, <2>2
  <1>4. ASSUME NEW s \in Slots, Answers(s)
        PROVE  TrunkInv'
    <2>1. trunk' = trunk /\ req' = [req EXCEPT ![s] = NoReq]
      BY <1>4, AnswerFrame DEF Answers, Succeed, Refused, Lost, Fail, rows
    <2>4. \A t \in Trunks : t \in excused => t \in excused'
      BY <1>4, NonePart DEF Answers, Succeed, Refused, Lost, Fail
    <2>2. \A v \in Slots \ {s} : req'[v] = req[v]
      BY <1>0, <2>1
    <2>3. ASSUME NEW t \in Trunks, Owes(req[s], t) PROVE t \in excused'
      <3>1. ~Succeed(s)
        BY <2>3 DEF Succeed, Whole, Owes
      <3>2. Fail(s)
        BY <1>4, <3>1 DEF Answers, Refused, Lost
      <3> QED
        BY <2>3, <3>2, NonePart DEF Fail, Owes
    <2> QED
      BY <1>1, <2>1, <2>2, <2>3, <2>4
  <1>5. ASSUME NEW s \in Slots, Serves(s)
        PROVE  TrunkInv'
    <2> DEFINE r == req[s]
    <2>0. r \in Req /\ ReqInv(r, ext, trunk, subject)
      BY <1>0 DEF ReqsOk
    <2>1. \A v \in Slots \ {s} : req'[v] = req[v]
      BY <1>0, <1>5 DEF Serves, Serve, WriteExtension, CacheRead, CacheSet, CacheFails, WriteTrunk, SetPassword,
                        SendPassword, At
    <2>2. CASE \/ WriteExtension(s) \/ CacheRead(s) \/ CacheSet(s)
               \/ \E thrown \in BOOLEAN : CacheFails(s, thrown)
      <3>1. UNCHANGED <<trunk, excused>>
        BY <2>2 DEF WriteExtension, CacheRead, CacheSet, CacheFails, Kept, rows
      <3>2. r.op # "trunk"
        BY <2>0, <2>2 DEF WriteExtension, CacheRead, CacheSet, CacheFails, ReqInv, ExtOps
      <3> QED
        BY <1>1, <2>1, <3>1, <3>2 DEF Owes
    <2>3. CASE WriteTrunk(s)
      <3>1. r.op \in {"trunk", "drop"} /\ r.at = "sent" /\ r.id = None
            /\ r.row \in Trunks \cup {None}
        BY <2>0, <2>3 DEF WriteTrunk, ReqInv
      <3>2. \A t \in Trunks : ~Owes(r, t)
        BY <3>1, NonePart DEF Owes
      <3>3. CASE r.row = None
        <4>1. PICK t \in Trunks :
                /\ trunk[t] = None
                /\ trunk' = [trunk EXCEPT ![t] = "bare"]
                /\ req' = [req EXCEPT ![s].at = "done", ![s].id = t]
                /\ excused' = IF r.val THEN excused \ {t} ELSE excused \cup {t}
          BY <2>3, <3>3 DEF WriteTrunk
        <4>2. /\ req'[s].id = t /\ req'[s].at = "done" /\ req'[s].op = r.op
              /\ req'[s].val = r.val
          BY <1>0, <4>1 DEF Req
        <4>3. r.op = "trunk"
          BY <2>0, <3>1, <3>3, NonePart DEF ReqInv
        <4>4. t \in excused' \/ Owes(req'[s], t)
          BY <4>1, <4>2, <4>3 DEF Owes
        <4>5. ASSUME NEW o \in Trunks, o # t, trunk'[o] = "bare"
              PROVE  o \in excused' \/ \E v \in Slots : Owes(req'[v], o)
          <5>1. trunk[o] = "bare"
            BY <1>0, <4>1, <4>5
          <5> QED
            BY <2>1, <3>2, <4>1, <4>5, <5>1 DEF TrunkInv
        <4> QED
          BY <4>4, <4>5 DEF TrunkInv
      <3>4. CASE r.row # None
        <4>1. /\ excused' = excused
              /\ \A t \in Trunks : trunk'[t] = "bare" => trunk[t] = "bare"
          BY <1>0, <2>3, <3>1, <3>4, NoneIsNoRow DEF WriteTrunk, TrunkTable, TrunkRow
        <4> QED
          BY <2>1, <3>2, <4>1 DEF TrunkInv
      <3> QED
        BY <3>3, <3>4
    <2>4. CASE SetPassword(s)
      <3>1. r.at = "keySent" /\ r.id \in Trunks /\ excused' = excused
        BY <2>0, <2>4 DEF SetPassword, ReqInv, Kept
      <3>2. \A t \in Trunks : trunk'[t] = "bare" => trunk[t] = "bare" /\ t # r.id
        BY <1>0, <2>4, <3>1, NoneIsNoRow DEF SetPassword, TrunkTable, TrunkRow
      <3>3. \A t \in Trunks : Owes(r, t) => t = r.id
        BY DEF Owes
      <3> QED
        BY <2>1, <3>1, <3>2, <3>3 DEF TrunkInv
    <2>5. CASE SendPassword(s)
      <3>1. UNCHANGED <<trunk, excused>>
        BY <2>5 DEF SendPassword, rows, history
      <3>2. /\ req'[s].at = "keySent" /\ req'[s].id = r.id /\ req'[s].op = r.op
            /\ req'[s].val = r.val
        BY <1>0, <2>5 DEF SendPassword, At, Req
      <3> QED
        BY <1>1, <2>1, <3>1, <3>2 DEF Owes
    <2> QED
      BY <1>5, <2>2, <2>3, <2>4, <2>5 DEF Serves, Serve
  <1> QED
    BY <1>2, <1>3, <1>4, <1>5, Kinds, FetchFrame, FeatureFrame DEF vars, rows, history

-----------------------------------------------------------------------------
(* The entries in Redis. *)

LEMMA HandlingIs ==
    ASSUME NEW x
    PROVE  Handling(x) <=> \/ \E s \in Slots : HandlesReq(req[s], x)
                           \/ \E i \in Dials : HandlesDial(dial[i], x)
  BY DEF Handling, HandlesReq, HandlesDial

\* The row and the entry of x stay, and so do its handlers, but for what they read.
LEMMA EntryKept ==
    ASSUME NEW x \in Exts, EntryInv(x), x \in unsure => x \in unsure',
           ext'[x] = ext[x], entry'[x] = entry[x],
           \A s \in Slots :
             /\ HandlesReq(req'[s], x) <=> HandlesReq(req[s], x)
             /\ HandlesReq(req'[s], x) /\ req'[s].at = "read" =>
                  req'[s].got = Entry(ext[x]) \/ (req[s].at = "read" /\ req'[s].got = req[s].got),
           \A i \in Dials :
             /\ HandlesDial(dial'[i], x) <=> HandlesDial(dial[i], x)
             /\ HandlesDial(dial'[i], x) /\ dial'[i].api = "read" =>
                  dial'[i].got = Entry(ext[x]) \/ (dial[i].api = "read" /\ dial'[i].got = dial[i].got)
    PROVE  EntryInv(x)'
  <1>1. /\ Handling(x) <=> \/ \E s \in Slots : HandlesReq(req[s], x)
                           \/ \E i \in Dials : HandlesDial(dial[i], x)
        /\ Handling(x)' <=> \/ \E s \in Slots : HandlesReq(req'[s], x)
                            \/ \E i \in Dials : HandlesDial(dial'[i], x)
    BY DEF Handling, HandlesReq, HandlesDial
  <1> QED
    BY <1>1 DEF EntryInv

LEMMA EntryServe ==
    ASSUME TypeInv, NEW x \in Exts, EntryInv(x), NEW s \in Slots, Serves(s)
    PROVE  EntryInv(x)'
  <1> DEFINE r == req[s]
  <1>0. /\ req \in [Slots -> Req]
        /\ r \in Req /\ ReqInv(r, ext, trunk, subject)
        /\ ext \in ExtTable /\ entry \in [Exts -> BoolOrNone]
        /\ dial' = dial
    BY Parts, ServeFrame DEF ReqsOk, RowsOk
  <1>1. \A v \in Slots \ {s} : req'[v] = req[v]
    BY <1>0 DEF Serves, Serve, WriteExtension, CacheRead, CacheSet, CacheFails, WriteTrunk, SetPassword,
                SendPassword, At
  <1>2. ASSUME x \in unsure => x \in unsure',
               ext'[x] = ext[x], entry'[x] = entry[x],
               HandlesReq(req'[s], x) <=> HandlesReq(r, x),
               HandlesReq(req'[s], x) /\ req'[s].at = "read" =>
                 req'[s].got = Entry(ext[x]) \/ (r.at = "read" /\ req'[s].got = r.got)
        PROVE  EntryInv(x)'
    BY <1>0, <1>1, <1>2, EntryKept
  <1>3. CASE WriteExtension(s)
    <2>1. r.op \in ExtOps /\ r.at = "sent" /\ r.row \in Exts /\ entry' = entry
      BY <1>0, <1>3 DEF WriteExtension, ReqInv
    <2>2. ~HandlesReq(r, x)
      BY <2>1 DEF HandlesReq
    <2>3. CASE At(s, "refused") /\ UNCHANGED <<ext, unsure>>
      <3>1. req'[s].at = "refused"
        BY <1>0, <2>3 DEF At, Req
      <3> QED
        BY <1>2, <2>1, <2>2, <2>3, <3>1 DEF HandlesReq
    <2>4. ASSUME At(s, "written"), Cross(r.row), \A y \in Exts \ {r.row} : ext'[y] = ext[y]
          PROVE  EntryInv(x)'
      <3>1. req'[s].at = "written" /\ req'[s].row = r.row /\ req'[s].op = r.op
        BY <1>0, <2>4 DEF At, Req
      <3>2. CASE x # r.row
        <4>1. ~HandlesReq(req'[s], x) /\ (x \in unsure => x \in unsure') /\ ext'[x] = ext[x]
          BY <2>4, <3>1, <3>2 DEF HandlesReq, Cross
        <4> QED
          BY <1>2, <2>1, <2>2, <4>1
      <3>3. CASE x = r.row
        <4>1. CASE Handling(x)
          BY <2>4, <3>3, <4>1 DEF EntryInv, Cross
        <4>2. CASE ~Handling(x)
          <5>1. /\ \A v \in Slots : ~HandlesReq(req[v], x)
                /\ \A i \in Dials : ~HandlesDial(dial[i], x)
            BY <4>2, HandlingIs
          <5>2. /\ \A v \in Slots \ {s} : ~HandlesReq(req'[v], x)
                /\ \A i \in Dials : ~HandlesDial(dial'[i], x)
            BY <1>0, <1>1, <5>1
          <5>3. HandlesReq(req'[s], x) /\ req'[s].at # "read"
            BY <2>1, <3>1, <3>3 DEF HandlesReq
          <5>4. Handling(x)'
            BY <5>3 DEF Handling, HandlesReq
          <5> QED
            BY <5>2, <5>3, <5>4 DEF EntryInv
        <4> QED
          BY <4>1, <4>2
      <3> QED
        BY <3>2, <3>3
    <2>5. \A e : ext' = [ext EXCEPT ![r.row] = e] => \A y \in Exts \ {r.row} : ext'[y] = ext[y]
      BY <1>0, <2>1 DEF ExtTable
    <2> QED
      BY <1>3, <2>3, <2>4, <2>5 DEF WriteExtension
  <1>4. CASE CacheRead(s)
    <2>1. r.at = "written" /\ UNCHANGED <<ext, entry, unsure>>
      BY <1>4 DEF CacheRead, rows, Kept
    <2>2. /\ req'[s].at = "read" /\ req'[s].got = Entry(ext[r.row]) /\ req'[s].op = r.op
          /\ req'[s].row = r.row
      BY <1>0, <1>4 DEF CacheRead, Req
    <2> QED
      BY <1>2, <2>1, <2>2 DEF HandlesReq
  <1>5. CASE CacheSet(s)
    <2>1. /\ r.at = "read" /\ UNCHANGED <<ext, unsure>> /\ r.op \in ExtOps /\ r.row \in Exts
          /\ entry' = [entry EXCEPT ![r.row] = r.got]
      BY <1>0, <1>5 DEF CacheSet, Kept, ReqInv, Req, Op, ExtOps, NoReq
    <2>2. req'[s].at = "done"
      BY <1>0, <1>5 DEF CacheSet, Req
    <2>3. ~HandlesReq(req'[s], x)
      BY <2>2 DEF HandlesReq
    <2>4. CASE x # r.row
      BY <1>0, <1>2, <2>1, <2>3, <2>4 DEF HandlesReq
    <2>5. CASE x = r.row
      <3>1. HandlesReq(r, x) /\ entry'[x] = r.got
        BY <1>0, <2>1, <2>5 DEF HandlesReq
      <3>2. SUFFICES ASSUME x \notin unsure
                     PROVE  EntryInv(x)'
        BY <2>1 DEF EntryInv
      <3>3. /\ \A v \in Slots \ {s} : ~HandlesReq(req'[v], x)
            /\ \A i \in Dials : ~HandlesDial(dial'[i], x)
            /\ r.got = Entry(ext[x])
        BY <1>0, <1>1, <2>1, <3>1, <3>2 DEF EntryInv
      <3> QED
        BY <2>1, <2>3, <3>1, <3>3 DEF EntryInv
    <2> QED
      BY <2>4, <2>5
  <1>7. ASSUME NEW thrown \in BOOLEAN, CacheFails(s, thrown)
        PROVE  EntryInv(x)'
    <2>1. unsure' = unsure \cup {r.row} /\ UNCHANGED <<ext, entry>>
      BY <1>7 DEF CacheFails, rows
    <2>2. /\ req'[s].op = r.op /\ req'[s].row = r.row /\ req'[s].at \notin {"written", "read"}
      BY <1>0, <1>7 DEF CacheFails, Req
    <2>3. CASE x # r.row
      BY <1>2, <2>1, <2>2, <2>3 DEF HandlesReq
    <2>4. CASE x = r.row
      BY <2>1, <2>4 DEF EntryInv
    <2> QED
      BY <2>3, <2>4
  <1>6. CASE WriteTrunk(s) \/ SetPassword(s) \/ SendPassword(s)
    <2>1. r.op \notin ExtOps /\ UNCHANGED <<ext, entry, unsure>>
      BY <1>0, <1>6 DEF WriteTrunk, SetPassword, SendPassword, ReqInv, ExtOps, Kept, rows, history
    <2>2. req'[s].op = r.op
      BY <1>0, <1>6 DEF WriteTrunk, SetPassword, SendPassword, At, Req
    <2> QED
      BY <1>2, <2>1, <2>2 DEF HandlesReq
  <1> QED
    BY <1>3, <1>4, <1>5, <1>6, <1>7 DEF Serves, Serve

LEMMA EntryFeature ==
    ASSUME TypeInv, NEW x \in Exts, EntryInv(x), NEW i \in Dials, Features(i)
    PROVE  EntryInv(x)'
  <1> DEFINE d == dial[i]
  <1>0. /\ dial \in [Dials -> DialRec]
        /\ d \in DialRec /\ DialInv(d, ext)
        /\ ext \in ExtTable /\ entry \in [Exts -> BoolOrNone]
        /\ req' = req
    BY Parts, FeatureFrame DEF DialsOk, RowsOk
  <1>1. \A j \in Dials \ {i} : dial'[j] = dial[j]
    BY <1>0 DEF Features, Feature, FeatureWrite, FeatureRead, FeatureSet, FeatureFails, Tone, GiveUp, Dial
  <1>2. ASSUME x \in unsure => x \in unsure',
               ext'[x] = ext[x], entry'[x] = entry[x],
               HandlesDial(dial'[i], x) <=> HandlesDial(d, x),
               HandlesDial(dial'[i], x) /\ dial'[i].api = "read" =>
                 dial'[i].got = Entry(ext[x]) \/ (d.api = "read" /\ dial'[i].got = d.got)
        PROVE  EntryInv(x)'
    BY <1>0, <1>1, <1>2, EntryKept
  <1>3. ASSUME NEW y \in Exts, NEW dnd \in BOOLEAN, Dial(i, y, dnd)
        PROVE  EntryInv(x)'
    <2>1. d.api = "none" /\ dial'[i].api = "asked" /\ UNCHANGED <<ext, entry, unsure>>
      BY <1>0, <1>3 DEF Dial, DialInv
    <2> QED
      BY <1>2, <2>1 DEF HandlesDial
  <1>4. CASE FeatureWrite(i)
    <2>1. /\ d.api = "asked" /\ d.row \in Exts /\ entry' = entry
          /\ ext' = [ext EXCEPT ![d.row].dnd = d.val] /\ Cross(d.row)
      BY <1>0, <1>4 DEF FeatureWrite, DialInv
    <2>2. dial'[i].api = "written" /\ dial'[i].row = d.row
      BY <1>0, <1>4 DEF FeatureWrite, DialRec
    <2>3. ~HandlesDial(d, x)
      BY <2>1 DEF HandlesDial
    <2>4. CASE x # d.row
      <3>1. ~HandlesDial(dial'[i], x) /\ (x \in unsure => x \in unsure') /\ ext'[x] = ext[x]
        BY <1>0, <2>1, <2>2, <2>4 DEF HandlesDial, Cross, ExtTable
      <3> QED
        BY <1>2, <2>1, <2>3, <3>1
    <2>5. CASE x = d.row
      <3>1. CASE Handling(x)
        BY <2>1, <2>5, <3>1 DEF EntryInv, Cross
      <3>2. CASE ~Handling(x)
        <4>1. /\ \A v \in Slots : ~HandlesReq(req'[v], x)
              /\ \A j \in Dials \ {i} : ~HandlesDial(dial'[j], x)
          BY <1>0, <1>1, <3>2, HandlingIs
        <4>2. HandlesDial(dial'[i], x) /\ dial'[i].api # "read"
          BY <2>2, <2>5 DEF HandlesDial
        <4>3. Handling(x)'
          BY <4>2 DEF Handling, HandlesDial
        <4> QED
          BY <4>1, <4>2, <4>3 DEF EntryInv
      <3> QED
        BY <3>1, <3>2
    <2> QED
      BY <2>4, <2>5
  <1>5. CASE FeatureRead(i)
    <2>1. d.api = "written" /\ UNCHANGED <<ext, entry, unsure>>
      BY <1>5 DEF FeatureRead
    <2>2. dial'[i].api = "read" /\ dial'[i].got = Entry(ext[d.row]) /\ dial'[i].row = d.row
      BY <1>0, <1>5 DEF FeatureRead, DialRec
    <2> QED
      BY <1>2, <2>1, <2>2 DEF HandlesDial
  <1>6. CASE FeatureSet(i)
    <2>1. /\ d.api = "read" /\ UNCHANGED <<ext, unsure>> /\ d.row \in Exts
          /\ entry' = [entry EXCEPT ![d.row] = d.got]
      BY <1>0, <1>6 DEF FeatureSet, DialInv
    <2>2. dial'[i].api = "done"
      BY <1>0, <1>6 DEF FeatureSet, DialRec
    <2>3. ~HandlesDial(dial'[i], x)
      BY <2>2 DEF HandlesDial
    <2>4. CASE x # d.row
      BY <1>0, <1>2, <2>1, <2>3, <2>4 DEF HandlesDial
    <2>5. CASE x = d.row
      <3>1. HandlesDial(d, x) /\ entry'[x] = d.got
        BY <1>0, <2>1, <2>5 DEF HandlesDial
      <3>2. SUFFICES ASSUME x \notin unsure
                     PROVE  EntryInv(x)'
        BY <2>1 DEF EntryInv
      <3>3. /\ \A v \in Slots : ~HandlesReq(req'[v], x)
            /\ \A j \in Dials \ {i} : ~HandlesDial(dial'[j], x)
            /\ d.got = Entry(ext[x])
        BY <1>0, <1>1, <2>1, <3>1, <3>2 DEF EntryInv
      <3> QED
        BY <2>1, <2>3, <3>1, <3>3 DEF EntryInv
    <2> QED
      BY <2>4, <2>5
  <1>9. ASSUME NEW thrown \in BOOLEAN, FeatureFails(i, thrown)
        PROVE  EntryInv(x)'
    <2>1. unsure' = unsure \cup {d.row} /\ UNCHANGED <<ext, entry>>
      BY <1>9 DEF FeatureFails
    <2>2. dial'[i].row = d.row /\ dial'[i].api \notin {"written", "read"}
      BY <1>0, <1>9 DEF FeatureFails, DialRec
    <2>3. CASE x # d.row
      BY <1>2, <2>1, <2>2, <2>3 DEF HandlesDial
    <2>4. CASE x = d.row
      BY <2>1, <2>4 DEF EntryInv
    <2> QED
      BY <2>3, <2>4
  <1>7. CASE Tone(i)
    <2>1. UNCHANGED <<ext, entry, unsure>>
      BY <1>7 DEF Tone
    <2>2. dial'[i].api = d.api /\ dial'[i].got = d.got /\ dial'[i].row = d.row
      BY <1>0, <1>7 DEF Tone, DialRec
    <2> QED
      BY <1>2, <2>1, <2>2 DEF HandlesDial
  <1>8. ASSUME NEW reached \in BOOLEAN, GiveUp(i, reached)
        PROVE  EntryInv(x)'
    <2>1. UNCHANGED <<ext, entry, unsure>> /\ (d.api # "asked" => reached)
      BY <1>8 DEF GiveUp
    <2>2. /\ dial'[i].api = IF reached THEN d.api ELSE "lost"
          /\ dial'[i].got = d.got /\ dial'[i].row = d.row
      BY <1>0, <1>8 DEF GiveUp, DialRec
    <2> QED
      BY <1>2, <2>1, <2>2 DEF HandlesDial
  <1> QED
    BY <1>3, <1>4, <1>5, <1>6, <1>7, <1>8, <1>9 DEF Features, Feature

LEMMA EntryStep ==
    ASSUME TypeInv, [Next]_vars, NEW x \in Exts, EntryInv(x)
    PROVE  EntryInv(x)'
  <1>0. ReqsOk /\ req \in [Slots -> Req]
    BY Parts DEF ReqsOk
  <1>1. CASE UNCHANGED <<rows, req, dial, unsure>>
    BY <1>1, EntryKept DEF rows
  <1>2. CASE Admin
    <2>1. UNCHANGED <<rows, dial, unsure>>
      BY <1>2, AdminFrame DEF history
    <2>2. \A s \in Slots : req'[s] = req[s] \/ (~HandlesReq(req'[s], x) /\ ~HandlesReq(req[s], x))
      BY <1>0, <1>2, AdminReqs DEF HandlesReq, NoReq
    <2> QED
      BY <2>1, <2>2, EntryKept DEF rows
  <1>3. ASSUME NEW s \in Slots, Answers(s)
        PROVE  EntryInv(x)'
    <2>1. UNCHANGED <<rows, dial, unsure>> /\ req' = [req EXCEPT ![s] = NoReq]
      BY <1>3, AnswerFrame DEF Answers, Succeed, Refused, Lost, Fail
    <2>2. req[s].at \notin {"written", "read"}
      BY <1>3 DEF Answers, Succeed, Whole, Refused, Lost
    <2>3. ~HandlesReq(req[s], x) /\ ~HandlesReq(NoReq, x)
      BY <2>2 DEF HandlesReq, NoReq
    <2>4. \A v \in Slots : req'[v] = req[v] \/ (~HandlesReq(req'[v], x) /\ ~HandlesReq(req[v], x))
      BY <1>0, <2>1, <2>3
    <2> QED
      BY <2>1, <2>4, EntryKept DEF rows
  <1> QED
    BY <1>1, <1>2, <1>3, Kinds, FetchFrame, EntryServe, EntryFeature DEF vars, history

\* The dial that wrote a row last.
LEMMA WriterStep ==
    ASSUME TypeInv, WriterInv, [Next]_vars
    PROVE  WriterInv'
  <1>0. /\ dial \in [Dials -> DialRec]
        /\ \A i \in Dials : DialInv(dial[i], ext)
        /\ ext \in ExtTable
        /\ writer \in [Exts -> 0..MaxDials]
        /\ 0 \notin Dials /\ Dials \subseteq 0..MaxDials /\ 0 \in 0..MaxDials
    BY Parts, Counts DEF DialsOk, RowsOk, WriterInv, Dials
  <1>1. CASE UNCHANGED <<ext, dial, writer>>
    BY <1>1 DEF WriterInv
  <1>2. ASSUME NEW s \in Slots, WriteExtension(s)
        PROVE  WriterInv'
    <2> DEFINE r == req[s]
    <2>0. r.op \in ExtOps /\ r.row \in Exts /\ dial' = dial
      BY <1>2, Parts DEF ReqsOk, ReqInv, WriteExtension, Serving
    <2>1. CASE UNCHANGED <<ext, writer>>
      BY <1>1, <2>0, <2>1
    <2>2. CASE r.op # "toggle" /\ writer' = [writer EXCEPT ![r.row] = 0]
               /\ \A y \in Exts \ {r.row} : ext'[y] = ext[y]
      BY <1>0, <2>0, <2>2 DEF WriterInv
    <2>3. CASE r.op = "toggle" /\ writer' = writer /\ ext' = [ext EXCEPT ![r.row].on = r.val]
               /\ ext[r.row] # None
      <3>1. /\ ext[r.row] \in ExtRow
            /\ ext'[r.row] = [ext[r.row] EXCEPT !.on = r.val]
            /\ \A y \in Exts \ {r.row} : ext'[y] = ext[y]
        BY <1>0, <2>0, <2>3 DEF ExtTable
      <3>2. ext'[r.row].dnd = ext[r.row].dnd
        BY <3>1 DEF ExtRow
      <3>3. ext'[r.row] # None
        BY <1>2, <2>0, <2>3, RowsStep
      <3> QED
        BY <1>0, <2>0, <2>3, <3>1, <3>2, <3>3 DEF WriterInv
    <2>4. \A e : ext' = [ext EXCEPT ![r.row] = e] => \A y \in Exts \ {r.row} : ext'[y] = ext[y]
      BY <1>0, <2>0 DEF ExtTable
    <2> QED
      <3>1. CASE (r.op = "create") = (ext[r.row] # None)
        BY <1>2, <2>1, <3>1 DEF WriteExtension
      <3>2. CASE (r.op = "create") # (ext[r.row] # None)
        <4>1. CASE r.op = "toggle"
          <5>1. ext' = [ext EXCEPT ![r.row].on = r.val] /\ writer' = writer
            BY <1>2, <3>2, <4>1 DEF WriteExtension
          <5> QED
            BY <2>3, <3>2, <4>1, <5>1
        <4>2. CASE r.op # "toggle"
          <5>1. writer' = [writer EXCEPT ![r.row] = 0]
            BY <1>2, <3>2, <4>2 DEF WriteExtension
          <5>2. \E e : ext' = [ext EXCEPT ![r.row] = e]
            BY <1>2, <3>2 DEF WriteExtension
          <5> QED
            BY <2>2, <2>4, <4>2, <5>1, <5>2
        <4> QED
          BY <4>1, <4>2
      <3> QED
        BY <3>1, <3>2
  <1>3. ASSUME NEW i \in Dials, Features(i)
        PROVE  WriterInv'
    <2> DEFINE d == dial[i]
    <2>0. d \in DialRec /\ DialInv(d, ext)
      BY <1>0
    <2>1. \A j \in Dials \ {i} : dial'[j] = dial[j]
      BY <1>0, <1>3 DEF Features, Feature, FeatureWrite, FeatureRead, FeatureSet, FeatureFails, Tone, GiveUp, Dial
    <2>2. ASSUME UNCHANGED <<ext, writer>>,
                 \/ d.api \notin {"written", "read", "done", "failed"}
                 \/ /\ dial'[i].row = d.row /\ dial'[i].val = d.val
                    /\ dial'[i].api \in {"written", "read", "done", "failed"}
          PROVE  WriterInv'
      BY <1>0, <2>1, <2>2 DEF WriterInv
    <2>3. CASE \E y \in Exts, dnd \in BOOLEAN : Dial(i, y, dnd)
      <3>1. d.api = "none" /\ UNCHANGED <<ext, writer>>
        BY <2>0, <2>3 DEF Dial, DialInv
      <3> QED
        BY <2>2, <3>1
    <2>4. CASE FeatureWrite(i)
      <3>1. /\ d.api = "asked" /\ d.row \in Exts /\ ext[d.row] # None
            /\ ext' = [ext EXCEPT ![d.row].dnd = d.val] /\ writer' = [writer EXCEPT ![d.row] = i]
        BY <2>0, <2>4 DEF FeatureWrite, DialInv
      <3>2. dial'[i].api = "written" /\ dial'[i].row = d.row /\ dial'[i].val = d.val
        BY <1>0, <2>4 DEF FeatureWrite, DialRec
      <3>3. ext[d.row] \in ExtRow
        BY <1>0, <3>1 DEF ExtTable
      <3>4. ext'[d.row].dnd = d.val /\ \A y \in Exts \ {d.row} : ext'[y] = ext[y]
        BY <1>0, <3>1, <3>3 DEF ExtTable, ExtRow
      <3>5. ext'[d.row] # None
        BY <1>3, <3>1, RowsStep
      <3>6. \A y \in Exts : writer[y] # i
        BY <3>1 DEF WriterInv
      <3> QED
        BY <1>0, <2>1, <3>1, <3>2, <3>4, <3>5, <3>6 DEF WriterInv
    <2>5. CASE \/ FeatureRead(i) \/ FeatureSet(i) \/ Tone(i)
               \/ \E thrown \in BOOLEAN : FeatureFails(i, thrown)
      <3>1. UNCHANGED <<ext, writer>>
        BY <2>5 DEF FeatureRead, FeatureSet, FeatureFails, Tone
      <3>2. /\ dial'[i].row = d.row /\ dial'[i].val = d.val
            /\ dial'[i].api = d.api \/ dial'[i].api \in {"read", "done", "failed"}
        <4>1. CASE FeatureRead(i) \/ FeatureSet(i) \/ Tone(i)
          BY <1>0, <4>1 DEF FeatureRead, FeatureSet, Tone, DialRec
        <4>2. ASSUME NEW thrown \in BOOLEAN, FeatureFails(i, thrown)
              PROVE  /\ dial'[i].row = d.row /\ dial'[i].val = d.val
                     /\ dial'[i].api \in {"done", "failed"}
          BY <1>0, <4>2 DEF FeatureFails, DialRec
        <4> QED
          BY <2>5, <4>1, <4>2
      <3> QED
        BY <2>2, <3>1, <3>2
    <2>6. ASSUME NEW reached \in BOOLEAN, GiveUp(i, reached)
          PROVE  WriterInv'
      <3>1. UNCHANGED <<ext, writer>> /\ (d.api # "asked" => reached)
        BY <2>6 DEF GiveUp
      <3>2. /\ dial'[i].row = d.row /\ dial'[i].val = d.val
            /\ dial'[i].api = IF reached THEN d.api ELSE "lost"
        BY <1>0, <2>6 DEF GiveUp, DialRec
      <3> QED
        BY <2>2, <3>1, <3>2
    <2> QED
      BY <1>3, <2>3, <2>4, <2>5, <2>6 DEF Features, Feature
  <1>4. ASSUME NEW s \in Slots, Serves(s), ~WriteExtension(s)
        PROVE  UNCHANGED <<ext, dial, writer>>
    BY <1>4 DEF Serves, Serve, CacheRead, CacheSet, CacheFails, WriteTrunk, SetPassword, SendPassword, Kept,
                Serving, rows, history
  <1> QED
    BY <1>1, <1>2, <1>3, <1>4, Kinds, AdminFrame, FetchFrame, AnswerFrame DEF vars, rows, history

-----------------------------------------------------------------------------
(* The invariant. *)

LEMMA InitTypes == Init => TypeInv
  <1> SUFFICES ASSUME Init PROVE TypeInv
    OBVIOUS
  <1>1. page = subject /\ subject \in Keys
    BY DEF Init
  <1>2. RowsOk
    <2>1. trunk \in TrunkTable
      BY DEF Init, TrunkTable
    <2>2. PICK on \in Starts :
            /\ ext = [x \in Exts |-> IF x \in on THEN [dnd |-> FALSE, on |-> TRUE] ELSE None]
            /\ entry = [x \in Exts |-> IF x \in on THEN FALSE ELSE None]
      BY DEF Init
    <2>3. ext \in ExtTable /\ entry \in [Exts -> BoolOrNone]
      BY <2>2 DEF ExtTable, ExtRow, BoolOrNone
    <2> QED
      BY <2>1, <2>3 DEF RowsOk
  <1>3. ListsOk
    <2>1. ASSUME NEW k \in Keys
          PROVE  /\ Unasked \in Query(Data(k))
                 /\ Ask(Unasked) \in Query(Data(k)) /\ Ask(Unasked).fetch = "sent"
      <3>1. Unasked \in Query(Data(k))
        BY NoneIsData, Counts DEF Unasked, Query
      <3> QED
        BY <3>1, NoneIsData, Asking
    <2>2. \A k \in Keys : list[k] = IF page = k THEN Ask(Unasked) ELSE Unasked
      BY DEF Init, Mounted
    <2>3. Unasked.fetch = "idle" /\ ~Unasked.behind
      BY DEF Unasked
    <2>4. \A k \in Keys : list[k] \in Query(Data(k)) /\ ListInv(list[k], page = k, subject = k)
      BY <1>1, <2>1, <2>2, <2>3 DEF ListInv
    <2>5. DOMAIN list = Keys
      BY DEF Init
    <2> QED
      BY <1>1, <2>4, <2>5 DEF ListsOk
  <1>4. ReqsOk
    <2>1. \A s \in Slots : req[s] = NoReq
      BY DEF Init
    <2>2. NoReq \in Req /\ ReqInv(NoReq, ext, trunk, subject)
      BY DEF NoReq, Req, Op, ReqInv, ExtOps
    <2>3. req = [s \in Slots |-> NoReq]
      BY DEF Init
    <2> QED
      BY <2>1, <2>2, <2>3 DEF ReqsOk
  <1>5. DialsOk
    BY DEF Init, DialsOk, DialRec, DialInv
  <1>6. FormOk /\ MakerOk
    BY DEF Init, FormOk, Form, FormInv, NoForm, MakerOk, Maker, MakerInv, NoMaker
  <1> QED
    BY <1>2, <1>3, <1>4, <1>5, <1>6, Parts

LEMMA InitIInv == Init => IInv
  <1> SUFFICES ASSUME Init PROVE IInv
    OBVIOUS
  <1>1. TypeInv
    BY InitTypes
  <1>2. ASSUME NEW k \in Keys
        PROVE  Fresh(k)
    <2>1. list[k] = Ask(Unasked) \/ list[k] = Unasked
      BY DEF Init
    <2>2. Unasked.data = None /\ Unasked.fetch = "idle"
      BY DEF Unasked
    <2>3. Ask(Unasked).fetch = "sent"
      BY DEF Ask, Unasked
    <2> QED
      BY <2>1, <2>2, <2>3 DEF Fresh
  <1>3. TrunkInv
    BY NoneIsNoRow DEF Init, TrunkInv, TrunkRow
  <1>4. ASSUME NEW x \in Exts
        PROVE  EntryInv(x)
    <2>1. /\ \A s \in Slots : req[s] = NoReq
          /\ \A i \in Dials : dial[i].api = "none"
      BY DEF Init
    <2>2. /\ \A s \in Slots : ~HandlesReq(req[s], x)
          /\ \A i \in Dials : ~HandlesDial(dial[i], x)
      BY <2>1 DEF HandlesReq, HandlesDial, NoReq, ExtOps
    <2>3. ext[x] # None => entry[x] = Entry(ext[x])
      <3>1. PICK on \in Starts :
              /\ ext = [y \in Exts |-> IF y \in on THEN [dnd |-> FALSE, on |-> TRUE] ELSE None]
              /\ entry = [y \in Exts |-> IF y \in on THEN FALSE ELSE None]
        BY DEF Init
      <3>2. CASE x \in on
        <4>1. ext[x] = [dnd |-> FALSE, on |-> TRUE] /\ entry[x] = FALSE
          BY <3>1, <3>2
        <4>2. Entry([dnd |-> FALSE, on |-> TRUE]) = FALSE
          BY DEF Entry
        <4>3. Entry(ext[x]) = FALSE
          BY <4>1, <4>2, Zenon
        <4> QED
          BY <4>1, <4>3, Zenon
      <3>3. CASE x \notin on
        <4>1. ext[x] = None
          BY <3>1, <3>3
        <4> QED
          BY <4>1
      <3> QED
        BY <3>2, <3>3
    <2> QED
      BY <2>2, <2>3 DEF EntryInv
  <1>5. WriterInv
    <2>1. \A x \in Exts : writer[x] = 0
      BY DEF Init
    <2>2. writer \in [Exts -> 0..MaxDials]
      BY Counts DEF Init
    <2>3. 0 \notin Dials
      BY Counts DEF Dials
    <2> QED
      BY <2>1, <2>2, <2>3 DEF WriterInv
  <1> QED
    BY <1>1, <1>2, <1>3, <1>4, <1>5 DEF IInv

LEMMA StepIInv == IInv /\ [Next]_vars => IInv'
  <1> SUFFICES ASSUME IInv, [Next]_vars PROVE IInv'
    OBVIOUS
  <1>1. TypeInv /\ TrunkInv /\ WriterInv
    BY DEF IInv
  <1>2. \A k \in Keys : Fresh(k)'
    BY <1>1, FreshStep DEF IInv
  <1>3. \A x \in Exts : EntryInv(x)'
    BY <1>1, EntryStep DEF IInv
  <1> QED
    BY <1>1, <1>2, <1>3, TypeStep, TrunkStep, WriterStep DEF IInv

LEMMA Inductive == Spec => []IInv
  BY InitIInv, StepIInv, PTL DEF Spec

\* A fault is one more fault.
LEMMA FaultsCount == Spec => [](faults \in Nat)
  <1>1. Init => faults \in Nat
    BY DEF Init
  <1>2. faults \in Nat /\ [Next]_vars => (faults \in Nat)'
    <2> SUFFICES ASSUME faults \in Nat, [Next]_vars PROVE faults' \in Nat
      OBVIOUS
    <2>1. Fault => faults' \in Nat
      BY DEF Fault
    <2>2. ASSUME NEW k \in Keys, Fetches(k) PROVE faults' \in Nat
      BY <2>1, <2>2 DEF Fetches, Refetch, Fetch, FetchRead, FetchArrives, FetchFails
    <2>3. ASSUME NEW s \in Slots, Answers(s) PROVE faults' \in Nat
      BY <2>1, <2>3 DEF Answers, Succeed, Refused, Lost
    <2>4. ASSUME NEW i \in Dials, Features(i) PROVE faults' \in Nat
      BY <2>1, <2>4 DEF Features, Feature, FeatureWrite, FeatureRead, FeatureSet, FeatureFails, Tone, GiveUp, Dial
    <2>5. ASSUME NEW s \in Slots, Serves(s) PROVE faults' \in Nat
      BY <2>1, <2>5 DEF Serves, Serve, WriteExtension, CacheRead, CacheSet, CacheFails, WriteTrunk,
                        SetPassword, SendPassword, Serving
    <2> QED
      BY <2>2, <2>3, <2>4, <2>5, Kinds, AdminFrame DEF vars
  <1> QED
    BY <1>1, <1>2, PTL DEF Spec

-----------------------------------------------------------------------------
(* The theorems. *)

\* Types, and that a busy button stands for a request of its own dialog that is in
\* flight, whatever dialogs are closed and pages left meanwhile.
THEOREM TypeCorrect == Spec => []TypeOK
  <1>1. IInv => TypeOK
    BY DEF IInv, TypeInv
  <1> QED
    BY <1>1, Inductive, PTL

\* What is on screen and not about to change is what the API would answer now.
LEMMA SettledIsFresh ==
    ASSUME IInv, NEW k \in Keys, Settled(k), ~list[k].error, list[k].data # None
    PROVE  list[k].data = Rows(k)
  <1>1. Mounted(k) /\ list[k].fetch = "idle" /\ k \notin unheard
    BY DEF Settled
  <1>2. \A s \in Slots : ~Touches(req[s], k)
    BY DEF Settled, Touches, NoReq
  <1>3. ~list[k].behind
    BY <1>1 DEF IInv, TypeInv, ListInv, Mounted
  <1> QED
    BY <1>1, <1>2, <1>3 DEF IInv, Fresh

\* The onSuccess handlers: saves, refetches and changes of page in any order and any
\* number leave the page with what the tab has saved, or with an error shown.
THEOREM TabShowsItsChanges == Spec => []ListsAgree
  <1>1. IInv => ListsAgree
    BY SettledIsFresh DEF ListsAgree
  <1> QED
    BY <1>1, Inductive, PTL

\* Resource.tsx:66: a page says that there is nothing only when there is nothing.
THEOREM NoFalseEmptiness == Spec => []EmptyIsTrue
  <1>1. ASSUME IInv, NEW k \in Keys, Settled(k), QueryState(k) = "empty"
        PROVE  NoRows(Rows(k))
    <2>1. ~list[k].error /\ list[k].data # None /\ NoRows(list[k].data)
      BY <1>1 DEF QueryState
    <2> QED
      BY <1>1, <2>1, SettledIsFresh
  <1>2. IInv => EmptyIsTrue
    BY <1>1 DEF EmptyIsTrue
  <1> QED
    BY <1>2, Inductive, PTL

\* trunks.tsx: a trunk that was to have a password gets it, or an error is shown, for
\* every number of saves in flight.
THEOREM TrunksAreWhole == Spec => []NoHalfSavedTrunk
  <1>1. IInv => NoHalfSavedTrunk
    BY DEF IInv, TrunkInv, Owes, NoHalfSavedTrunk
  <1> QED
    BY <1>1, Inductive, PTL

\* Resource.tsx:90: a page that waits for data has asked for it.
THEOREM NoIdleSpinner == Spec => []SpinnerFetches
  <1>1. ASSUME IInv, NEW k \in Keys, Mounted(k), QueryState(k) = "loading"
        PROVE  list[k].fetch \in {"sent", "read"}
    <2>1. ~list[k].error /\ list[k].data = None
      BY <1>1 DEF QueryState
    <2>2. ListsOk /\ ListInv(list[k], page = k, subject = k)
      BY <1>1, Parts DEF IInv, ListsOk
    <2>3. subject = k
      BY <1>1, <2>2 DEF ListsOk, Mounted, Keys
    <2>4. list[k].fetch # "idle"
      BY <2>1, <2>2, <2>3 DEF ListInv
    <2> QED
      BY <2>2, <2>4 DEF ListsOk, Query
  <1>2. IInv => SpinnerFetches
    BY <1>1 DEF SpinnerFetches
  <1> QED
    BY <1>2, Inductive, PTL

\* What may become of a password that the closed dialog has not shown.
LEMMA SecretStep ==
    ASSUME IInv, [Next]_vars, maker.made # None, ~maker.seen, maker'.made = None
    PROVE  page' # page \/ list'["extensions"].error
  <1>0. /\ ListsOk /\ MakerOk /\ maker \in Maker
        /\ page = "extensions" /\ ~maker.open
    BY Parts DEF IInv, MakerOk, MakerInv
  <1>1. maker' # maker
    OBVIOUS
  <1>2. ASSUME NEW k \in Keys, Fetches(k)
        PROVE  list'["extensions"].error
    <2>1. PICK final \in BOOLEAN : FetchFails(k, final)
      BY <1>1, <1>2 DEF Fetches, Refetch, Fetch, FetchRead, FetchArrives, tab
    <2>2. k = "extensions"
      BY <1>0, <2>1, FetchFailsList DEF ListsOk
    <2> QED
      BY <1>0, <1>1, <2>1, <2>2, FetchFailsList
  <1>3. CASE Admin
    <2>1. ~OpenMaker
      BY <1>0 DEF OpenMaker, Maker
    <2>2. ~CloseMaker
      BY <1>0 DEF CloseMaker
    <2>3. ASSUME NEW x \in Exts PROVE ~Create(x)
      BY <1>0 DEF Create
    <2>4. Leave
      BY <1>1, <1>3, <2>1, <2>2, <2>3
      DEF Admin, Return, Toggle, OpenHandling, OpenTrunk, RemoveTrunk, CloseForm, Save, Send, tab
    <2> QED
      BY <1>0, <2>4 DEF Leave
  <1>4. ASSUME NEW s \in Slots, Answers(s)
        PROVE  FALSE
    <2>1. CASE Succeed(s)
      <3>1. maker' = Made(s) /\ req[s].op = "create"
        BY <1>1, <2>1 DEF Succeed
      <3>2. req[s].row \in Exts
        BY <3>1, Parts DEF IInv, ReqsOk, ReqInv, ExtOps
      <3>3. maker'.made = req[s].row
        BY <1>0, <3>1 DEF Made, Maker
      <3> QED
        BY <3>2, <3>3, NonePart
    <2>2. CASE Fail(s)
      BY <1>0, <2>2 DEF Fail, Maker
    <2> QED
      BY <1>4, <2>1, <2>2 DEF Answers, Refused, Lost
  <1> QED
    BY <1>1, <1>2, <1>3, <1>4, Kinds, ServeFrame, FeatureFrame DEF vars, tab

\* A password that arrives while the page is up is kept.
LEMMA SecretArrives ==
    ASSUME IInv, faults \in Nat, [Next]_vars, NEW s \in Slots,
           req[s].op = "create", req[s].at = "done", req'[s] = NoReq, Up, faults' = faults
    PROVE  maker'.made = req[s].row
  <1>0. /\ ReqsOk /\ req \in [Slots -> Req] /\ maker \in Maker
        /\ req[s] # NoReq
    BY Parts DEF IInv, ReqsOk, MakerOk, NoReq
  <1>1. ~Fault
    BY DEF Fault
  <1>2. CASE UNCHANGED req
    BY <1>0, <1>2
  <1>3. CASE Admin
    BY <1>0, <1>3, AdminReqs DEF IInv, NoReq
  <1>4. ASSUME NEW v \in Slots, Serves(v)
        PROVE  FALSE
    <2>1. CASE v = s
      BY <1>4, <2>1 DEF Serves, Serve, WriteExtension, CacheRead, CacheSet, CacheFails, WriteTrunk, SetPassword,
                        SendPassword
    <2>2. CASE v # s
      <3>1. req'[s] = req[s]
        BY <1>0, <1>4, <2>2 DEF Serves, Serve, WriteExtension, CacheRead, CacheSet, CacheFails, WriteTrunk,
                                SetPassword, SendPassword, At
      <3> QED
        BY <1>0, <3>1
    <2> QED
      BY <2>1, <2>2
  <1>5. ASSUME NEW v \in Slots, Answers(v)
        PROVE  maker'.made = req[s].row
    <2>1. v = s
      <3>1. req' = [req EXCEPT ![v] = NoReq]
        BY <1>5 DEF Answers, Succeed, Refused, Lost, Fail
      <3> QED
        BY <1>0, <3>1
    <2>2. Succeed(s)
      BY <1>1, <1>5, <2>1 DEF Answers, Refused, Lost
    <2>3. maker' = Made(s)
      BY <2>2 DEF Succeed
    <2> QED
      BY <1>0, <2>3 DEF Made, Maker
  <1> QED
    BY <1>2, <1>3, <1>4, <1>5, Kinds, FetchFrame, FeatureFrame DEF vars

\* extensions.tsx:53: the password of an extension that was created is on the screen or
\* waits to be, until it has been seen, the page is left or its list fails.
THEOREM PasswordIsShown == Spec => SecretKept
  <1> DEFINE A ==
               /\ maker.made # None /\ ~maker.seen /\ maker'.made = None =>
                     page' # page \/ list'["extensions"].error
               /\ \A s \in Slots :
                    /\ req[s].op = "create" /\ req[s].at = "done" /\ req'[s] = NoReq
                    /\ Up /\ faults' = faults
                    => maker'.made = req[s].row
  <1>1. ASSUME IInv, faults \in Nat, [Next]_vars
        PROVE  A
    BY <1>1, SecretStep, SecretArrives
  <1>2. SecretKept <=> [][A]_vars
    BY DEF SecretKept
  <1> HIDE DEF A
  <1> QED
    BY <1>1, <1>2, Inductive, FaultsCount, PTL DEF Spec

LEMMA ToneStep ==
    ASSUME IInv, [Next]_vars, NEW i \in Dials, dial[i].user = "waits", dial'[i].user = "tone"
    PROVE  dial[i].api = "done"
  <1>0. dial \in [Dials -> DialRec]
    BY Parts DEF IInv, DialsOk
  <1>1. ASSUME NEW j \in Dials, Features(j)
        PROVE  dial[i].api = "done"
    <2>1. CASE Tone(j)
      <3>1. j = i
        BY <1>0, <2>1 DEF Tone
      <3> QED
        BY <2>1, <3>1 DEF Tone
    <2>2. CASE ~Tone(j)
      <3>1. dial'[i].user # "tone"
        <4>1. ASSUME NEW thrown \in BOOLEAN, FeatureFails(j, thrown)
              PROVE  dial'[i].user # "tone"
          <5> PICK api \in {"done", "failed"}, user \in {"sorry", dial[j].user} :
                dial' = [dial EXCEPT ![j].api = api, ![j].got = None, ![j].user = user]
            BY <4>1 DEF FeatureFails
          <5> QED
            BY <1>0 DEF DialRec
        <4>2. ASSUME ~\E thrown \in BOOLEAN : FeatureFails(j, thrown)
              PROVE  dial'[i].user # "tone"
          BY <1>0, <1>1, <2>2, <4>2
          DEF Features, Feature, FeatureWrite, FeatureRead, FeatureSet, GiveUp, Dial, DialRec
        <4> QED
          BY <4>1, <4>2
      <3> QED
        BY <3>1
    <2> QED
      BY <2>1, <2>2
  <1> QED
    BY <1>1, Kinds, AdminFrame, FetchFrame, ServeFrame, AnswerFrame DEF vars

\* fs-feature.ts and feature_code.lua: the tone means that the setting is in the row,
\* and what the next call reads agrees with the row, disabled or not, unless handlers
\* overlap or fail to fill the cache: for every number of requests and feature codes.
THEOREM ToneIsTrue == Spec => ToneMeansInForce
  <1> DEFINE A ==
               \A i \in Dials :
                 LET x == dial[i].row IN
                 dial[i].user = "waits" /\ dial'[i].user = "tone" =>
                   /\ dial[i].api \notin {"asked", "lost", "failed"}
                   /\ writer[x] = i => ext[x].dnd = dial[i].val
                   /\ x \notin unsure /\ ~Handling(x) => entry[x] = Entry(ext[x])
  <1>1. ASSUME IInv, [Next]_vars, NEW i \in Dials,
               dial[i].user = "waits", dial'[i].user = "tone"
        PROVE  LET x == dial[i].row IN
               /\ dial[i].api \notin {"asked", "lost", "failed"}
               /\ writer[x] = i => ext[x].dnd = dial[i].val
               /\ x \notin unsure /\ ~Handling(x) => entry[x] = Entry(ext[x])
    <2>1. dial[i].api = "done"
      BY <1>1, ToneStep
    <2>2. dial[i].row \in Exts /\ ext[dial[i].row] # None
      BY <1>1, <2>1, Parts DEF IInv, DialsOk, DialInv
    <2>3. ASSUME writer[dial[i].row] = i
          PROVE  ext[dial[i].row].dnd = dial[i].val
      BY <1>1, <2>2, <2>3 DEF IInv, WriterInv
    <2>4. ASSUME dial[i].row \notin unsure, ~Handling(dial[i].row)
          PROVE  entry[dial[i].row] = Entry(ext[dial[i].row])
      BY <1>1, <2>2, <2>4 DEF IInv, EntryInv
    <2> QED
      BY <2>1, <2>3, <2>4
  <1>2. IInv /\ [Next]_vars => A
    BY <1>1
  <1>3. ToneMeansInForce <=> [][A]_vars
    BY DEF ToneMeansInForce
  <1> HIDE DEF A
  <1> QED
    BY <1>2, <1>3, Inductive, PTL DEF Spec
=============================================================================
