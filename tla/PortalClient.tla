---------------------------- MODULE PortalClient ----------------------------
(***************************************************************************)
(* One browser tab of the portal, the API's handlers it calls, and the     *)
(* handsets that change the same rows by feature codes.                    *)
(*                                                                         *)
(* The tab (portal/web/src) keeps a copy of every list it has shown, fills *)
(* its forms from those copies and saves them whole; a save that succeeds  *)
(* invalidates the list it changed.  Requests overlap: a switch can be     *)
(* clicked again, a dialog closed and opened while its save is in flight,  *)
(* the page left.  Saving a trunk is two requests.  A handset dials *78,   *)
(* and feature_code.lua has the API write (routes/fs-feature.ts).          *)
(*                                                                         *)
(* Of an extension's call handling one setting stands for all.  The pages  *)
(* of trunks and of extensions are modelled; those of routes and call      *)
(* flows are built like the first.                                         *)
(***************************************************************************)
EXTENDS Integers

CONSTANTS
    Exts,       \* extension numbers
    Starts,     \* the sets of extensions there may be at first
    Trunks,     \* ids the API gives to trunks
    Slots,      \* requests the tab can have in flight
    None,       \* no data, no row
    Retries,    \* how often a failed query is tried again
    MaxClicks,  \* bounds of a behaviour: requests by the tab,
    MaxDials,   \* feature codes,
    MaxFaults   \* requests and answers that are lost or come too late, and
                \* handlers that fail to fill the cache

Keys == {"extensions", "trunks"}
Dials == 1..MaxDials

ASSUME StartsPart == Starts \subseteq SUBSET Exts
ASSUME NonePart == None \notin Exts \cup Trunks \cup Slots
ASSUME BoundsNat == {Retries, MaxClicks, MaxDials, MaxFaults} \subseteq Nat

VARIABLES
    ext,    \* the table extension: each row's do not disturb and enabled
    entry,  \* voip:call: of each extension in Redis: its do not disturb, if there is one
    trunk,  \* the table trunk: whether each row's password is set
    list,   \* the tab's query cache
    page,   \* the page, or dialog with a list of its own, that is mounted
    subject, \* the page that the behaviour is about
    form,   \* the dialog over it, filled from a listed row
    maker,  \* the state of CreateExtensionModal
    req,    \* what the tab has in flight
    dial,   \* what the handsets have
    writer, \* history: the dial that wrote a row's setting last; 0: none
    unsure, \* history: rows whose handlers overlapped, or failed to fill the cache
    unheard, \* history: a list lacks a write that the tab was not told of
    excused, \* history: trunks saved without a password, or with an error shown
    clicks, faults

rows == <<ext, entry, trunk>>
tab == <<page, subject, form, maker>>
history == <<writer, unsure, unheard, excused>>
vars == <<rows, list, tab, req, dial, history, clicks, faults>>

ExtRow == [dnd : BOOLEAN, on : BOOLEAN]
TrunkRow == {"bare", "keyed"}
TrunkTable == [Trunks -> TrunkRow \cup {None}]

ASSUME NoneIsNoRow == None \notin ExtRow \cup TrunkRow
ASSUME NoneIsNoList == None \notin TrunkTable \cup [Exts -> BOOLEAN \cup {None}]

\* What cacheExtension makes of a row: a disabled extension has no key.
Entry(row) == IF row.on THEN row.dnd ELSE None

\* What a list has of the rows: of an extension, whether it is enabled.
Rows(k) == IF k = "trunks" THEN trunk
           ELSE [x \in Exts |-> IF ext[x] = None THEN None ELSE ext[x].on]
NoRows(d) == \A x \in DOMAIN d : d[x] = None

\* Each page asks for one list.
Mounted(k) == page = k

\* A behaviour is about one page and what it changes; any other is "elsewhere".

Fault == faults < MaxFaults /\ faults' = faults + 1

-----------------------------------------------------------------------------
(* Queries: what the components rely on in the query library.               *)

\* got: what a fetch has read.  behind: invalidated and not fetched since.
Unasked == [data |-> None, error |-> FALSE, behind |-> FALSE, fetch |-> "idle",
            got |-> None, tries |-> 0]

\* Mutant: networkMode "online", and the browser believes that there is no network.
Park(q) == [q EXCEPT !.error = @ /\ q.data # None, !.fetch = "parked", !.tries = 0]

\* A fetch begins; a query without data is pending again.
Ask(q) == [q EXCEPT !.error = @ /\ q.data # None, !.fetch = "sent", !.got = None, !.tries = 0]

\* Mutant: the list is left to its age.
InvalidateNot(k) == list[k]

\* invalidateQueries: a list on screen is fetched anew, and a fetch that is
\* under way is dropped; another is only marked.
Invalidate(k) == IF Mounted(k) THEN Ask([list[k] EXCEPT !.behind = TRUE])
                 ELSE [list[k] EXCEPT !.behind = TRUE]

\* The window gets the focus again, or the component mounts, and the data is old.
Refetch(k) ==
    /\ Mounted(k) /\ list[k].fetch = "idle"
    /\ list' = [list EXCEPT ![k] = Ask(@)]
    /\ UNCHANGED <<rows, tab, req, dial, history, clicks, faults>>

\* The API reads the rows.
FetchRead(k) ==
    /\ list[k].fetch = "sent"
    /\ list' = [list EXCEPT ![k].fetch = "read", ![k].got = Rows(k)]
    /\ unheard' = unheard \ {k}
    /\ UNCHANGED <<rows, tab, req, dial, writer, unsure, excused, clicks, faults>>

FetchArrives(k) ==
    /\ list[k].fetch = "read"
    /\ list' = [list EXCEPT ![k] = [Unasked EXCEPT !.data = list[k].got]]
    /\ UNCHANGED <<rows, tab, req, dial, history, clicks, faults>>

\* The extensions page shows its error in place of everything else, and its
\* dialogs lose what they held, though not that they were open.
Blanked(d) == IF page = "extensions" THEN [d EXCEPT !.awaits = None] ELSE d

\* retry of main.tsx: an answer of 4xx is final, anything else is tried again,
\* while somebody looks.
FetchFails(k, final) ==
    /\ list[k].fetch \in {"sent", "read"} /\ Fault
    /\ IF final \/ list[k].tries = Retries \/ ~Mounted(k)
       THEN /\ list' = [list EXCEPT ![k].error = TRUE, ![k].fetch = "idle", ![k].got = None,
                                    ![k].tries = 0]
            /\ form' = Blanked(form)
            /\ maker' = Blanked([maker EXCEPT !.made = None, !.seen = FALSE])
       ELSE /\ list' = [list EXCEPT ![k].fetch = "sent", ![k].got = None, ![k].tries = @ + 1]
            /\ UNCHANGED <<form, maker>>
    /\ UNCHANGED <<rows, page, subject, req, dial, history, clicks>>

\* Mutant: emptiness before errors, as it was once computed.
SaysEmptily(k) ==
    LET q == list[k] IN
    IF q.data = None /\ ~q.error THEN "loading"
    ELSE IF q.data = None \/ NoRows(q.data) THEN "empty" ELSE "rows"

\* What a page says of its list: QueryState, and the same order of questions on
\* the extensions page.
QueryState(k) ==
    LET q == list[k] IN
    IF q.error THEN "error"
    ELSE IF q.data = None THEN "loading"
    ELSE IF NoRows(q.data) THEN "empty" ELSE "rows"

-----------------------------------------------------------------------------
(* The tab. *)

NoForm == [kind |-> "none", row |-> None, val |-> FALSE, awaits |-> None]
NoMaker == [open |-> FALSE, made |-> None, seen |-> FALSE, awaits |-> None]
NoReq == [op |-> "idle", row |-> None, id |-> None, val |-> FALSE, at |-> "idle", got |-> None]

Init ==
    /\ \E on \in Starts :
         /\ ext = [x \in Exts |-> IF x \in on THEN [dnd |-> FALSE, on |-> TRUE] ELSE None]
         /\ entry = [x \in Exts |-> IF x \in on THEN FALSE ELSE None]
    /\ trunk = [t \in Trunks |-> None]
    /\ page \in Keys
    /\ subject = page
    /\ list = [k \in Keys |-> IF Mounted(k) THEN Ask(Unasked) ELSE Unasked]
    /\ form = NoForm /\ maker = NoMaker
    /\ req = [s \in Slots |-> NoReq]
    /\ dial = [i \in Dials |-> [row |-> None, val |-> FALSE, user |-> "none", api |-> "none",
                                got |-> None]]
    /\ writer = [x \in Exts |-> 0] /\ unsure = {} /\ unheard = {} /\ excused = {}
    /\ clicks = 0 /\ faults = 0

\* Another page: dialogs go, requests in flight go on.
Leave ==
    /\ page = subject
    /\ page' = "elsewhere" /\ form' = NoForm /\ maker' = NoMaker
    /\ UNCHANGED <<rows, list, subject, req, dial, history, clicks, faults>>

\* And back: what is missing or was invalidated is fetched.
Return ==
    /\ page = "elsewhere" /\ page' = subject
    /\ list' = IF list[subject].fetch = "idle"
                  /\ (list[subject].data = None \/ list[subject].behind)
               THEN [list EXCEPT ![subject] = Ask(@)] ELSE list
    /\ UNCHANGED <<rows, subject, form, maker, req, dial, history, clicks, faults>>

Listed(k) == QueryState(k) = "rows"

\* The dialogs of the page are there to be used.
Up == page = "trunks" \/ (page = "extensions" /\ QueryState(page) \in {"empty", "rows"})
ListedRow(k, x) == Listed(k) /\ list[k].data[x] # None

\* A request of the tab.
Send(op, row, val) ==
    /\ clicks < MaxClicks /\ clicks' = clicks + 1
    /\ \E s \in Slots : req[s] = NoReq
    /\ LET s == CHOOSE v \in Slots : req[v] = NoReq IN
       req' = [req EXCEPT ![s] = [op |-> op, row |-> row, id |-> None, val |-> val, at |-> "sent",
                                  got |-> None]]
    /\ UNCHANGED <<rows, list, dial, history, faults>>
FreeSlot == CHOOSE v \in Slots : req[v] = NoReq

\* The switch shows what is listed, and asks for the opposite.
Toggle(x) ==
    /\ page = "extensions" /\ form = NoForm /\ ~maker.open /\ ListedRow("extensions", x)
    /\ Send("toggle", x, ~list["extensions"].data[x])
    /\ UNCHANGED tab

\* Dialogs, filled from the row as it is listed.  A trunk's password box is empty.
OpenHandling(x, dnd) ==
    /\ page = "extensions" /\ form = NoForm /\ ~maker.open /\ ListedRow("extensions", x)
    /\ form' = [NoForm EXCEPT !.kind = "handling", !.row = x, !.val = dnd]
    /\ UNCHANGED <<rows, list, page, subject, maker, req, dial, history, clicks, faults>>

OpenTrunk(t, password) ==
    /\ page = "trunks" /\ form = NoForm
    /\ t # None => ListedRow("trunks", t)
    /\ form' = [NoForm EXCEPT !.kind = "trunk", !.row = t, !.val = password]
    /\ UNCHANGED <<rows, list, page, subject, maker, req, dial, history, clicks, faults>>

CloseForm ==
    /\ form # NoForm /\ Up
    /\ form' = NoForm
    /\ UNCHANGED <<rows, list, page, subject, maker, req, dial, history, clicks, faults>>

\* The button is busy while the dialog's own save is.
Save ==
    /\ form.kind # "none" /\ form.awaits = None /\ Up
    /\ Send(form.kind, form.row, form.val)
    /\ form' = [form EXCEPT !.awaits = FreeSlot]
    /\ UNCHANGED <<page, subject, maker>>

RemoveTrunk(t) ==
    /\ page = "trunks" /\ form = NoForm /\ ListedRow("trunks", t)
    /\ Send("drop", t, FALSE)
    /\ UNCHANGED tab

\* CreateExtensionModal stays mounted while it is closed.
OpenMaker ==
    /\ page = "extensions" /\ form = NoForm /\ ~maker.open /\ Up
    /\ maker' = [maker EXCEPT !.open = TRUE, !.seen = maker.made # None]
    /\ UNCHANGED <<rows, list, page, subject, form, req, dial, history, clicks, faults>>

\* reset: the fields, what was created, and the mutation.
CloseMaker ==
    /\ maker.open /\ Up
    /\ maker' = NoMaker
    /\ UNCHANGED <<rows, list, page, subject, form, req, dial, history, clicks, faults>>

Create(x) ==
    /\ maker.open /\ maker.made = None /\ maker.awaits = None /\ Up
    /\ Send("create", x, FALSE)
    /\ maker' = [maker EXCEPT !.awaits = FreeSlot]
    /\ UNCHANGED <<page, subject, form>>

-----------------------------------------------------------------------------
(* The API. *)

ExtOps == {"toggle", "handling", "create"}
KeyOf(op) == IF op \in ExtOps THEN "extensions" ELSE "trunks"

\* Handlers that have written the row and not yet its entry in Redis.
Handling(x) ==
    (\E s \in Slots : req[s].op \in ExtOps /\ req[s].row = x /\ req[s].at \in {"written", "read"})
    \/ \E i \in Dials : dial[i].row = x /\ dial[i].api \in {"written", "read"}
Cross(x) == unsure' = IF Handling(x) THEN unsure \cup {x} ELSE unsure \ {x}

At(s, at) == req' = [req EXCEPT ![s].at = at]
Serving == UNCHANGED <<list, tab, dial, unheard, clicks, faults>>
Kept == UNCHANGED <<writer, unsure, excused>>

\* POST /extensions refuses a number that exists; PATCH sets the fields in the body.
WriteExtension(s) ==
    LET r == req[s] IN
    /\ r.op \in ExtOps /\ r.at = "sent"
    /\ IF (r.op = "create") = (ext[r.row] # None)
       THEN At(s, "refused") /\ UNCHANGED <<ext, writer, unsure>>
       ELSE /\ ext' = [ext EXCEPT ![r.row] =
                    CASE r.op = "create" -> [dnd |-> FALSE, on |-> TRUE]
                      [] r.op = "toggle" -> [@ EXCEPT !.on = r.val]
                      [] r.op = "handling" -> [@ EXCEPT !.dnd = r.val]]
            /\ writer' = IF r.op = "toggle" THEN writer ELSE [writer EXCEPT ![r.row] = 0]
            /\ Cross(r.row)
            /\ At(s, "written")
    /\ UNCHANGED <<entry, trunk, excused>> /\ Serving

\* cacheExtension: it reads the row and sets the key, or deletes it.
CacheRead(s) ==
    /\ req[s].at = "written"
    /\ req' = [req EXCEPT ![s].at = "read", ![s].got = Entry(ext[req[s].row])]
    /\ UNCHANGED rows /\ Kept /\ Serving

CacheSet(s) ==
    /\ req[s].at = "read"
    /\ entry' = [entry EXCEPT ![req[s].row] = req[s].got]
    /\ req' = [req EXCEPT ![s].at = "done", ![s].got = None]
    /\ UNCHANGED <<ext, trunk>> /\ Kept /\ Serving

\* Redis fails the command, which safeSet and safeDel pass over, or a read throws,
\* and the request is answered with an error though the row is written.
CacheFails(s, thrown) ==
    /\ req[s].at = "read" \/ (thrown /\ req[s].at = "written")
    /\ Fault
    /\ unsure' = unsure \cup {req[s].row}
    /\ req' = [req EXCEPT ![s].at = IF thrown THEN "failed" ELSE "done", ![s].got = None]
    /\ UNCHANGED <<rows, list, tab, dial, writer, unheard, excused, clicks>>

\* POST, PATCH and DELETE of a trunk, whose password none of them sets.
WriteTrunk(s) ==
    LET r == req[s] IN
    /\ r.op \in {"trunk", "drop"} /\ r.at = "sent"
    /\ IF r.row = None
       THEN \E t \in Trunks :
              /\ trunk[t] = None
              /\ \A v \in Slots : t \notin {req[v].row, req[v].id}
              /\ trunk' = [trunk EXCEPT ![t] = "bare"]
              /\ req' = [req EXCEPT ![s].at = "done", ![s].id = t]
              /\ excused' = IF r.val THEN excused \ {t} ELSE excused \cup {t}
       ELSE IF trunk[r.row] = None
       THEN At(s, "refused") /\ UNCHANGED <<trunk, excused>>
       ELSE /\ trunk' = IF r.op = "drop" THEN [trunk EXCEPT ![r.row] = None] ELSE trunk
            /\ req' = [req EXCEPT ![s].at = "done", ![s].id = r.row]
            /\ UNCHANGED excused
    /\ UNCHANGED <<ext, entry, writer, unsure>> /\ Serving

\* PUT /trunks/:id/password
SetPassword(s) ==
    LET t == req[s].id IN
    /\ req[s].at = "keySent"
    /\ IF trunk[t] = None
       THEN At(s, "refused") /\ UNCHANGED trunk
       ELSE trunk' = [trunk EXCEPT ![t] = "keyed"] /\ At(s, "keyDone")
    /\ UNCHANGED <<ext, entry>> /\ Kept /\ Serving

Serve(s) ==
    \/ WriteExtension(s) \/ CacheRead(s) \/ CacheSet(s)
    \/ WriteTrunk(s) \/ SetPassword(s) \/ \E thrown \in BOOLEAN : CacheFails(s, thrown)

-----------------------------------------------------------------------------
(* Answers to the tab. *)

\* The second request of a trunk's save.
SendPassword(s) ==
    /\ req[s].op = "trunk" /\ req[s].val /\ req[s].at = "done"
    /\ At(s, "keySent")
    /\ UNCHANGED <<rows, list, tab, dial, history, clicks, faults>>

\* Mutant: the dialog does not wait for the password.
WholeEarly(s) == req[s].at \in {"done", "keyDone"}

Whole(s) == req[s].at = "keyDone" \/ (req[s].at = "done" /\ ~(req[s].op = "trunk" /\ req[s].val))

\* onClose of the dialog that was saved is that of any dialog now open like it.
Closes(s) == form.kind = req[s].op /\ (form.kind = "trunk" => (form.row = None) = (req[s].row = None))

\* Mutant: a secret is dropped if the dialog was closed meanwhile.
MadeIfOpen(s) ==
    IF ~maker.open THEN maker
    ELSE [maker EXCEPT !.made = req[s].row, !.seen = TRUE, !.awaits = None]

\* setCreated: what a closed dialog is told it shows when it is opened again.
Made(s) == [maker EXCEPT !.made = req[s].row, !.seen = maker.open,
                         !.awaits = IF @ = s THEN None ELSE @]

\* onSuccess, also when the dialog or the page is no longer there.
Succeed(s) ==
    LET r == req[s]
        k == KeyOf(r.op)
    IN
    /\ Whole(s)
    /\ req' = [req EXCEPT ![s] = NoReq]
    /\ list' = [list EXCEPT ![k] = Invalidate(k)]
    /\ unheard' = IF ~Mounted(k) /\ list[k].fetch = "read" THEN unheard \cup {k} ELSE unheard
    /\ form' = IF Closes(s) THEN NoForm ELSE form
    /\ maker' = IF r.op = "create" /\ Up THEN Made(s) ELSE maker
    /\ UNCHANGED <<rows, page, subject, dial, writer, unsure, excused, clicks, faults>>

\* Mutant: the button of the dialog stays busy.
FailStuck(s) ==
    /\ req' = [req EXCEPT ![s] = NoReq]
    /\ unheard' = IF req[s].at \in {"done", "failed", "keySent", "keyDone"} \/ req[s].id # None
                  THEN unheard \cup {KeyOf(req[s].op)} ELSE unheard
    /\ excused' = IF req[s].op = "trunk" THEN (excused \cup {req[s].id}) \ {None} ELSE excused
    /\ UNCHANGED <<rows, list, tab, dial, writer, unsure, clicks>>

\* The error stays in the dialog; the list is left as it was.
Fail(s) ==
    /\ req' = [req EXCEPT ![s] = NoReq]
    /\ form' = IF form.awaits = s THEN [form EXCEPT !.awaits = None] ELSE form
    /\ maker' = IF maker.awaits = s THEN [maker EXCEPT !.awaits = None] ELSE maker
    /\ unheard' = IF req[s].at \in {"done", "failed", "keySent", "keyDone"} \/ req[s].id # None
                  THEN unheard \cup {KeyOf(req[s].op)} ELSE unheard
    /\ excused' = IF req[s].op = "trunk" THEN (excused \cup {req[s].id}) \ {None} ELSE excused
    /\ UNCHANGED <<rows, list, page, subject, dial, writer, unsure, clicks>>

Refused(s) == req[s].at \in {"refused", "failed"} /\ Fail(s) /\ UNCHANGED faults

\* The request does not arrive, or its answer does not.
Lost(s) == req[s].at \in {"sent", "done", "keySent", "keyDone"} /\ Fault /\ Fail(s)

-----------------------------------------------------------------------------
(* Feature codes. *)

FeatureOnly == UNCHANGED <<trunk, list, tab, req, unheard, excused, clicks>>

\* Users dial feature codes, one after the other, to change what is set.
Dial(i, x, dnd) ==
    /\ subject = "extensions" /\ dial[i].user = "none" /\ ext[x] # None
    /\ ext[x].dnd # dnd
    /\ i > 1 => dial[i - 1].user \in {"tone", "sorry"}
    /\ dial' = [dial EXCEPT ![i] = [row |-> x, val |-> dnd, user |-> "waits", api |-> "asked",
                                    got |-> None]]
    /\ UNCHANGED <<ext, entry, writer, unsure, faults>> /\ FeatureOnly

FeatureWrite(i) ==
    LET d == dial[i] IN
    /\ d.api = "asked"
    /\ ext' = [ext EXCEPT ![d.row].dnd = d.val]
    /\ writer' = [writer EXCEPT ![d.row] = i]
    /\ Cross(d.row)
    /\ dial' = [dial EXCEPT ![i].api = "written"]
    /\ UNCHANGED <<entry, faults>> /\ FeatureOnly

\* Mutant: the API answers, and fills the cache later.
FeatureReadLater(i) ==
    /\ dial[i].api = "written"
    /\ dial' = [dial EXCEPT ![i].api = "done", ![i].got = None]
    /\ UNCHANGED <<ext, entry, writer, unsure, faults>> /\ FeatureOnly

FeatureRead(i) ==
    /\ dial[i].api = "written"
    /\ dial' = [dial EXCEPT ![i].api = "read", ![i].got = Entry(ext[dial[i].row])]
    /\ UNCHANGED <<ext, entry, writer, unsure, faults>> /\ FeatureOnly

FeatureSet(i) ==
    /\ dial[i].api = "read"
    /\ entry' = [entry EXCEPT ![dial[i].row] = dial[i].got]
    /\ dial' = [dial EXCEPT ![i].api = "done", ![i].got = None]
    /\ UNCHANGED <<ext, writer, unsure, faults>> /\ FeatureOnly

\* As above: the handler goes on to say ok, or ends with an error.
FeatureFails(i, thrown) ==
    LET d == dial[i] IN
    /\ d.api = "read" \/ (thrown /\ d.api = "written")
    /\ Fault
    /\ unsure' = unsure \cup {d.row}
    /\ dial' = [dial EXCEPT ![i].api = IF thrown THEN "failed" ELSE "done", ![i].got = None,
                            ![i].user = IF thrown /\ @ = "waits" THEN "sorry" ELSE @]
    /\ UNCHANGED <<ext, entry, writer>> /\ FeatureOnly

\* The script plays the tone if the answer says ok.
Tone(i) ==
    /\ dial[i].user = "waits" /\ dial[i].api = "done"
    /\ dial' = [dial EXCEPT ![i].user = "tone"]
    /\ UNCHANGED <<ext, entry, writer, unsure, faults>> /\ FeatureOnly

\* curl gives up after five seconds; whatever the API is doing goes on, if it was
\* reached.
GiveUp(i, reached) ==
    /\ dial[i].user = "waits" /\ Fault
    /\ dial[i].api # "asked" => reached
    /\ dial' = [dial EXCEPT ![i].user = "sorry", ![i].api = IF reached THEN @ ELSE "lost"]
    /\ UNCHANGED <<ext, entry, writer, unsure>> /\ FeatureOnly

-----------------------------------------------------------------------------
Feature(i) ==
    \/ FeatureWrite(i) \/ FeatureRead(i) \/ FeatureSet(i) \/ Tone(i)
    \/ \E reached \in BOOLEAN : GiveUp(i, reached)
    \/ \E thrown \in BOOLEAN : FeatureFails(i, thrown)

Admin ==
    \/ Leave \/ Return
    \/ \E x \in Exts : \/ Toggle(x) \/ Create(x)
                       \/ \E dnd \in BOOLEAN : OpenHandling(x, dnd)
    \/ \E t \in Trunks \cup {None}, password \in BOOLEAN : OpenTrunk(t, password)
    \/ \E t \in Trunks : RemoveTrunk(t)
    \/ CloseForm \/ Save \/ OpenMaker \/ CloseMaker

Fetch(k) == FetchRead(k) \/ FetchArrives(k)

Next ==
    \/ Admin
    \/ \E k \in Keys : Refetch(k) \/ Fetch(k) \/ \E final \in BOOLEAN : FetchFails(k, final)
    \/ \E s \in Slots : Serve(s) \/ SendPassword(s) \/ Succeed(s) \/ Refused(s) \/ Lost(s)
    \/ \E i \in Dials : Feature(i) \/ \E x \in Exts, dnd \in BOOLEAN : Dial(i, x, dnd)

Spec == Init /\ [][Next]_vars

-----------------------------------------------------------------------------
(* Properties. *)

Query(Data) == [data : Data, error : BOOLEAN, behind : BOOLEAN, fetch : {"idle", "sent", "read"},
                got : Data, tries : 0..Retries]
ExtTable == [Exts -> ExtRow \cup {None}]
Op == {"idle", "toggle", "handling", "create", "trunk", "drop"}

\* The variables hold values of their types; a busy button stands for a request
\* of its own dialog that is in flight.
TypeOK ==
    /\ ext \in ExtTable /\ entry \in [Exts -> BOOLEAN \cup {None}]
    /\ trunk \in TrunkTable
    /\ DOMAIN list = Keys
    /\ list["extensions"] \in Query([Exts -> BOOLEAN \cup {None}] \cup {None})
    /\ list["trunks"] \in Query(TrunkTable \cup {None})
    /\ subject \in Keys /\ page \in {subject, "elsewhere"}
    /\ form \in [kind : {"none", "handling", "trunk"}, row : Exts \cup Trunks \cup {None},
                 val : BOOLEAN, awaits : Slots \cup {None}]
    /\ maker \in [open : BOOLEAN, made : Exts \cup {None}, seen : BOOLEAN,
                  awaits : Slots \cup {None}]
    /\ req \in [Slots -> [op : Op, row : Exts \cup Trunks \cup {None}, id : Trunks \cup {None},
                         val : BOOLEAN, got : BOOLEAN \cup {None},
                         at : {"idle", "sent", "written", "read", "done", "keySent", "keyDone",
                               "refused", "failed"}]]
    /\ dial \in [Dials -> [row : Exts \cup {None}, val : BOOLEAN, got : BOOLEAN \cup {None},
                          user : {"none", "waits", "tone", "sorry"},
                          api : {"none", "asked", "written", "read", "done", "lost", "failed"}]]
    /\ form.awaits # None => req[form.awaits].op = form.kind
    /\ maker.awaits # None => req[maker.awaits].op = "create"

\* Nothing that would change the list is under way, or happened unheard.
Settled(k) ==
    /\ Mounted(k) /\ list[k].fetch = "idle" /\ k \notin unheard
    /\ \A s \in Slots : req[s] # NoReq => KeyOf(req[s].op) # k

\* The onSuccess handlers of trunks.tsx, extensions.tsx and call-flows.tsx: what
\* the tab itself changed is what it shows, whatever order saves, refetches and
\* changes of page come in, unless it was told of an error.
ListsAgree == \A k \in Keys :
    Settled(k) /\ ~list[k].error /\ list[k].data # None => list[k].data = Rows(k)

\* Resource.tsx:66: "Emptiness can only be claimed when the API actually answered":
\* a page says that there is nothing only when there is nothing.
EmptyIsTrue == \A k \in Keys :
    Settled(k) /\ QueryState(k) = "empty" => NoRows(Rows(k))

\* extensions.tsx:53: "The SIP password is shown exactly once": a password that
\* arrives is kept until the dialog has shown it, even if the dialog was closed
\* meanwhile, unless somebody leaves the page or the list fails, which takes the
\* dialog off the screen.
SecretKept == [][
    /\ maker.made # None /\ ~maker.seen /\ maker'.made = None =>
          page' # page \/ list'["extensions"].error
    /\ \A s \in Slots :
         /\ req[s].op = "create" /\ req[s].at = "done" /\ req'[s] = NoReq
         /\ Up /\ faults' = faults
         => maker'.made = req[s].row]_vars

\* trunks.tsx:52-55: two requests, and the second may fail: a trunk that was saved
\* with a password and has none is one whose save ended in an error.
NoHalfSavedTrunk == \A t \in Trunks :
    trunk[t] = "bare" => t \in excused \/ \E s \in Slots : req[s].id = t

\* fs-feature.ts:100-101 and feature_code.lua:93-103: a user who hears the tone has
\* the setting in the row, unless someone changed it since.  What the next call
\* reads agrees with the row then (a disabled extension has nothing there), unless
\* another handler is filling the cache, two filled it at once, or the last of them
\* failed to.
ToneMeansInForce == [][\A i \in Dials :
    LET x == dial[i].row IN
    dial[i].user = "waits" /\ dial'[i].user = "tone" =>
        /\ dial[i].api \notin {"asked", "lost", "failed"}
        /\ writer[x] = i => ext[x].dnd = dial[i].val
        /\ x \notin unsure /\ ~Handling(x) => entry[x] = Entry(ext[x])]_vars

\* Resource.tsx:90: "A paused query is pending and will stay pending - no request is
\* in flight and none is scheduled": a page that shows a spinner has a fetch under way.
SpinnerFetches == \A k \in Keys :
    Mounted(k) /\ QueryState(k) = "loading" => list[k].fetch \in {"sent", "read"}
=============================================================================
