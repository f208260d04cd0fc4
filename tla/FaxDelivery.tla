---------------------------- MODULE FaxDelivery ----------------------------
(***************************************************************************)
(* Inbound faxes of one tenant, from the call to the mail.                 *)
(*                                                                         *)
(* resources/lua/fax_receive.lua receives to a TIFF and posts a report     *)
(* once, without looking at the answer.  portal/api/src/routes/fax.ts      *)
(* hands it to recordInboundFax of services/fax.ts, which inserts a row,   *)
(* converts, updates the row, mails, and updates the row again, one await  *)
(* after the other.  Nothing takes up what was left half done.             *)
(***************************************************************************)
EXTENDS Integers

CONSTANTS
    Faxes,      \* incoming calls, by the uuid that names file and row
    None,       \* no row
    MaxFaults   \* bound of a behaviour: failures and restarts

ASSUME FaultBound == MaxFaults \in Nat
ASSUME NoRow == None \notin [status : {"received", "failed", "delivered"}, file : {"tif", "pdf"}]

VARIABLES
    script,     \* what fax_receive.lua does
    success,    \* whether rxfax received the fax whole
    disk,       \* the files of each fax in the spool
    hook,       \* the next step of recordInboundFax
    row,        \* the fax rows: status, and the file named by filePath
    mail,       \* what the MTA was handed for each fax
    tenant,     \* whether the tenant exists
    notify,     \* faxes to be mailed: the tenant has an address, the caller a number
    pruned,     \* faxes whose files were taken from the spool
    faults

vars == <<script, success, disk, hook, row, mail, tenant, notify, pruned, faults>>

Status == {"received", "failed", "delivered"}
File == {"tif", "pdf"}
Step == {"idle", "look", "insert", "convert", "setPath", "mail", "mark", "done"}

Init ==
    /\ script = [f \in Faxes |-> "idle"]
    /\ success = [f \in Faxes |-> FALSE]
    /\ disk = [f \in Faxes |-> {}]
    /\ hook = [f \in Faxes |-> "idle"]
    /\ row = [f \in Faxes |-> None]
    /\ mail = [f \in Faxes |-> "none"]
    /\ tenant = TRUE /\ notify \in SUBSET Faxes
    /\ pruned = {}
    /\ faults = 0

Fault == faults < MaxFaults /\ faults' = faults + 1
Goes(f, at) == hook' = [hook EXCEPT ![f] = at]

-----------------------------------------------------------------------------
(* fax_receive.lua. *)

\* rxfax: a fax received whole is in the file; of one that failed there may be
\* some pages or no file at all.
Receive(f) ==
    /\ script[f] = "idle"
    /\ script' = [script EXCEPT ![f] = "report"]
    /\ \E ok \in BOOLEAN, written \in SUBSET {"tif"} :
         /\ ok => written = {"tif"}
         /\ success' = [success EXCEPT ![f] = ok]
         /\ disk' = [disk EXCEPT ![f] = written]
    /\ UNCHANGED <<hook, row, mail, tenant, notify, pruned, faults>>

\* The post; the script hangs up whether it was answered in five seconds or not.
Report(f) ==
    /\ script[f] = "report"
    /\ script' = [script EXCEPT ![f] = "over"]
    /\ \/ Goes(f, "look") /\ UNCHANGED faults
       \/ Fault /\ UNCHANGED hook                       \* the API is down
    /\ UNCHANGED <<success, disk, row, mail, tenant, notify, pruned>>

-----------------------------------------------------------------------------
(* recordInboundFax. *)

\* Mutant: the document is converted before there is a row.
LookConvert(f) ==
    /\ hook[f] = "look"
    /\ Goes(f, IF ~tenant THEN "done" ELSE IF success[f] THEN "convert" ELSE "insert")
    /\ UNCHANGED <<script, success, disk, row, mail, tenant, notify, pruned, faults>>

\* A domain nobody has leaves no trace but the file.
Look(f) ==
    /\ hook[f] = "look"
    /\ Goes(f, IF tenant THEN "insert" ELSE "done")
    /\ UNCHANGED <<script, success, disk, row, mail, tenant, notify, pruned, faults>>

\* Mutant: a transfer that failed is processed like any other.
InsertAndGoOn(f) ==
    /\ hook[f] = "insert"
    /\ IF tenant
       THEN /\ row' = [row EXCEPT ![f] = [status |-> IF success[f] THEN "received" ELSE "failed",
                                          file |-> "tif"]]
            /\ Goes(f, "convert")
       ELSE Goes(f, "done") /\ UNCHANGED row
    /\ UNCHANGED <<script, success, disk, mail, tenant, notify, pruned, faults>>

\* The insert refers to the tenant, and throws if it is gone by now.
Insert(f) ==
    /\ hook[f] = "insert"
    /\ IF tenant
       THEN /\ row' = [row EXCEPT ![f] = [status |-> IF success[f] THEN "received" ELSE "failed",
                                          file |-> "tif"]]
            /\ Goes(f, IF success[f] THEN "convert" ELSE "done")
       ELSE Goes(f, "done") /\ UNCHANGED row
    /\ UNCHANGED <<script, success, disk, mail, tenant, notify, pruned, faults>>

\* Mutant: the name of the PDF is returned whether tiff2pdf made it or not.
ConvertBlindly(f) ==
    /\ hook[f] = "convert"
    /\ Goes(f, "setPath")
    /\ \/ disk' = [disk EXCEPT ![f] = @ \cup {"pdf"}] /\ UNCHANGED faults
       \/ Fault /\ UNCHANGED disk
    /\ UNCHANGED <<script, success, row, mail, tenant, notify, pruned>>

\* tiff2pdf, which fails without its TIFF and may fail with it: then there is
\* neither a new path nor a mail.
ConvertToPdf(f) ==
    /\ hook[f] = "convert"
    /\ \/ /\ "tif" \in disk[f]
          /\ disk' = [disk EXCEPT ![f] = @ \cup {"pdf"}]
          /\ Goes(f, "setPath") /\ UNCHANGED faults
       \/ /\ "tif" \notin disk[f]
          /\ Goes(f, "done") /\ UNCHANGED <<disk, faults>>
       \/ Fault /\ Goes(f, "done") /\ UNCHANGED disk
    /\ UNCHANGED <<script, success, row, mail, tenant, notify, pruned>>

Updated(f, r) == row' = IF row[f] = None THEN row ELSE [row EXCEPT ![f] = r]

SetPath(f) ==
    /\ hook[f] = "setPath"
    /\ Updated(f, [row[f] EXCEPT !.file = "pdf"])
    /\ Goes(f, IF f \in notify THEN "mail" ELSE "done")
    /\ UNCHANGED <<script, success, disk, mail, tenant, notify, pruned, faults>>

\* Mutant: the fax counts as delivered whatever sendmail said.
DeliverHopefully(f) ==
    /\ hook[f] = "mail"
    /\ Goes(f, "mark")
    /\ \/ mail' = [mail EXCEPT ![f] = "document"] /\ UNCHANGED faults
       \/ Fault /\ UNCHANGED mail
    /\ UNCHANGED <<script, success, disk, row, tenant, notify, pruned>>

\* sendmail takes the message, or is missing or refuses it.  A PDF that cannot
\* be read is left out of the message, which goes out all the same.
DeliverByEmail(f) ==
    /\ hook[f] = "mail"
    /\ \/ /\ mail' = [mail EXCEPT ![f] = IF "pdf" \in disk[f] THEN "document" ELSE "bare"]
          /\ Goes(f, "mark") /\ UNCHANGED faults
       \/ Fault /\ Goes(f, "done") /\ UNCHANGED mail
    /\ UNCHANGED <<script, success, disk, row, tenant, notify, pruned>>

\* Mutant: the answer of sendmail is not written down.
MarkNot(f) ==
    /\ hook[f] = "mark"
    /\ Goes(f, "done")
    /\ UNCHANGED <<script, success, disk, row, mail, tenant, notify, pruned, faults>>

MarkDelivered(f) ==
    /\ hook[f] = "mark"
    /\ Updated(f, [row[f] EXCEPT !.status = "delivered"])
    /\ Goes(f, "done")
    /\ UNCHANGED <<script, success, disk, mail, tenant, notify, pruned, faults>>

-----------------------------------------------------------------------------
(* What happens around it. *)

\* A query of the hook fails; it answers 202.
QueryFails(f) ==
    /\ hook[f] \in {"look", "insert", "setPath", "mark"}
    /\ Fault
    /\ Goes(f, "done")
    /\ UNCHANGED <<script, success, disk, row, mail, tenant, notify, pruned>>

\* The API restarts: the hooks that run are gone.
Restart ==
    /\ Fault
    /\ hook' = [f \in Faxes |-> IF hook[f] = "idle" THEN "idle" ELSE "done"]
    /\ UNCHANGED <<script, success, disk, row, mail, tenant, notify, pruned>>

\* The tenant is deleted, its rows with it; the files stay.
DeleteTenant ==
    /\ tenant /\ Fault
    /\ tenant' = FALSE
    /\ row' = [f \in Faxes |-> None]
    /\ UNCHANGED <<script, success, disk, hook, mail, notify, pruned>>

\* Somebody clears old files from the spool.
Prune(f) ==
    /\ script[f] = "over" /\ f \notin pruned /\ Fault
    /\ pruned' = pruned \cup {f}
    /\ disk' = [disk EXCEPT ![f] = {}]
    /\ UNCHANGED <<script, success, hook, row, mail, tenant, notify>>

RecordInboundFax(f) ==
    \/ Look(f) \/ Insert(f) \/ ConvertToPdf(f) \/ SetPath(f) \/ DeliverByEmail(f) \/ MarkDelivered(f)

Next ==
    \/ \E f \in Faxes : Receive(f) \/ Report(f) \/ RecordInboundFax(f) \/ QueryFails(f) \/ Prune(f)
    \/ Restart \/ DeleteTenant

Spec == Init /\ [][Next]_vars

\* Scripts run on by themselves, and every await of the hook comes to an end.
FairSpec == Spec /\ \A f \in Faxes : WF_vars(Report(f)) /\ WF_vars(RecordInboundFax(f))

\* GET /:id/download: what the portal answers for a fax it lists.
Download(f) ==
    IF row[f] = None THEN 404 ELSE IF row[f].file \notin disk[f] THEN 410 ELSE 200

-----------------------------------------------------------------------------
(* Properties. *)

\* The variables hold values of their types.  A row of a fax that failed half
\* way stays one: it is never converted, mailed or marked delivered.
TypeOK ==
    /\ script \in [Faxes -> {"idle", "report", "over"}]
    /\ success \in [Faxes -> BOOLEAN]
    /\ disk \in [Faxes -> SUBSET File]
    /\ hook \in [Faxes -> Step]
    /\ row \in [Faxes -> [status : Status, file : File] \cup {None}]
    /\ \A f \in Faxes : row[f] # None =>
         (row[f].status = "failed") = ~success[f] /\ (row[f].file = "pdf" => success[f])
    /\ mail \in [Faxes -> {"none", "document", "bare"}]
    /\ tenant \in BOOLEAN /\ notify \subseteq Faxes
    /\ pruned \subseteq Faxes
    /\ faults \in 0..MaxFaults

\* services/fax.ts:29: "a failed conversion must not lose the fax".  A fax that
\* was received whole and is in the portal's list can be downloaded, unless its
\* files were pruned, whatever step of its processing failed.
ListedCanBeRead == \A f \in Faxes \ pruned :
    row[f] # None /\ success[f] => Download(f) = 200

\* services/fax.ts:129: the row is written "FIRST, before conversion or
\* delivery".  No fax is converted or mailed that the portal does not list, as
\* long as the tenant exists.
TraceFirst == \A f \in Faxes :
    ("pdf" \in disk[f] \/ mail[f] # "none") /\ tenant => row[f] # None

\* The book as FaxOutbox keeps it.  A tenant that is gone has no entries left.
Entry(f) ==
    IF row[f] # None THEN row[f].status ELSE IF tenant THEN "absent" ELSE "closed"

Outbox == INSTANCE FaxOutbox WITH
    book <- [f \in Faxes |-> Entry(f)],
    whole <- {f \in Faxes : success[f]},
    sent <- {f \in Faxes : mail[f] # "none"},
    open <- tenant

\* services/fax.ts:129 and 179: nothing is sent of a fax that the portal does
\* not list or that came in by halves, or twice of any fax; a fax that is listed
\* stays, and never goes back from delivered.  The hook implements FaxOutbox.
OutboxSpec == Outbox!Spec

\* services/fax.ts:4-5 and 179: a fax is only shown as delivered once an MTA has
\* accepted a mail about it, and with the document: a PDF that could not be
\* attached, without which the mail goes out all the same, had been pruned.
DeliveredMeansMailed == \A f \in Faxes :
    row[f] # None /\ row[f].status = "delivered" =>
        mail[f] = "document" \/ (mail[f] = "bare" /\ f \in pruned)

\* A fax that was received whole and can be mailed is shown as delivered in the
\* end, unless something failed.
DeliveredUnlessFault == \A f \in Faxes :
    (success[f] /\ f \in notify) ~> (faults > 0 \/ (row[f] # None /\ row[f].status = "delivered"))
=============================================================================
