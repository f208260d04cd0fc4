------------------------- MODULE FaxDeliveryProofs -------------------------
(***************************************************************************)
(* Proofs about FaxDelivery for any number of faxes and of failures.       *)
(***************************************************************************)
EXTENDS FaxDelivery, TLAPS

\* Nothing happens to a fax before its report, and nothing is kept of it
\* before its row.
Before(f) ==
    /\ script[f] \in {"idle", "report"} => hook[f] = "idle"
    /\ hook[f] \in {"idle", "look", "insert"} =>
         row[f] = None /\ mail[f] = "none" /\ "pdf" \notin disk[f]

\* Only a whole fax gets further than its row.
After(f) ==
    hook[f] \in {"convert", "setPath", "mail", "mark"} =>
        success[f] /\ (tenant => row[f] # None)

\* What the spool holds of a fax whose files nobody cleared away.
Kept(f) ==
    f \notin pruned =>
        /\ success[f] => "tif" \in disk[f]
        /\ hook[f] \in {"setPath", "mail", "mark"} => "pdf" \in disk[f]
        /\ row[f] # None /\ row[f].file = "pdf" => "pdf" \in disk[f]

Mailed(f) == mail[f] = "document" \/ (mail[f] = "bare" /\ f \in pruned)

\* What stands behind a delivered fax, and behind one that is about to be.
Sent(f) ==
    hook[f] = "mark" \/ (row[f] # None /\ row[f].status = "delivered") => Mailed(f)

\* A fax that left a PDF or a mail left a row.
Traced(f) == ("pdf" \in disk[f] \/ mail[f] # "none") /\ tenant => row[f] # None

FaxInv(f) == Before(f) /\ After(f) /\ Kept(f) /\ Sent(f) /\ Traced(f)

IInv == TypeOK /\ \A f \in Faxes : FaxInv(f)

LEMMA InitIInv == Init => IInv
  BY FaultBound DEF Init, IInv, TypeOK, FaxInv, Before, After, Kept, Sent, Traced, Step

LEMMA FaultType ==
    ASSUME TypeOK, Fault
    PROVE  faults' \in 0..MaxFaults /\ faults' # 0
  BY FaultBound DEF TypeOK, Fault

-----------------------------------------------------------------------------
(* The script. *)

LEMMA ReceiveStep ==
    ASSUME IInv, NEW f \in Faxes, Receive(f)
    PROVE  IInv'
  <1>1. hook[f] = "idle" /\ row[f] = None /\ mail[f] = "none"
    BY DEF IInv, FaxInv, Before, Receive
  <1>2. TypeOK'
    BY <1>1 DEF IInv, TypeOK, Receive, File
  <1>3. ASSUME NEW g \in Faxes PROVE FaxInv(g)'
    BY <1>1 DEF IInv, TypeOK, FaxInv, Before, After, Kept, Sent, Mailed, Traced, Receive
  <1> QED
    BY <1>2, <1>3 DEF IInv

LEMMA ReportStep ==
    ASSUME IInv, NEW f \in Faxes, Report(f)
    PROVE  IInv'
  <1>1. hook[f] = "idle" /\ row[f] = None /\ mail[f] = "none" /\ "pdf" \notin disk[f]
    BY DEF IInv, FaxInv, Before, Report
  <1>2. TypeOK'
    BY FaultType DEF IInv, TypeOK, Report, Goes, Step
  <1>3. ASSUME NEW g \in Faxes PROVE FaxInv(g)'
    BY <1>1 DEF IInv, TypeOK, FaxInv, Before, After, Kept, Sent, Mailed, Traced, Report, Goes
  <1> QED
    BY <1>2, <1>3 DEF IInv

-----------------------------------------------------------------------------
(* The hook. *)

LEMMA LookStep ==
    ASSUME IInv, NEW f \in Faxes, Look(f)
    PROVE  IInv'
  <1>1. TypeOK'
    BY DEF IInv, TypeOK, Look, Goes, Step
  <1>2. ASSUME NEW g \in Faxes PROVE FaxInv(g)'
    BY DEF IInv, TypeOK, FaxInv, Before, After, Kept, Sent, Mailed, Traced, Look, Goes
  <1> QED
    BY <1>1, <1>2 DEF IInv

LEMMA InsertStep ==
    ASSUME IInv, NEW f \in Faxes, Insert(f)
    PROVE  IInv'
  <1> DEFINE r == [status |-> IF success[f] THEN "received" ELSE "failed", file |-> "tif"]
  <1>1. /\ r \in [status : Status, file : File] /\ r # None
        /\ r.status # "delivered" /\ r.file = "tif"
        /\ (r.status = "failed") = ~success[f]
    BY NoRow DEF IInv, TypeOK, Status, File
  <1>2. \/ row' = [row EXCEPT ![f] = r] /\ tenant
        \/ UNCHANGED row /\ ~tenant
    BY DEF Insert
  <1>3. /\ hook' = [hook EXCEPT ![f] = hook'[f]]
        /\ hook'[f] \in {"convert", "done"}
        /\ hook'[f] = "convert" => tenant /\ success[f]
    BY DEF IInv, TypeOK, Insert, Goes
  <1>4. TypeOK'
    <2>1. row' \in [Faxes -> [status : Status, file : File] \cup {None}]
      BY <1>1, <1>2 DEF IInv, TypeOK
    <2>2. ASSUME NEW g \in Faxes, row'[g] # None
          PROVE  (row'[g].status = "failed") = ~success[g] /\ (row'[g].file = "pdf" => success[g])
      BY <1>1, <1>2, <2>2 DEF IInv, TypeOK
    <2>3. hook' \in [Faxes -> Step]
      BY <1>3 DEF IInv, TypeOK, Step
    <2> QED
      BY <2>1, <2>2, <2>3 DEF IInv, TypeOK, Insert
  <1>5. ASSUME NEW g \in Faxes PROVE FaxInv(g)'
    <2> DEFINE V == <<script, success, disk, mail, tenant, pruned>>
    <2>1. UNCHANGED V /\ hook[f] = "insert"
      BY DEF Insert
    <2>2. CASE g = f
      BY <1>1, <1>2, <1>3, <2>1, <2>2
      DEF IInv, TypeOK, FaxInv, Before, After, Kept, Sent, Mailed, Traced
    <2>3. CASE g # f
      BY <1>2, <1>3, <2>1, <2>3
      DEF IInv, TypeOK, FaxInv, Before, After, Kept, Sent, Mailed, Traced
    <2> QED
      BY <2>2, <2>3
  <1> QED
    BY <1>4, <1>5 DEF IInv

LEMMA ConvertStep ==
    ASSUME IInv, NEW f \in Faxes, ConvertToPdf(f)
    PROVE  IInv'
  <1>1. TypeOK'
    BY FaultType DEF IInv, TypeOK, ConvertToPdf, Goes, Step, File
  <1>2. ASSUME NEW g \in Faxes PROVE FaxInv(g)'
    BY DEF IInv, TypeOK, FaxInv, Before, After, Kept, Sent, Mailed, Traced, ConvertToPdf, Goes, File
  <1> QED
    BY <1>1, <1>2 DEF IInv

\* An UPDATE of a row changes the one column it names.
LEMMA UpdatedFacts ==
    ASSUME IInv, NEW f \in Faxes, NEW r, Updated(f, r),
           row[f] # None => r \in [status : Status, file : File]
    PROVE  /\ row' \in [Faxes -> [status : Status, file : File] \cup {None}]
           /\ (row[f] = None) <=> (row'[f] = None)
           /\ row[f] # None => row'[f] = r
           /\ \A g \in Faxes \ {f} : row'[g] = row[g]
  BY NoRow DEF IInv, TypeOK, Updated, Status, File

LEMMA SetPathStep ==
    ASSUME IInv, NEW f \in Faxes, SetPath(f)
    PROVE  IInv'
  <1> DEFINE r == [row[f] EXCEPT !.file = "pdf"]
  <1>1. row[f] # None => /\ r \in [status : Status, file : File]
                         /\ r.status = row[f].status /\ r.file = "pdf"
    BY DEF IInv, TypeOK, Status, File
  <1>2. Updated(f, r) /\ hook[f] = "setPath"
    BY DEF SetPath
  <1>3. /\ row' \in [Faxes -> [status : Status, file : File] \cup {None}]
        /\ (row[f] = None) <=> (row'[f] = None)
        /\ row[f] # None => row'[f] = r
        /\ \A g \in Faxes \ {f} : row'[g] = row[g]
    BY <1>1, <1>2, UpdatedFacts
  <1>4. success[f]
    BY <1>2 DEF IInv, FaxInv, After
  <1>5. TypeOK'
    <2>1. hook' \in [Faxes -> Step]
      BY DEF IInv, TypeOK, SetPath, Goes, Step
    <2>2. ASSUME NEW g \in Faxes, row'[g] # None
          PROVE  (row'[g].status = "failed") = ~success[g] /\ (row'[g].file = "pdf" => success[g])
      BY <1>1, <1>3, <1>4, <2>2 DEF IInv, TypeOK
    <2> QED
      BY <1>3, <2>1, <2>2 DEF IInv, TypeOK, SetPath
  <1>6. ASSUME NEW g \in Faxes PROVE FaxInv(g)'
    BY <1>1, <1>2, <1>3 DEF IInv, TypeOK, FaxInv, Before, After, Kept, Sent, Mailed, Traced, SetPath, Goes
  <1> QED
    BY <1>5, <1>6 DEF IInv

LEMMA DeliverStep ==
    ASSUME IInv, NEW f \in Faxes, DeliverByEmail(f)
    PROVE  IInv'
  <1>1. TypeOK'
    BY FaultType DEF IInv, TypeOK, DeliverByEmail, Goes, Step
  <1>2. ASSUME NEW g \in Faxes PROVE FaxInv(g)'
    BY DEF IInv, TypeOK, FaxInv, Before, After, Kept, Sent, Mailed, Traced, DeliverByEmail, Goes
  <1> QED
    BY <1>1, <1>2 DEF IInv

LEMMA MarkStep ==
    ASSUME IInv, NEW f \in Faxes, MarkDelivered(f)
    PROVE  IInv'
  <1> DEFINE r == [row[f] EXCEPT !.status = "delivered"]
  <1>1. row[f] # None => /\ r \in [status : Status, file : File]
                         /\ r.status = "delivered" /\ r.file = row[f].file
    BY DEF IInv, TypeOK, Status, File
  <1>2. Updated(f, r) /\ hook[f] = "mark"
    BY DEF MarkDelivered
  <1>3. /\ row' \in [Faxes -> [status : Status, file : File] \cup {None}]
        /\ (row[f] = None) <=> (row'[f] = None)
        /\ row[f] # None => row'[f] = r
        /\ \A g \in Faxes \ {f} : row'[g] = row[g]
    BY <1>1, <1>2, UpdatedFacts
  <1>4. success[f] /\ Mailed(f)
    BY <1>2 DEF IInv, FaxInv, After, Sent
  <1>5. TypeOK'
    <2>1. hook' \in [Faxes -> Step]
      BY DEF IInv, TypeOK, MarkDelivered, Goes, Step
    <2>2. ASSUME NEW g \in Faxes, row'[g] # None
          PROVE  (row'[g].status = "failed") = ~success[g] /\ (row'[g].file = "pdf" => success[g])
      BY <1>1, <1>3, <1>4, <2>2 DEF IInv, TypeOK
    <2> QED
      BY <1>3, <2>1, <2>2 DEF IInv, TypeOK, MarkDelivered
  <1>6. ASSUME NEW g \in Faxes PROVE FaxInv(g)'
    BY <1>1, <1>2, <1>3, <1>4
    DEF IInv, TypeOK, FaxInv, Before, After, Kept, Sent, Mailed, Traced, MarkDelivered, Goes
  <1> QED
    BY <1>5, <1>6 DEF IInv

-----------------------------------------------------------------------------
(* What happens around it. *)

LEMMA QueryFailsStep ==
    ASSUME IInv, NEW f \in Faxes, QueryFails(f)
    PROVE  IInv'
  <1>1. TypeOK'
    BY FaultType DEF IInv, TypeOK, QueryFails, Goes, Step
  <1>2. ASSUME NEW g \in Faxes PROVE FaxInv(g)'
    BY DEF IInv, TypeOK, FaxInv, Before, After, Kept, Sent, Mailed, Traced, QueryFails, Goes
  <1> QED
    BY <1>1, <1>2 DEF IInv

LEMMA RestartStep ==
    ASSUME IInv, Restart
    PROVE  IInv'
  <1>1. TypeOK'
    BY FaultType DEF IInv, TypeOK, Restart, Step
  <1>2. ASSUME NEW g \in Faxes PROVE FaxInv(g)'
    BY DEF IInv, TypeOK, FaxInv, Before, After, Kept, Sent, Mailed, Traced, Restart
  <1> QED
    BY <1>1, <1>2 DEF IInv

LEMMA DeleteTenantStep ==
    ASSUME IInv, DeleteTenant
    PROVE  IInv'
  <1>1. TypeOK'
    BY FaultType DEF IInv, TypeOK, DeleteTenant
  <1>2. ASSUME NEW g \in Faxes PROVE FaxInv(g)'
    BY DEF IInv, TypeOK, FaxInv, Before, After, Kept, Sent, Mailed, Traced, DeleteTenant
  <1> QED
    BY <1>1, <1>2 DEF IInv

LEMMA PruneStep ==
    ASSUME IInv, NEW f \in Faxes, Prune(f)
    PROVE  IInv'
  <1>1. TypeOK'
    BY FaultType DEF IInv, TypeOK, Prune
  <1>2. ASSUME NEW g \in Faxes PROVE FaxInv(g)'
    BY DEF IInv, TypeOK, FaxInv, Before, After, Kept, Sent, Mailed, Traced, Prune
  <1> QED
    BY <1>1, <1>2 DEF IInv

-----------------------------------------------------------------------------
\* Every step keeps the invariant.
LEMMA NextIInv == IInv /\ [Next]_vars => IInv'
  <1> SUFFICES ASSUME IInv, [Next]_vars PROVE IInv'
    OBVIOUS
  <1>1. ASSUME NEW f \in Faxes, Receive(f) PROVE IInv'
    BY <1>1, ReceiveStep
  <1>2. ASSUME NEW f \in Faxes, Report(f) PROVE IInv'
    BY <1>2, ReportStep
  <1>3. ASSUME NEW f \in Faxes, RecordInboundFax(f) PROVE IInv'
    BY <1>3, LookStep, InsertStep, ConvertStep, SetPathStep, DeliverStep, MarkStep
    DEF RecordInboundFax
  <1>4. ASSUME NEW f \in Faxes, QueryFails(f) PROVE IInv'
    BY <1>4, QueryFailsStep
  <1>5. ASSUME NEW f \in Faxes, Prune(f) PROVE IInv'
    BY <1>5, PruneStep
  <1>6. CASE UNCHANGED vars
    BY <1>6 DEF IInv, TypeOK, FaxInv, Before, After, Kept, Sent, Mailed, Traced, vars
  <1> QED
    BY <1>1, <1>2, <1>3, <1>4, <1>5, <1>6, RestartStep, DeleteTenantStep DEF Next

LEMMA Inductive == Spec => []IInv
  BY InitIInv, NextIInv, PTL DEF Spec

-----------------------------------------------------------------------------
(* The course of a fax: a second invariant, on top of the first. *)

\* Nothing is mailed before its time, and a tenant that is gone has no rows.
Once(f) ==
    /\ script[f] = "idle" => ~success[f]
    /\ hook[f] \in {"convert", "setPath", "mail"} => mail[f] = "none"
    /\ ~tenant => row[f] = None

\* As long as nothing failed, the hook gets where it should.
Smooth(f) == faults = 0 =>
    /\ tenant /\ f \notin pruned
    /\ script[f] = "over" => hook[f] # "idle"
    /\ hook[f] \in {"mail", "mark"} => f \in notify
    /\ hook[f] = "done" /\ success[f] /\ f \in notify =>
         row[f] # None /\ row[f].status = "delivered"

Course(f) == Once(f) /\ Smooth(f)

LEMMA InitCourse == Init => \A f \in Faxes : Course(f)
  BY DEF Init, Course, Once, Smooth

\* A step that leaves fax g alone, apart from faults and other faxes.
LEMMA OthersCourse ==
    ASSUME IInv, NEW g \in Faxes, Course(g), faults' = faults \/ Fault,
           script'[g] = script[g], success'[g] = success[g], hook'[g] = hook[g],
           row'[g] = row[g], mail'[g] = mail[g], UNCHANGED <<tenant, notify>>,
           pruned' = pruned \/ Fault
    PROVE  Course(g)'
  BY FaultType DEF IInv, Course, Once, Smooth

LEMMA ScriptCourse ==
    ASSUME IInv, NEW f \in Faxes, Course(f), Receive(f) \/ Report(f)
    PROVE  Course(f)'
  <1>1. hook[f] = "idle" /\ row[f] = None /\ mail[f] = "none"
    BY DEF IInv, FaxInv, Before, Receive, Report
  <1>2. CASE Receive(f)
    BY <1>1, <1>2 DEF IInv, TypeOK, Course, Once, Smooth, Receive
  <1>3. CASE Report(f) /\ Fault
    BY <1>1, <1>3, FaultType DEF IInv, TypeOK, Course, Once, Smooth, Report
  <1>4. CASE Report(f) /\ ~Fault
    BY <1>1, <1>4 DEF IInv, TypeOK, Course, Once, Smooth, Report, Goes
  <1> QED
    BY <1>2, <1>3, <1>4

\* The next step of the hook of f.
LEMMA HookAt ==
    ASSUME TypeOK, NEW f \in Faxes, NEW at, Goes(f, at)
    PROVE  hook'[f] = at /\ \A g \in Faxes \ {f} : hook'[g] = hook[g]
  BY DEF TypeOK, Goes

LEMMA HookCourse ==
    ASSUME IInv, NEW f \in Faxes, Course(f), RecordInboundFax(f)
    PROVE  Course(f)'
  <1>0. Before(f) /\ After(f) /\ TypeOK
    BY DEF IInv, FaxInv
  <1>1. CASE Look(f)
    BY <1>0, <1>1, HookAt DEF Look, Course, Once, Smooth, Before
  <1>2. CASE Insert(f)
    <2>1. /\ hook[f] = "insert" /\ mail'[f] = "none" /\ tenant' = tenant /\ faults' = faults
          /\ script' = script /\ success' = success /\ pruned' = pruned
      BY <1>0, <1>2 DEF Insert, Before
    <2>2. CASE tenant
      <3>1. hook'[f] = IF success[f] THEN "convert" ELSE "done"
        BY <1>0, <1>2, <2>2, HookAt DEF Insert
      <3> QED
        BY <2>1, <2>2, <3>1 DEF Course, Once, Smooth
    <2>3. CASE ~tenant
      <3>1. hook'[f] = "done" /\ row' = row
        BY <1>0, <1>2, <2>3, HookAt DEF Insert
      <3> QED
        BY <2>1, <2>3, <3>1 DEF Course, Once, Smooth
    <2> QED
      BY <2>2, <2>3
  <1>3. CASE ConvertToPdf(f)
    <2>1. /\ hook[f] = "convert" /\ hook'[f] \in {"setPath", "done"}
          /\ UNCHANGED <<script, success, row, mail, tenant, notify, pruned>>
      BY <1>0, <1>3, HookAt DEF ConvertToPdf
    <2>2. faults' = 0 => faults = 0 /\ hook'[f] = "setPath"
      <3>1. faults' = faults \/ faults' # 0
        BY <1>0, <1>3, FaultType DEF ConvertToPdf
      <3>2. faults = 0 => "tif" \in disk[f]
        BY <1>0, <2>1 DEF After, Course, Smooth, IInv, FaxInv, Kept
      <3> QED
        BY <1>0, <1>3, <3>1, <3>2, HookAt, FaultType DEF ConvertToPdf
    <2> QED
      BY <2>1, <2>2 DEF Course, Once, Smooth
  <1>4. CASE SetPath(f)
    <2> DEFINE r == [row[f] EXCEPT !.file = "pdf"]
    <2>1. hook[f] = "setPath" /\ Updated(f, r) /\ UNCHANGED <<script, success, mail, tenant, notify, pruned, faults>>
      BY <1>4 DEF SetPath
    <2>2. hook'[f] = IF f \in notify THEN "mail" ELSE "done"
      BY <1>0, <1>4, HookAt DEF SetPath
    <2>3. row[f] = None => row'[f] = None
      BY <2>1 DEF Updated
    <2> QED
      BY <2>1, <2>2, <2>3 DEF Course, Once, Smooth
  <1>5. CASE DeliverByEmail(f)
    <2>1. /\ hook[f] = "mail" /\ hook'[f] \in {"mark", "done"}
          /\ UNCHANGED <<script, success, row, tenant, notify, pruned>>
      BY <1>0, <1>5, HookAt DEF DeliverByEmail
    <2>2. faults' = 0 => faults = 0 /\ hook'[f] = "mark"
      BY <1>0, <1>5, FaultType, HookAt DEF DeliverByEmail
    <2>3. f \in notify \/ faults # 0
      BY <2>1 DEF Course, Smooth
    <2> QED
      BY <2>1, <2>2, <2>3 DEF Course, Once, Smooth
  <1>6. CASE MarkDelivered(f)
    <2> DEFINE r == [row[f] EXCEPT !.status = "delivered"]
    <2>1. /\ hook[f] = "mark" /\ Updated(f, r) /\ hook'[f] = "done"
          /\ UNCHANGED <<script, success, mail, tenant, notify, pruned, faults>>
      BY <1>0, <1>6, HookAt DEF MarkDelivered
    <2>2. row[f] # None => /\ r \in [status : Status, file : File]
                           /\ r.status = "delivered"
      BY <1>0 DEF TypeOK, Status, File
    <2>3. /\ (row[f] = None) <=> (row'[f] = None)
          /\ row[f] # None => row'[f] = r
      BY <2>1, <2>2, UpdatedFacts
    <2>4. tenant => row[f] # None
      BY <1>0, <2>1 DEF After
    <2> HIDE DEF r
    <2> QED
      BY <2>1, <2>2, <2>3, <2>4 DEF Course, Once, Smooth
  <1> QED
    BY <1>1, <1>2, <1>3, <1>4, <1>5, <1>6 DEF RecordInboundFax

LEMMA AroundCourse ==
    ASSUME IInv, NEW g \in Faxes, Course(g),
           Restart \/ DeleteTenant \/ \E f \in Faxes : QueryFails(f) \/ Prune(f)
    PROVE  Course(g)'
  <1>0. Before(g) /\ Fault /\ TypeOK
    BY DEF IInv, FaxInv, Restart, DeleteTenant, QueryFails, Prune
  <1>1. faults' # 0
    BY <1>0, FaultType
  <1>2. Smooth(g)'
    BY <1>1 DEF Smooth
  <1>3. CASE Restart
    BY <1>0, <1>2, <1>3 DEF TypeOK, Course, Once, Restart
  <1>4. CASE DeleteTenant
    BY <1>0, <1>2, <1>4 DEF TypeOK, Course, Once, DeleteTenant
  <1>5. ASSUME NEW f \in Faxes, QueryFails(f) PROVE Course(g)'
    BY <1>0, <1>2, <1>5 DEF TypeOK, Course, Once, QueryFails, Goes
  <1>6. ASSUME NEW f \in Faxes, Prune(f) PROVE Course(g)'
    BY <1>0, <1>2, <1>6 DEF TypeOK, Course, Once, Prune
  <1> QED
    BY <1>3, <1>4, <1>5, <1>6

\* A step of the script or the hook of f is no step of another fax.
LEMMA StepApart ==
    ASSUME IInv, NEW f \in Faxes, NEW g \in Faxes \ {f}, Course(g),
           Receive(f) \/ Report(f) \/ RecordInboundFax(f)
    PROVE  Course(g)'
  <1>0. TypeOK
    BY DEF IInv
  <1>1. CASE Receive(f)
    BY <1>0, <1>1, OthersCourse DEF TypeOK, Receive
  <1>2. CASE Report(f)
    BY <1>0, <1>2, OthersCourse DEF TypeOK, Report, Goes
  <1>3. CASE Insert(f)
    BY <1>0, <1>3, OthersCourse DEF TypeOK, Insert, Goes
  <1>4. CASE Look(f) \/ ConvertToPdf(f) \/ DeliverByEmail(f)
    BY <1>0, <1>4, OthersCourse DEF TypeOK, Look, ConvertToPdf, DeliverByEmail, Goes
  <1>5. CASE SetPath(f) \/ MarkDelivered(f)
    <2>1. \E r : Updated(f, r)
      BY <1>5 DEF SetPath, MarkDelivered
    <2>2. row'[g] = row[g]
      BY <1>0, <2>1 DEF TypeOK, Updated
    <2> QED
      BY <1>0, <1>5, <2>2, OthersCourse DEF TypeOK, SetPath, MarkDelivered, Goes
  <1> QED
    BY <1>1, <1>2, <1>3, <1>4, <1>5 DEF RecordInboundFax

JInv == IInv /\ \A f \in Faxes : Course(f)

LEMMA NextJInv == JInv /\ [Next]_vars => JInv'
  <1> SUFFICES ASSUME JInv, [Next]_vars PROVE \A g \in Faxes : Course(g)'
    BY NextIInv DEF JInv
  <1> TAKE g \in Faxes
  <1>0. IInv /\ Course(g)
    BY DEF JInv
  <1>1. ASSUME NEW f \in Faxes, Receive(f) \/ Report(f) \/ RecordInboundFax(f) PROVE Course(g)'
    BY <1>0, <1>1, ScriptCourse, HookCourse, StepApart
  <1>2. ASSUME Restart \/ DeleteTenant \/ \E f \in Faxes : QueryFails(f) \/ Prune(f)
        PROVE  Course(g)'
    BY <1>0, <1>2, AroundCourse
  <1>3. CASE UNCHANGED vars
    BY <1>0, <1>3 DEF Course, Once, Smooth, vars
  <1> QED
    BY <1>1, <1>2, <1>3 DEF Next

LEMMA InductiveCourse == Spec => []JInv
  <1>1. Init => JInv
    BY InitIInv, InitCourse DEF JInv
  <1> QED
    BY <1>1, NextJInv, PTL DEF Spec

-----------------------------------------------------------------------------
(* The hook implements FaxOutbox. *)

LEMMA OutboxStutter ==
    ASSUME \A g \in Faxes : Entry(g)' = Entry(g) /\ success'[g] = success[g],
           \A g \in Faxes : mail'[g] # "none" <=> mail[g] # "none", tenant' = tenant
    PROVE  UNCHANGED Outbox!vars
  BY DEF Outbox!vars

LEMMA OutboxInit == Init => Outbox!Init
  BY DEF Init, Outbox!Init, Entry

\* The steps that change nothing that is in the book.
LEMMA QuietSteps ==
    ASSUME JInv, UNCHANGED <<row, success, mail, tenant>>
    PROVE  UNCHANGED Outbox!vars
  BY OutboxStutter DEF Entry

LEMMA ReceiveOutbox ==
    ASSUME JInv, NEW f \in Faxes, Receive(f)
    PROVE  [Outbox!Next]_Outbox!vars
  <1>0. /\ TypeOK /\ row[f] = None /\ mail[f] = "none" /\ ~success[f]
        /\ UNCHANGED <<row, mail, tenant>>
    BY DEF JInv, IInv, FaxInv, Before, Course, Once, Receive
  <1>1. Entry(f) \in {"absent", "closed"}
    BY <1>0 DEF Entry
  <1>2. \A g \in Faxes : Entry(g)' = Entry(g)
    BY <1>0 DEF Entry
  <1>3. CASE success'[f]
    <2>1. {g \in Faxes : success'[g]} = {g \in Faxes : success[g]} \cup {f}
      BY <1>0, <1>3 DEF TypeOK, Receive
    <2>2. Outbox!Arrive(f)
      BY <1>0, <1>1, <1>2, <2>1 DEF Outbox!Arrive
    <2> QED
      BY <2>2 DEF Outbox!Next
  <1>4. CASE ~success'[f]
    <2>1. \A g \in Faxes : success'[g] = success[g]
      BY <1>0, <1>4 DEF TypeOK, Receive
    <2> QED
      BY <1>0, <1>2, <2>1, OutboxStutter
  <1> QED
    BY <1>3, <1>4

\* A new entry of f, and no other.
LEMMA OutboxEnter ==
    ASSUME NEW f \in Faxes, NEW entry, Entry(f)' = entry,
           \A g \in Faxes \ {f} : Entry(g)' = Entry(g)
    PROVE  Outbox!Enter(f, entry)
  BY DEF Outbox!Enter

LEMMA InsertOutbox ==
    ASSUME JInv, NEW f \in Faxes, Insert(f)
    PROVE  [Outbox!Next]_Outbox!vars
  <1>0. TypeOK /\ row[f] = None /\ mail[f] = "none" /\ UNCHANGED <<success, mail, tenant>>
    BY DEF JInv, IInv, FaxInv, Before, Insert
  <1>1. CASE ~tenant
    BY <1>0, <1>1, QuietSteps DEF Insert
  <1>2. CASE tenant
    <2> DEFINE status == IF success[f] THEN "received" ELSE "failed"
               r == [status |-> status, file |-> "tif"]
    <2>1. r \in [status : {"received", "failed", "delivered"}, file : {"tif", "pdf"}]
      OBVIOUS
    <2>2. r # None /\ r.status = status
      BY <2>1, NoRow
    <2>3. row' = [row EXCEPT ![f] = r]
      BY <1>2 DEF Insert
    <2>4. Entry(f)' = status /\ \A g \in Faxes \ {f} : Entry(g)' = Entry(g)
      <3> HIDE DEF r, status
      <3> QED
        BY <1>0, <2>2, <2>3 DEF TypeOK, Entry
    <2>5. Outbox!Enter(f, status)
      <3> HIDE DEF status
      <3> QED
        BY <2>4, OutboxEnter
    <2>6. Entry(f) = "absent"
      BY <1>0, <1>2 DEF Entry
    <2>7. Outbox!Store(f)
      BY <1>0, <1>2, <2>5, <2>6 DEF Outbox!Store
    <2> QED
      BY <2>7 DEF Outbox!Next
  <1> QED
    BY <1>1, <1>2

LEMMA SetPathOutbox ==
    ASSUME JInv, NEW f \in Faxes, SetPath(f)
    PROVE  [Outbox!Next]_Outbox!vars
  <1> DEFINE r == [row[f] EXCEPT !.file = "pdf"]
  <1>0. TypeOK /\ IInv /\ Updated(f, r) /\ UNCHANGED <<success, mail, tenant>>
    BY DEF JInv, IInv, SetPath
  <1>1. row[f] # None => /\ r \in [status : Status, file : File]
                         /\ r.status = row[f].status
    BY <1>0 DEF TypeOK, Status, File
  <1>2. /\ (row[f] = None) <=> (row'[f] = None)
        /\ row[f] # None => row'[f] = r
        /\ \A g \in Faxes \ {f} : row'[g] = row[g]
    BY <1>0, <1>1, UpdatedFacts
  <1> HIDE DEF r
  <1>3. \A g \in Faxes : Entry(g)' = Entry(g)
    BY <1>0, <1>1, <1>2 DEF Entry
  <1> QED
    BY <1>0, <1>3, OutboxStutter

LEMMA DeliverOutbox ==
    ASSUME JInv, NEW f \in Faxes, DeliverByEmail(f)
    PROVE  [Outbox!Next]_Outbox!vars
  <1>0. /\ TypeOK /\ FaxInv(f) /\ Course(f) /\ hook[f] = "mail"
        /\ UNCHANGED <<row, success, tenant>>
    BY DEF JInv, IInv, DeliverByEmail
  <1>1. mail[f] = "none" /\ success[f] /\ (tenant => row[f] # None)
    BY <1>0 DEF FaxInv, After, Course, Once
  <1>2. Entry(f) = "received" \/ ~tenant
    <2>1. row[f] # None => row[f].status = "received"
      BY <1>0, <1>1 DEF TypeOK, Status, FaxInv, Sent, Mailed
    <2> QED
      BY <1>1, <2>1 DEF Entry
  <1>3. CASE mail' = mail
    BY <1>0, <1>3, QuietSteps
  <1>4. CASE mail' # mail
    <2>1. {g \in Faxes : mail'[g] # "none"} = {g \in Faxes : mail[g] # "none"} \cup {f}
      BY <1>0, <1>4 DEF DeliverByEmail, TypeOK
    <2>2. \A g \in Faxes : Entry(g)' = Entry(g)
      BY <1>0 DEF Entry
    <2>3. Outbox!Send(f)
      BY <1>0, <1>1, <1>2, <2>1, <2>2 DEF Outbox!Send
    <2> QED
      BY <2>3 DEF Outbox!Next
  <1> QED
    BY <1>3, <1>4

LEMMA MarkOutbox ==
    ASSUME JInv, NEW f \in Faxes, MarkDelivered(f)
    PROVE  [Outbox!Next]_Outbox!vars
  <1> DEFINE r == [row[f] EXCEPT !.status = "delivered"]
  <1>0. /\ TypeOK /\ IInv /\ FaxInv(f) /\ hook[f] = "mark" /\ Updated(f, r)
        /\ UNCHANGED <<success, mail, tenant>>
    BY DEF JInv, IInv, MarkDelivered
  <1>1. row[f] # None => /\ r \in [status : Status, file : File]
                         /\ r.status = "delivered"
    BY <1>0 DEF TypeOK, Status, File
  <1>2. /\ (row[f] = None) <=> (row'[f] = None)
        /\ row[f] # None => row'[f] = r
        /\ \A g \in Faxes \ {f} : row'[g] = row[g]
    BY <1>0, <1>1, UpdatedFacts
  <1> HIDE DEF r
  <1>3. success[f] /\ mail[f] # "none"
    BY <1>0 DEF FaxInv, After, Sent, Mailed
  <1>4. \A g \in Faxes \ {f} : Entry(g)' = Entry(g)
    BY <1>0, <1>2 DEF Entry
  <1>5. CASE row[f] = None \/ row[f].status = "delivered"
    <2>1. Entry(f)' = Entry(f)
      BY <1>0, <1>1, <1>2, <1>5 DEF Entry
    <2> QED
      BY <1>0, <1>4, <2>1, OutboxStutter
  <1>6. CASE row[f] # None /\ row[f].status # "delivered"
    <2>1. row[f].status = "received"
      BY <1>0, <1>3, <1>6 DEF TypeOK, Status
    <2>2. Entry(f) = "received" /\ Entry(f)' = "delivered"
      BY <1>1, <1>2, <1>6, <2>1 DEF Entry
    <2>3. Outbox!Enter(f, "delivered")
      BY <1>4, <2>2, OutboxEnter
    <2>4. Outbox!Deliver(f)
      BY <1>0, <1>3, <2>2, <2>3 DEF Outbox!Deliver
    <2> QED
      BY <2>4 DEF Outbox!Next
  <1> QED
    BY <1>5, <1>6

LEMMA CloseOutbox ==
    ASSUME JInv, DeleteTenant
    PROVE  [Outbox!Next]_Outbox!vars
  <1>1. \A g \in Faxes : Entry(g)' = "closed"
    BY DEF DeleteTenant, Entry
  <1>2. Outbox!Close
    BY <1>1 DEF Outbox!Close, DeleteTenant
  <1> QED
    BY <1>2 DEF Outbox!Next

LEMMA NextOutbox == JInv /\ [Next]_vars => [Outbox!Next]_Outbox!vars
  <1> SUFFICES ASSUME JInv, [Next]_vars PROVE [Outbox!Next]_Outbox!vars
    OBVIOUS
  <1>1. ASSUME NEW f \in Faxes,
               Report(f) \/ Look(f) \/ ConvertToPdf(f) \/ QueryFails(f) \/ Prune(f)
        PROVE  UNCHANGED Outbox!vars
    BY <1>1, QuietSteps DEF Report, Look, ConvertToPdf, QueryFails, Prune
  <1>2. ASSUME Restart \/ UNCHANGED vars PROVE UNCHANGED Outbox!vars
    BY <1>2, QuietSteps DEF Restart, vars
  <1> QED
    BY <1>1, <1>2, ReceiveOutbox, InsertOutbox, SetPathOutbox, DeliverOutbox, MarkOutbox,
       CloseOutbox DEF Next, RecordInboundFax

-----------------------------------------------------------------------------
(* The theorems. *)

\* Every variable keeps to its type, and the row of a fax that failed half way
\* stays one.
THEOREM TypeCorrect == Spec => []TypeOK
  <1>1. IInv => TypeOK
    BY DEF IInv
  <1> QED
    BY <1>1, Inductive, PTL

\* A fax received whole that the portal lists can be downloaded, whatever step
\* of its processing failed.
THEOREM FaxesReadable == Spec => []ListedCanBeRead
  <1>1. IInv => ListedCanBeRead
    <2> SUFFICES ASSUME IInv, NEW f \in Faxes \ pruned, row[f] # None, success[f]
                 PROVE  Download(f) = 200
      BY DEF ListedCanBeRead
    <2>1. row[f].file \in {"tif", "pdf"}
      BY DEF IInv, TypeOK, File
    <2>2. row[f].file \in disk[f]
      BY <2>1 DEF IInv, FaxInv, Kept
    <2> QED
      BY <2>2 DEF Download
  <1> QED
    BY <1>1, Inductive, PTL

\* No fax is converted or mailed that has no row.
THEOREM RowFirst == Spec => []TraceFirst
  <1>1. IInv => TraceFirst
    BY DEF IInv, FaxInv, Traced, TraceFirst
  <1> QED
    BY <1>1, Inductive, PTL

\* A fax shown as delivered was mailed, and with its document unless its files
\* had been cleared away.
THEOREM DeliveredIsTrue == Spec => []DeliveredMeansMailed
  <1>1. IInv => DeliveredMeansMailed
    BY DEF IInv, FaxInv, Sent, Mailed, DeliveredMeansMailed
  <1> QED
    BY <1>1, Inductive, PTL

\* recordInboundFax, for any number of faxes, faults and restarts: an entry
\* before a mail, one mail at most and only of a whole fax, delivered only after
\* it, and no way back.
THEOREM ImplementsOutbox == Spec => OutboxSpec
  <1>1. Spec => Outbox!Init /\ [][Outbox!Next]_Outbox!vars
    BY OutboxInit, NextOutbox, InductiveCourse, PTL DEF Spec
  <1> QED
    BY <1>1 DEF OutboxSpec, Outbox!Spec

\* As long as nothing failed, a hook that is over has delivered its fax, if that
\* was whole and there is somebody to mail it to.
DoneMeansDelivered == \A f \in Faxes :
    faults = 0 /\ hook[f] = "done" /\ success[f] /\ f \in notify =>
        row[f] # None /\ row[f].status = "delivered"

\* services/fax.ts: the hook has no way out that skips the mail or its mark, but
\* the ones a failure takes.
THEOREM DoneIsDelivered == Spec => []DoneMeansDelivered
  <1>1. JInv => DoneMeansDelivered
    BY DEF JInv, Course, Smooth, DoneMeansDelivered
  <1> QED
    BY <1>1, InductiveCourse, PTL

\* How far a fax has come, through its script and then its hook.
Rank(at, step) ==
    IF at = "idle" THEN 0
    ELSE IF at = "report" THEN 1
    ELSE CASE step = "idle" -> 2 [] step = "look" -> 3 [] step = "insert" -> 4
           [] step = "convert" -> 5 [] step = "setPath" -> 6 [] step = "mail" -> 7
           [] step = "mark" -> 8 [] OTHER -> 9

LEMMA RankBound == \A at, step : Rank(at, step) \in 0..9
  BY DEF Rank

\* fax_receive.lua and services/fax.ts: whatever fails or restarts, a fax is
\* only ever carried forward, by its script and then by its hook: there are nine
\* steps at the most, and no step is repeated.
THEOREM FaxesRunForward ==
    Spec => [][\A f \in Faxes :
                 \/ script'[f] = script[f] /\ hook'[f] = hook[f]
                 \/ /\ Rank(script[f], hook[f]) < Rank(script'[f], hook'[f])
                    /\ Rank(script'[f], hook'[f]) <= 9]_vars
  <1> DEFINE A == \A f \in Faxes :
                    \/ script'[f] = script[f] /\ hook'[f] = hook[f]
                    \/ /\ Rank(script[f], hook[f]) < Rank(script'[f], hook'[f])
                       /\ Rank(script'[f], hook'[f]) <= 9
  <1>1. ASSUME IInv, [Next]_vars PROVE [A]_vars
    <2> SUFFICES ASSUME NEW g \in Faxes, ~UNCHANGED vars,
                        ~(script'[g] = script[g] /\ hook'[g] = hook[g])
                 PROVE  /\ Rank(script[g], hook[g]) < Rank(script'[g], hook'[g])
                        /\ Rank(script'[g], hook'[g]) <= 9
      OBVIOUS
    <2>0. TypeOK /\ Before(g)
      BY <1>1 DEF IInv, FaxInv
    <2>1. Rank(script'[g], hook'[g]) <= 9
      BY RankBound
    <2>2. ASSUME NEW f \in Faxes, Receive(f) \/ Report(f)
          PROVE  Rank(script[g], hook[g]) < Rank(script'[g], hook'[g])
      BY <2>0, <2>2 DEF TypeOK, Before, Receive, Report, Goes, Rank
    <2>3. ASSUME hook[g] \in Step, hook'[g] \in Step, script'[g] = script[g],
                 hook[g] # "idle", hook'[g] = "done"
          PROVE  Rank(script[g], hook[g]) < Rank(script'[g], hook'[g])
      <3>1. script[g] = "over"
        BY <2>0, <2>3 DEF TypeOK, Before
      <3>2. hook[g] # "done"
        BY <2>3
      <3> QED
        BY <2>3, <3>1, <3>2 DEF Rank, Step
    <2>4. ASSUME NEW f \in Faxes, RecordInboundFax(f)
          PROVE  Rank(script[g], hook[g]) < Rank(script'[g], hook'[g])
      <3>1. script' = script
        BY <2>4 DEF RecordInboundFax, Look, Insert, ConvertToPdf, SetPath, DeliverByEmail, MarkDelivered
      <3>2. f = g
        BY <2>0, <2>4, <3>1, HookAt
        DEF RecordInboundFax, Look, Insert, ConvertToPdf, SetPath, DeliverByEmail, MarkDelivered
      <3>3. script[g] = "over"
        BY <2>0, <2>4, <3>2 DEF TypeOK, Before, RecordInboundFax, Look, Insert, ConvertToPdf,
           SetPath, DeliverByEmail, MarkDelivered
      <3>4. \/ hook[g] = "look" /\ hook'[g] \in {"insert", "done"}
            \/ hook[g] = "insert" /\ hook'[g] \in {"convert", "done"}
            \/ hook[g] = "convert" /\ hook'[g] \in {"setPath", "done"}
            \/ hook[g] = "setPath" /\ hook'[g] \in {"mail", "done"}
            \/ hook[g] = "mail" /\ hook'[g] \in {"mark", "done"}
            \/ hook[g] = "mark" /\ hook'[g] = "done"
        BY <2>0, <2>4, <3>2, HookAt
        DEF RecordInboundFax, Look, Insert, ConvertToPdf, SetPath, DeliverByEmail, MarkDelivered
      <3> QED
        BY <3>1, <3>3, <3>4 DEF Rank
    <2>5. ASSUME Restart \/ \E f \in Faxes : QueryFails(f)
          PROVE  Rank(script[g], hook[g]) < Rank(script'[g], hook'[g])
      <3>1. script' = script /\ hook'[g] = "done" /\ hook[g] # "idle" /\ hook[g] \in Step
        BY <2>0, <2>5 DEF TypeOK, Restart, QueryFails, Goes
      <3> QED
        BY <2>3, <3>1 DEF Step
    <2>6. ASSUME DeleteTenant \/ \E f \in Faxes : Prune(f) PROVE FALSE
      BY <2>6 DEF DeleteTenant, Prune
    <2> QED
      BY <1>1, <2>1, <2>2, <2>4, <2>5, <2>6 DEF Next
  <1> HIDE DEF A
  <1> QED
    BY <1>1, Inductive, PTL DEF Spec, A
=============================================================================
