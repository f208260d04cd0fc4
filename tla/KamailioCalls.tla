--------------------------- MODULE KamailioCalls ---------------------------
(***************************************************************************)
(* The SIP edge: the Kamailio configuration that                           *)
(* steps/34-kamailio-config.sh writes.                                     *)
(*                                                                         *)
(* A call passes the edge twice: from the endpoint to FreeSWITCH (ingress, *)
(* leg A) and from FreeSWITCH to a carrier (egress, leg B).  The ingress   *)
(* pass opens a dialog; the dialog's events keep a counter per account in  *)
(* the shared table `concurrent`, and route[FRAUD] refuses a call whose    *)
(* counter is at the ceiling.  Several worker processes run the routes.    *)
(* They lock the table for one read or one write, never for both, so the   *)
(* counter updates of two dialogs can interleave.                          *)
(*                                                                         *)
(* Requests that fail authentication change nothing and are left out, as   *)
(* are registrations.  FreeSWITCH, the endpoints, the carriers and         *)
(* rtpengine are what this configuration sees of them.                     *)
(***************************************************************************)
EXTENDS Integers, FiniteSets

CONSTANTS
    Calls,      \* calls of a behaviour
    Accounts,   \* who places them: an extension of one tenant, or a trunk's caller
    Numbers,    \* user parts of SIP addresses, the keys of the counters
    Number,     \* the user part of each account: tenants may number alike
    Kinds,      \* what each call of a behaviour may dial
    Gateways,   \* how many carriers drouting lists for a destination
    Workers,    \* Kamailio's worker processes
    Ceiling,    \* MAX_CONCURRENT_CALLS
    MaxFaults   \* bound of a behaviour: restarts and bans

ASSUME CallsFinite == IsFiniteSet(Calls)
ASSUME SomeAccount == Accounts # {}
ASSUME NumberTotal == Number \in [Accounts -> Numbers]
ASSUME CeilingPositive == Ceiling \in Nat \ {0} /\ Gateways \in Nat /\ MaxFaults \in Nat

FS == "freeswitch"
ASSUME FSApart == FS \notin Accounts

VARIABLES
    call,     \* each call as the edge sees it
    count,    \* the table `concurrent`; 0 also stands for a missing entry
    hand,     \* the counter update each worker is in the middle of
    banned,   \* the table `ipban`: sources whose requests are dropped
    raced,    \* history: two updates of this counter overlapped
    faults

vars == <<call, count, hand, banned, raced, faults>>

\* What is dialled: an extension or a feature, for which there is no leg B, an outside
\* number, one with a prefix blocked for toll fraud, an emergency number.
Kind == {"inside", "outside", "risky", "emergency"}
ASSUME KindsKnown == Kinds \in [Calls -> SUBSET Kind]

\* The life of leg A, and of leg B.
StageA == {"new", "early", "up", "capped", "forbidden", "over"}
StageB == {"none", "trying", "up", "refused", "failed", "over"}

\* tracked: this Kamailio process still holds leg A's transaction or dialog.
\* media: the rtpengine sessions the call holds, one per leg.
\* gone: a side has hung up and nobody heard.
\* onfail: the failure route armed for leg B; "none" once the transaction is lost.
NotDialled ==
    [a |-> "new", b |-> "none", acct |-> CHOOSE x \in Accounts : TRUE, kind |-> "inside",
     tracked |-> FALSE, media |-> {}, gone |-> FALSE, onfail |-> "none", tried |-> 0]

\* The counter a dialog is kept in: $au or $fU, in either case without the domain.
KeyOf(c) == Number[call[c].acct]

\* The confirmed dialogs of a counter.
Up(k) == {c \in Calls : call[c].tracked /\ call[c].a = "up" /\ KeyOf(c) = k}

IdleHand == [stage |-> "idle", key |-> CHOOSE k \in Numbers : TRUE, val |-> 0]
On(w, k) == hand[w].stage # "idle" /\ hand[w].key = k

SpendFault ==
    /\ faults < MaxFaults
    /\ faults' = faults + 1

Init ==
    /\ call = [c \in Calls |-> NotDialled]
    /\ count = [k \in Numbers |-> 0]
    /\ hand = [w \in Workers |-> IdleHand]
    /\ banned = {}
    /\ raced = [k \in Numbers |-> FALSE]
    /\ faults = 0

-----------------------------------------------------------------------------
(* The counter. *)

\* A worker starts the event route of a dialog.
Take(w, k, event) ==
    /\ hand[w].stage = "idle"
    /\ hand' = [hand EXCEPT ![w] = [stage |-> event, key |-> k, val |-> 0]]
    /\ raced' = [raced EXCEPT ![k] = @ \/ \E v \in Workers \ {w} : On(v, k)]

\* event_route[dialog:start], once the call is answered.
DialogStart(w, k) == Take(w, k, "start")

\* Mutant: no event_route[dialog:end].
DialogEndUnheard(w, k) == UNCHANGED <<hand, raced>>

\* event_route[dialog:end], once the dialog has ended.
DialogEnd(w, k) == Take(w, k, "end")

\* event_route[dialog:failed], once a call has ended unanswered.
DialogFailed(w, k) == Take(w, k, "end")

\* Mutant: the egress pass counts the call once more.
SeenTwice(h, n) ==
    IF h.stage = "start" THEN [h EXCEPT !.stage = "put", !.val = n + 2]
    ELSE IF h.stage = "dec" THEN [h EXCEPT !.stage = "put", !.val = n - 1]
    ELSE IF n > 0 THEN [h EXCEPT !.stage = "dec"]
    ELSE IdleHand

\* One read of the counter: to raise it a worker reads it once, to lower it
\* once to see that it is positive and once more for its value.
Seen(h, n) ==
    IF h.stage = "start" THEN [h EXCEPT !.stage = "put", !.val = n + 1]
    ELSE IF h.stage = "dec" THEN [h EXCEPT !.stage = "put", !.val = n - 1]
    ELSE IF n > 0 THEN [h EXCEPT !.stage = "dec"]
    ELSE IdleHand

Read(w) ==
    /\ hand[w].stage \in {"start", "end", "dec"}
    /\ hand' = [hand EXCEPT ![w] = Seen(@, count[@.key])]
    /\ UNCHANGED <<call, count, banned, raced, faults>>

\* The write.
Put(w) ==
    /\ hand[w].stage = "put"
    /\ count' = [count EXCEPT ![hand[w].key] = hand[w].val]
    /\ hand' = [hand EXCEPT ![w] = IdleHand]
    /\ UNCHANGED <<call, banned, raced, faults>>

\* Mutant: the table has no autoexpire.
NeverExpire(k) == FALSE /\ UNCHANGED vars

\* autoexpire: a day after its last write the entry is dropped.  No dialog outlives
\* six hours, so none that was counted is left by then.
Expire(k) ==
    /\ count[k] # 0
    /\ Up(k) = {} /\ \A w \in Workers : ~On(w, k)
    /\ count' = [count EXCEPT ![k] = 0]
    /\ raced' = [raced EXCEPT ![k] = FALSE]
    /\ UNCHANGED <<call, hand, banned, faults>>

-----------------------------------------------------------------------------
(* Leg A. *)

\* The ceiling of route[FRAUD].
AtCeiling(k) == count[k] >= Ceiling

\* A call that route[FRAUD] answers itself: 486 at the ceiling, else 403 for a
\* destination blocked for toll fraud.
Refuse(c, acct, kind) ==
    /\ AtCeiling(Number[acct]) \/ kind = "risky"
    /\ call' = [call EXCEPT ![c] =
           [NotDialled EXCEPT !.a = IF AtCeiling(Number[acct]) THEN "capped" ELSE "forbidden",
                              !.acct = acct, !.kind = kind]]

\* route[INGRESS] past the checks: dialog, media, relay to FreeSWITCH.
Admit(c, acct, kind) ==
    /\ ~AtCeiling(Number[acct]) /\ kind # "risky"
    /\ call' = [call EXCEPT ![c] =
           [NotDialled EXCEPT !.a = "early", !.acct = acct, !.kind = kind,
                              !.tracked = TRUE, !.media = {"in"}]]

\* An INVITE from an endpoint or a trunk.
Invite(c) ==
    /\ call[c].a = "new"
    /\ \E acct \in Accounts \ banned, kind \in Kinds[c] :
          Refuse(c, acct, kind) \/ Admit(c, acct, kind)
    /\ UNCHANGED <<count, hand, banned, raced, faults>>

\* FreeSWITCH answers leg A.
Answer(w, c) ==
    /\ call[c].a = "early"
    /\ call' = [call EXCEPT ![c].a = "up"]
    /\ IF call[c].tracked THEN DialogStart(w, KeyOf(c)) ELSE UNCHANGED <<hand, raced>>
    /\ UNCHANGED <<count, banned, faults>>

\* Leg A ends before it was answered; what is in freed of its media is deleted.
Fail(w, c, freed) ==
    /\ call[c].a = "early"
    /\ call' = [call EXCEPT ![c].a = "over", ![c].tracked = FALSE, ![c].media = @ \ freed]
    /\ IF call[c].tracked THEN DialogFailed(w, KeyOf(c)) ELSE UNCHANGED <<hand, raced>>
    /\ UNCHANGED <<count, banned, faults>>

\* FreeSWITCH answers with a failure or fr_inv_timer fires: MANAGE_FAILURE.
Reject(w, c) == Fail(w, c, IF call[c].tracked THEN {"in"} ELSE {})

\* The caller gives up: MANAGE_FAILURE exits before it deletes the media session.  A
\* CANCEL whose transaction is lost goes nowhere.
Cancel(w, c) == call[c].acct \notin banned /\ call[c].tracked /\ Fail(w, c, {})

\* A call that was answered ends.
End(w, c, freed) ==
    /\ call[c].a = "up"
    /\ call' = [call EXCEPT ![c].a = "over", ![c].tracked = FALSE, ![c].media = @ \ freed]
    /\ IF call[c].tracked THEN DialogEnd(w, KeyOf(c)) ELSE UNCHANGED <<hand, raced>>
    /\ UNCHANGED <<count, banned, faults>>

\* A BYE from the caller or from FreeSWITCH: WITHINDLG.
Bye(w, c) == ~({call[c].acct, FS} \subseteq banned) /\ End(w, c, {"in"})

\* Mutant: the loss is marked in the call's stage.
LoseByeAsStage(c) ==
    /\ call[c].a = "up" /\ {call[c].acct, FS} \cap banned # {}
    /\ call' = [call EXCEPT ![c].a = "gone"]
    /\ UNCHANGED <<count, hand, banned, raced, faults>>

\* The side that hangs up is banned: its BYE and the retransmissions are dropped,
\* and the dialog stays.
LoseBye(c) ==
    /\ call[c].a = "up" /\ ~call[c].gone
    /\ {call[c].acct, FS} \cap banned # {}
    /\ call' = [call EXCEPT ![c].gone = TRUE]
    /\ UNCHANGED <<count, hand, banned, raced, faults>>

\* The dialog's six hours are over, or no ACK came.
DialogTimeout(w, c) == call[c].tracked /\ End(w, c, {})

-----------------------------------------------------------------------------
(* Leg B. *)

\* route[RELAY] arms a failure route of its own before it relays.
Relay(r) == [r EXCEPT !.b = "trying", !.onfail = "MANAGE_FAILURE"]

\* route[TOTRUNK]: drouting's first carrier; 404 when it lists none.
ToTrunk(r) ==
    IF Gateways = 0 THEN [r EXCEPT !.b = "refused"]
    ELSE Relay([r EXCEPT !.tried = 1, !.onfail = "MANAGE_CARRIER_FAILOVER"])

\* route[NATMANAGE] of leg B.
Offer(r) == [r EXCEPT !.media = @ \cup {"out"}]

\* route[EGRESS].  An emergency call goes straight to TOTRUNK.  Another one passes
\* FRAUD, for whatever number FreeSWITCH put in From, which is the caller's or the
\* route's caller ID, and for the number the route made of what was dialled.
Egress(c) ==
    /\ call[c].a \in {"early", "up"} /\ call[c].b = "none" /\ call[c].kind # "inside"
    /\ FS \notin banned
    /\ \/ /\ call[c].kind = "emergency"
          /\ call' = [call EXCEPT ![c] = ToTrunk(@)]
       \/ /\ call[c].kind # "emergency"
          /\ \E k \in Numbers, blocked \in BOOLEAN : AtCeiling(k) \/ blocked
          /\ call' = [call EXCEPT ![c].b = "refused"]
       \/ /\ call[c].kind # "emergency"
          /\ \E k \in Numbers : ~AtCeiling(k)
          /\ call' = [call EXCEPT ![c] = ToTrunk(Offer(@))]
    /\ UNCHANGED <<count, hand, banned, raced, faults>>

\* The carrier answers.
Connect(c) ==
    /\ call[c].b = "trying"
    /\ call' = [call EXCEPT ![c].b = "up"]
    /\ UNCHANGED <<count, hand, banned, raced, faults>>

\* The failure route armed for leg B, which the carrier refused or did not answer.
Failed(r) ==
    IF r.onfail = "MANAGE_CARRIER_FAILOVER" /\ r.tried < Gateways
    THEN Relay(Offer([r EXCEPT !.tried = @ + 1]))
    ELSE [r EXCEPT !.b = "failed", !.media = IF r.onfail = "none" THEN @ ELSE @ \ {"out"}]

CarrierFails(c) ==
    /\ call[c].b = "trying"
    /\ call' = [call EXCEPT ![c] = Failed(@)]
    /\ UNCHANGED <<count, hand, banned, raced, faults>>

\* FreeSWITCH ends leg B.  A CANCEL leaves its media session, a BYE deletes it; from
\* a banned FreeSWITCH neither arrives.
EndB(c) ==
    /\ call[c].b \in {"trying", "up"}
    /\ call' = [call EXCEPT ![c].b = "over",
           ![c].media = IF call[c].b = "up" /\ FS \notin banned THEN @ \ {"out"} ELSE @]
    /\ UNCHANGED <<count, hand, banned, raced, faults>>

\* Mutant: rtpengine times out answered calls only, so a cancelled one keeps its ports.
MediaTimeoutAnswered(c) ==
    /\ call[c].gone
    /\ call[c].media # {}
    /\ call' = [call EXCEPT ![c].media = {}]
    /\ UNCHANGED <<count, hand, banned, raced, faults>>

\* rtpengine drops the session of a leg whose media has stopped.
MediaTimeout(c) ==
    /\ \/ /\ call[c].a = "over" \/ call[c].gone
          /\ "in" \in call[c].media
          /\ call' = [call EXCEPT ![c].media = @ \ {"in"}]
       \/ /\ call[c].b \in {"refused", "failed", "over"}
          /\ "out" \in call[c].media
          /\ call' = [call EXCEPT ![c].media = @ \ {"out"}]
    /\ UNCHANGED <<count, hand, banned, raced, faults>>

-----------------------------------------------------------------------------
(* Faults. *)

\* pike: a source sends more than its rate, FreeSWITCH not excepted.
Ban(s) ==
    /\ s \notin banned
    /\ SpendFault
    /\ banned' = banned \cup {s}
    /\ UNCHANGED <<call, count, hand, raced>>

\* ipban entries expire after five minutes.
Unban(s) ==
    /\ s \in banned
    /\ banned' = banned \ {s}
    /\ UNCHANGED <<call, count, hand, raced, faults>>

\* Kamailio restarts: the tables and the transactions are in memory and dialogs have
\* db_mode 0.  The calls go on, and in-dialog requests still find their way by their
\* route sets.
Restart ==
    /\ SpendFault
    /\ call' = [c \in Calls |-> [call[c] EXCEPT !.tracked = FALSE, !.onfail = "none"]]
    /\ count' = [k \in Numbers |-> 0]
    /\ hand' = [w \in Workers |-> IdleHand]
    /\ banned' = {}
    /\ raced' = [k \in Numbers |-> FALSE]

Next ==
    \/ \E w \in Workers : Read(w) \/ Put(w)
    \/ \E k \in Numbers : Expire(k)
    \/ \E c \in Calls : \/ Invite(c) \/ LoseBye(c) \/ Egress(c) \/ Connect(c)
                        \/ CarrierFails(c) \/ EndB(c) \/ MediaTimeout(c)
    \/ \E w \in Workers, c \in Calls : \/ Answer(w, c) \/ Reject(w, c) \/ Cancel(w, c)
                                       \/ Bye(w, c) \/ DialogTimeout(w, c)
    \/ \E s \in Accounts \cup {FS} : Ban(s) \/ Unban(s)
    \/ Restart

Spec == Init /\ [][Next]_vars

\* Workers finish what they started and timers fire.  Nobody has to answer, to hang up
\* or to give up; FreeSWITCH hangs up leg B once leg A is over.
Fairness ==
    /\ \A w \in Workers : WF_vars(Read(w)) /\ WF_vars(Put(w))
    /\ \A k \in Numbers : WF_vars(Expire(k))
    /\ \A c \in Calls : /\ WF_vars(\E w \in Workers : Reject(w, c))
                        /\ WF_vars(\E w \in Workers : DialogTimeout(w, c))
                        /\ WF_vars(call[c].a = "over" /\ EndB(c))
                        /\ WF_vars(MediaTimeout(c))

FairSpec == Spec /\ Fairness

-----------------------------------------------------------------------------
(* Properties. *)

CallType ==
    [a : StageA, b : StageB, acct : Accounts, kind : Kind, tracked : BOOLEAN,
     media : SUBSET {"in", "out"}, gone : BOOLEAN,
     onfail : {"none", "MANAGE_FAILURE", "MANAGE_CARRIER_FAILOVER"}, tried : Nat]

HandType ==
    [stage : {"idle", "start", "end", "dec", "put"}, key : Numbers, val : Int]

\* Type invariant of the calls, the counters and the workers.
TypeOK ==
    /\ call \in [Calls -> CallType]
    /\ count \in [Numbers -> Int]
    /\ hand \in [Workers -> HandType]
    /\ banned \subseteq Accounts \cup {FS}
    /\ raced \in [Numbers -> BOOLEAN]
    /\ faults \in Nat

\* No two updates of the counter have overlapped since it was last zeroed, and none
\* is under way.
Quiet(k) == ~raced[k] /\ \A w \in Workers : ~On(w, k)

\* "Or the count drifts upwards": unless two updates of it have overlapped, a counter
\* that no worker is busy with never exceeds the confirmed dialogs of its number,
\* whatever way calls end, through bans, lost BYEs and restarts
\* (event_route[dialog:start], [dialog:end], [dialog:failed]).
NoDriftUp == \A k \in Numbers : Quiet(k) => count[k] <= Cardinality(Up(k))

\* route[FRAUD] answers 486 to a caller only while that many calls of its number are
\* up, unless updates of the counter overlap.
CappedOnlyAtCeiling ==
    [][\A c \in Calls :
          /\ call[c].a = "new" /\ call'[c].a = "capped"
          /\ Quiet(Number[call'[c].acct])
          => Cardinality(Up(Number[call'[c].acct])) >= Ceiling]_vars

\* No lockout lasts: even a counter that overlapping updates or lost BYEs left too
\* high goes below the ceiling again, by the dialog timeout and by autoexpire.
LockoutEnds == \A k \in Numbers : AtCeiling(k) ~> ~AtCeiling(k)

\* "So ports are not leaked forever": a call that is over holds no media session for
\* good, although a CANCEL, a dropped BYE and the dialog timeout leave it behind.
MediaFreed == \A c \in Calls : call[c].a = "over" ~> call[c].media = {}

\* "Emergency calls bypass every restriction": no emergency call is answered by
\* route[FRAUD].
EmergencyNeverCapped ==
    \A c \in Calls : call[c].kind = "emergency" => call[c].a \notin {"capped", "forbidden"}
=============================================================================
