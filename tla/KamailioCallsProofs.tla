------------------------ MODULE KamailioCallsProofs ------------------------
(* What holds of the call counters of KamailioCalls for any number of calls, *)
(* accounts, carriers and workers, and any ceiling.                          *)
EXTENDS KamailioCalls, FiniteSetTheorems, TLAPS

\* What the work of one handler leaves a counter within.
Within(h, n, u) ==
    /\ h.stage = "start" => n + 1 <= u
    /\ h.stage \in {"end", "dec"} => n <= u + 1
    /\ h.stage = "put" => h.val <= u

\* NoDriftUp while updates are under way: as long as none have overlapped, the one
\* that works on the counter is off by at most the dialog it works for.
Tidy(k) ==
    ~raced[k] =>
        /\ \A v, w \in Workers : On(v, k) /\ On(w, k) => v = w
        /\ (\A w \in Workers : ~On(w, k)) => count[k] <= Cardinality(Up(k))
        /\ \A w \in Workers : On(w, k) => Within(hand[w], count[k], Cardinality(Up(k)))

IInv == TypeOK /\ \A k \in Numbers : Tidy(k)

LEMMA IdleHandType == IdleHand \in HandType
<1>1. Numbers # {}
  BY SomeAccount, NumberTotal
<1> QED
  BY <1>1 DEF IdleHand, HandType

LEMMA NotDialledType == NotDialled \in CallType
  BY SomeAccount DEF NotDialled, CallType, StageA, StageB, Kind

LEMMA UpFinite ==
  ASSUME NEW k \in Numbers
  PROVE  IsFiniteSet(Up(k)) /\ Cardinality(Up(k)) \in Nat
<1>1. Up(k) \subseteq Calls
  BY DEF Up
<1> QED
  BY <1>1, CallsFinite, FS_Subset, FS_CardinalityType

\* A step that changes one call to a well-typed one keeps the calls well-typed.
LEMMA OneCallType ==
  ASSUME TypeOK, NEW c \in Calls, NEW r \in CallType, call' = [call EXCEPT ![c] = r]
  PROVE  call' \in [Calls -> CallType]
  BY DEF TypeOK

LEMMA InitIInv == Init => IInv
<1> SUFFICES ASSUME Init PROVE IInv
  OBVIOUS
<1>1. TypeOK
  BY IdleHandType, NotDialledType, CeilingPositive DEF Init, TypeOK
<1>2. ASSUME NEW k \in Numbers PROVE Tidy(k)
  <2>1. \A w \in Workers : ~On(w, k)
    BY DEF Init, On, IdleHand
  <2>2. count[k] = 0
    BY DEF Init
  <2> QED
    BY <2>1, <2>2, UpFinite DEF Tidy
<1> QED
  BY <1>1, <1>2 DEF IInv

-----------------------------------------------------------------------------
(* The counters. *)

\* A step that touches neither counters nor workers, nor which dialogs are up.
LEMMA SameDialogs ==
  ASSUME NEW k \in Numbers, Tidy(k), UNCHANGED <<count, hand, raced>>, Up(k)' = Up(k)
  PROVE  Tidy(k)'
  BY DEF Tidy, On, Within

\* A step in which a worker takes up an event of a dialog on counter n.
LEMMA TakeTidy ==
  ASSUME IInv, NEW k \in Numbers, NEW n \in Numbers, NEW w \in Workers,
         NEW e \in {"start", "end"}, Take(w, n, e), count' = count,
         Cardinality(Up(k)') \in Nat,
         k # n => Up(k)' = Up(k),
         k = n /\ e = "start" => Cardinality(Up(k)') = Cardinality(Up(k)) + 1,
         k = n /\ e = "end" => Cardinality(Up(k)) <= Cardinality(Up(k)') + 1
  PROVE  Tidy(k)'
<1> DEFINE h == [stage |-> e, key |-> n, val |-> 0]
<1> SUFFICES ASSUME ~raced'[k] PROVE Tidy(k)'
  BY DEF Tidy
<1>0. /\ Tidy(k) /\ count[k] \in Int /\ Cardinality(Up(k)) \in Nat
      /\ hand \in [Workers -> HandType] /\ raced \in [Numbers -> BOOLEAN]
  BY UpFinite DEF IInv, TypeOK
<1>1. hand[w].stage = "idle" /\ hand' = [hand EXCEPT ![w] = h]
  BY DEF Take
<1>2. ~raced[k]
  BY <1>0 DEF Take
<1>3. CASE k # n
  <2>1. \A v \in Workers : On(v, k)' <=> On(v, k)
    BY <1>0, <1>1, <1>3 DEF On
  <2>2. \A v \in Workers : On(v, k) => hand'[v] = hand[v]
    BY <1>0, <1>1 DEF On
  <2> QED
    BY <1>0, <1>2, <1>3, <2>1, <2>2 DEF Tidy
<1>4. CASE k = n
  <2>1. \A v \in Workers \ {w} : ~On(v, k)
    BY <1>0, <1>4 DEF Take
  <2>2. ~On(w, k)
    BY <1>1 DEF On
  <2>3. count[k] <= Cardinality(Up(k))
    BY <1>0, <1>2, <2>1, <2>2 DEF Tidy
  <2>4. \A v \in Workers : On(v, k)' <=> v = w
    BY <1>0, <1>1, <1>4, <2>1 DEF On
  <2>5. hand'[w] = h
    BY <1>0, <1>1
  <2>6. Within(h, count[k], Cardinality(Up(k)'))
    BY <1>0, <1>4, <2>3 DEF Within
  <2>7. Within(hand'[w], count'[k], Cardinality(Up(k)'))
    BY <2>5, <2>6
  <2>8. \A v \in Workers : On(v, k)' => Within(hand[v], count[k], Cardinality(Up(k)))'
    BY <2>4, <2>7 DEF Within
  <2> QED
    BY <2>4, <2>8 DEF Tidy
<1> QED
  BY <1>3, <1>4

\* Read and Put work on one counter, and none of the calls.
LEMMA WorkTidy ==
  ASSUME IInv, NEW w \in Workers, Read(w) \/ Put(w), NEW k \in Numbers
  PROVE  Tidy(k)'
<1> SUFFICES ASSUME ~raced'[k] PROVE Tidy(k)'
  BY DEF Tidy
<1>0. /\ Tidy(k) /\ count \in [Numbers -> Int] /\ Cardinality(Up(k)) \in Nat
      /\ hand \in [Workers -> HandType] /\ hand[w] \in HandType
  BY UpFinite DEF IInv, TypeOK
<1>1. call' = call /\ raced' = raced
  BY DEF Read, Put
<1>2. Up(k)' = Up(k) /\ ~raced[k]
  BY <1>1 DEF Up, KeyOf
<1>3. hand[w].stage # "idle" /\ hand[w].key \in Numbers /\ hand[w].val \in Int
  BY <1>0 DEF Read, Put, HandType
<1>4. CASE hand[w].key # k
  <2>1. count'[k] = count[k]
    BY <1>0, <1>4 DEF Read, Put
  <2>2. \A v \in Workers \ {w} : hand'[v] = hand[v]
    BY <1>0 DEF Read, Put
  <2>3. ~On(w, k) /\ ~On(w, k)'
    <3>1. CASE Read(w)
      BY <1>0, <1>4, <3>1 DEF Read, Seen, On, IdleHand
    <3>2. CASE Put(w)
      BY <1>0, <1>4, <3>2 DEF Put, On, IdleHand
    <3> QED
      BY <3>1, <3>2
  <2>4. \A v \in Workers : On(v, k)' <=> On(v, k)
    BY <2>2, <2>3 DEF On
  <2> QED
    BY <1>0, <1>2, <2>1, <2>2, <2>3, <2>4 DEF Tidy, Within
<1>5. CASE hand[w].key = k
  <2>1. On(w, k) /\ \A v \in Workers \ {w} : ~On(v, k)
    BY <1>0, <1>2, <1>3, <1>5 DEF Tidy, On
  <2>2. \A v \in Workers \ {w} : ~On(v, k)'
    BY <1>0, <2>1 DEF Read, Put, On
  <2>3. Within(hand[w], count[k], Cardinality(Up(k)))
    BY <1>0, <1>2, <2>1 DEF Tidy
  <2>4. /\ On(w, k)' => Within(hand'[w], count'[k], Cardinality(Up(k)))
        /\ ~On(w, k)' => count'[k] <= Cardinality(Up(k))
    <3>1. CASE Read(w)
      <4>1. hand'[w] = Seen(hand[w], count[k]) /\ count' = count
        BY <1>0, <1>5, <3>1 DEF Read
      <4>2. hand[w].stage \in {"start", "end", "dec"} /\ count[k] \in Int
        BY <1>0, <3>1 DEF Read
      <4>3. CASE hand[w].stage = "start"
        <5>1. hand'[w] = [hand[w] EXCEPT !.stage = "put", !.val = count[k] + 1]
          BY <4>1, <4>3 DEF Seen
        <5>2. hand'[w].stage = "put" /\ hand'[w].val = count[k] + 1 /\ hand'[w].key = k
          BY <5>1, <1>0, <1>5 DEF HandType
        <5> QED
          BY <5>2, <2>3, <4>1, <4>2, <4>3, <1>0 DEF Within, On
      <4>4. CASE hand[w].stage = "dec"
        <5>1. hand'[w] = [hand[w] EXCEPT !.stage = "put", !.val = count[k] - 1]
          BY <4>1, <4>4 DEF Seen
        <5>2. hand'[w].stage = "put" /\ hand'[w].val = count[k] - 1 /\ hand'[w].key = k
          BY <5>1, <1>0, <1>5 DEF HandType
        <5> QED
          BY <5>2, <2>3, <4>1, <4>2, <4>4, <1>0 DEF Within, On
      <4>5. CASE hand[w].stage = "end" /\ count[k] > 0
        <5>1. hand'[w] = [hand[w] EXCEPT !.stage = "dec"]
          BY <4>1, <4>5 DEF Seen
        <5>2. hand'[w].stage = "dec" /\ hand'[w].key = k
          BY <5>1, <1>0, <1>5 DEF HandType
        <5> QED
          BY <5>2, <2>3, <4>1, <4>2, <4>5, <1>0 DEF Within, On
      <4>6. CASE hand[w].stage = "end" /\ ~(count[k] > 0)
        <5>1. hand'[w].stage = "idle"
          BY <4>1, <4>6 DEF Seen, IdleHand
        <5> QED
          BY <5>1, <4>1, <4>2, <4>6, <1>0 DEF On
      <4> QED
        BY <4>2, <4>3, <4>4, <4>5, <4>6
    <3>2. CASE Put(w)
      <4>1. hand'[w].stage = "idle" /\ count'[k] = hand[w].val /\ hand[w].stage = "put"
        BY <1>0, <1>5, <3>2 DEF Put, IdleHand
      <4> QED
        BY <4>1, <2>3 DEF Within, On
    <3> QED
      BY <3>1, <3>2
  <2>5. CASE On(w, k)'
    <3>1. \A v \in Workers : On(v, k)' => v = w
      BY <2>2
    <3>2. Within(hand[w], count[k], Cardinality(Up(k)))'
      BY <2>4, <2>5, <1>2 DEF Within
    <3> QED
      BY <2>5, <3>1, <3>2 DEF Tidy
  <2>6. CASE ~On(w, k)'
    <3>1. \A v \in Workers : ~On(v, k)'
      BY <2>2, <2>6
    <3> QED
      BY <3>1, <2>4, <2>6, <1>2 DEF Tidy
  <2> QED
    BY <2>5, <2>6
<1> QED
  BY <1>4, <1>5

\* A counter that was zeroed while no worker was busy with it.
LEMMA ZeroTidy ==
  ASSUME NEW k \in Numbers, count'[k] = 0, \A w \in Workers : ~On(w, k)',
         Cardinality(Up(k)') \in Nat
  PROVE  Tidy(k)'
  BY DEF Tidy

-----------------------------------------------------------------------------
(* The calls. *)

\* The call c becomes r.
Becomes(c, r) == r \in CallType /\ call' = [call EXCEPT ![c] = r]

\* A step of one call that neither confirms its dialog nor ends it.
LEMMA StaysUp ==
  ASSUME TypeOK, NEW c \in Calls, NEW r, Becomes(c, r), NEW k \in Numbers,
         (r.tracked /\ r.a = "up") <=> (call[c].tracked /\ call[c].a = "up"),
         r.tracked /\ r.a = "up" => r.acct = call[c].acct
  PROVE  Up(k)' = Up(k)
<1>1. call'[c] = r /\ \A d \in Calls \ {c} : call'[d] = call[d]
  BY DEF TypeOK, Becomes
<1> QED
  BY <1>1 DEF Up, KeyOf

\* An answered call joins the dialogs of its counter and no other's.
LEMMA GoesUp ==
  ASSUME TypeOK, NEW c \in Calls, NEW r, Becomes(c, r), NEW k \in Numbers,
         ~(call[c].tracked /\ call[c].a = "up"), r.acct = call[c].acct
  PROVE  /\ k # KeyOf(c) => Up(k)' = Up(k)
         /\ k = KeyOf(c) /\ r.tracked /\ r.a = "up"
              => Cardinality(Up(k)') = Cardinality(Up(k)) + 1
<1>1. call'[c] = r /\ \A d \in Calls \ {c} : call'[d] = call[d]
  BY DEF TypeOK, Becomes
<1>2. k # KeyOf(c) => Up(k)' = Up(k)
  BY <1>1 DEF Up, KeyOf
<1>3. ASSUME k = KeyOf(c), r.tracked, r.a = "up"
      PROVE  Cardinality(Up(k)') = Cardinality(Up(k)) + 1
  <2>1. Up(k)' = Up(k) \cup {c} /\ c \notin Up(k)
    BY <1>1, <1>3 DEF Up, KeyOf
  <2> QED
    BY <2>1, UpFinite, FS_AddElement
<1> QED
  BY <1>2, <1>3

\* A call that ends leaves the dialogs of its counter, if it was one of them.
LEMMA GoesDown ==
  ASSUME TypeOK, NEW c \in Calls, NEW r, Becomes(c, r), NEW k \in Numbers,
         ~r.tracked, r.acct = call[c].acct
  PROVE  /\ k # KeyOf(c) => Up(k)' = Up(k)
         /\ Cardinality(Up(k)) <= Cardinality(Up(k)') + 1
<1>1. call'[c] = r /\ \A d \in Calls \ {c} : call'[d] = call[d]
  BY DEF TypeOK, Becomes
<1>2. k # KeyOf(c) => Up(k)' = Up(k)
  BY <1>1 DEF Up, KeyOf
<1>3. Up(k)' = Up(k) \ {c}
  BY <1>1 DEF Up, KeyOf
<1>4. Cardinality(Up(k)) <= Cardinality(Up(k)') + 1
  <2>1. IsFiniteSet(Up(k)) /\ Cardinality(Up(k)) \in Nat
    BY UpFinite
  <2>2. CASE c \in Up(k)
    <3>1. Cardinality(Up(k) \ {c}) = Cardinality(Up(k)) - 1
      BY <2>1, <2>2, FS_RemoveElement
    <3> QED
      BY <1>3, <2>1, <3>1
  <2>3. CASE c \notin Up(k)
    <3>1. Up(k)' = Up(k)
      BY <1>3, <2>3
    <3> QED
      BY <2>1, <3>1
  <2> QED
    BY <2>2, <2>3
<1> QED
  BY <1>2, <1>4

LEMMA UpFiniteNext ==
  ASSUME NEW k \in Numbers
  PROVE  Cardinality(Up(k)') \in Nat
<1>1. Up(k)' \subseteq Calls
  BY DEF Up
<1> QED
  BY <1>1, CallsFinite, FS_Subset, FS_CardinalityType

LEMMA TakeType ==
  ASSUME TypeOK, NEW w \in Workers, NEW n \in Numbers, NEW e \in {"start", "end"}, Take(w, n, e)
  PROVE  hand' \in [Workers -> HandType] /\ raced' \in [Numbers -> BOOLEAN]
<1>1. [stage |-> e, key |-> n, val |-> 0] \in HandType
  BY DEF HandType
<1>2. hand' \in [Workers -> HandType]
  BY <1>1 DEF Take, TypeOK
<1>3. (raced[n] \/ \E v \in Workers \ {w} : On(v, n)) \in BOOLEAN
  OBVIOUS
<1>4. raced' \in [Numbers -> BOOLEAN]
  BY <1>3, Zenon DEF Take, TypeOK
<1> QED
  BY <1>2, <1>4

LEMMA KeyType ==
  ASSUME TypeOK, NEW c \in Calls
  PROVE  call[c] \in CallType /\ KeyOf(c) \in Numbers
  BY NumberTotal DEF TypeOK, CallType, KeyOf

\* A step of one call that is none of its dialog's events.
LEMMA QuietStep ==
  ASSUME IInv, NEW c \in Calls, NEW r, Becomes(c, r),
         (r.tracked /\ r.a = "up") <=> (call[c].tracked /\ call[c].a = "up"),
         r.tracked /\ r.a = "up" => r.acct = call[c].acct,
         UNCHANGED <<count, hand, banned, raced, faults>>
  PROVE  IInv'
<1>1. TypeOK
  BY DEF IInv
<1>2. TypeOK'
  BY <1>1, OneCallType DEF TypeOK, Becomes
<1>3. ASSUME NEW k \in Numbers PROVE Tidy(k)'
  BY <1>1, StaysUp, SameDialogs DEF IInv
<1> QED
  BY <1>2, <1>3 DEF IInv

LEMMA InviteStep == ASSUME IInv, NEW c \in Calls, Invite(c) PROVE IInv'
<1>1. PICK acct \in Accounts, kind \in Kinds[c] : Refuse(c, acct, kind) \/ Admit(c, acct, kind)
  BY DEF Invite
<1>2. call[c].a = "new" /\ UNCHANGED <<count, hand, banned, raced, faults>>
  BY DEF Invite
<1>3. CASE Refuse(c, acct, kind)
  <2> DEFINE r == [NotDialled EXCEPT
                    !.a = IF AtCeiling(Number[acct]) THEN "capped" ELSE "forbidden",
                    !.acct = acct, !.kind = kind]
  <2>1. r \in CallType /\ ~r.tracked
    BY KindsKnown, NotDialledType DEF CallType, StageA, Kind, NotDialled
  <2>2. Becomes(c, r)
    BY <1>3, <2>1 DEF Refuse, Becomes
  <2> HIDE DEF r
  <2> QED
    BY <1>2, <2>1, <2>2, QuietStep
<1>4. CASE Admit(c, acct, kind)
  <2> DEFINE r == [NotDialled EXCEPT !.a = "early", !.acct = acct, !.kind = kind,
                                     !.tracked = TRUE, !.media = {"in"}]
  <2>1. r \in CallType /\ r.a = "early"
    BY KindsKnown, NotDialledType DEF CallType, StageA, Kind, NotDialled
  <2>2. Becomes(c, r)
    BY <1>4, <2>1 DEF Admit, Becomes
  <2> HIDE DEF r
  <2> QED
    BY <1>2, <2>1, <2>2, QuietStep
<1> QED
  BY <1>1, <1>3, <1>4

LEMMA AnswerStep == ASSUME IInv, NEW w \in Workers, NEW c \in Calls, Answer(w, c) PROVE IInv'
<1> DEFINE r == [call[c] EXCEPT !.a = "up"]
<1>1. TypeOK /\ call[c] \in CallType /\ KeyOf(c) \in Numbers
  BY KeyType DEF IInv
<1>2. r \in CallType /\ r.a = "up" /\ r.tracked = call[c].tracked /\ r.acct = call[c].acct
  BY <1>1 DEF CallType, StageA
<1>3. Becomes(c, r) /\ call[c].a = "early" /\ UNCHANGED <<count, banned, faults>>
  BY <1>2 DEF Answer, Becomes
<1> HIDE DEF r
<1>4. CASE ~call[c].tracked
  BY <1>1, <1>2, <1>3, <1>4, QuietStep DEF Answer
<1>5. CASE call[c].tracked
  <2>1. Take(w, KeyOf(c), "start")
    BY <1>5 DEF Answer, DialogStart
  <2>2. TypeOK'
    BY <1>1, <1>3, <2>1, TakeType, OneCallType DEF TypeOK, Becomes
  <2>3. ASSUME NEW k \in Numbers PROVE Tidy(k)'
    <3>1. /\ k # KeyOf(c) => Up(k)' = Up(k)
          /\ k = KeyOf(c) => Cardinality(Up(k)') = Cardinality(Up(k)) + 1
      BY <1>1, <1>2, <1>3, <1>5, GoesUp
    <3> QED
      BY <1>1, <1>3, <2>1, <3>1, UpFiniteNext, TakeTidy
  <2> QED
    BY <2>2, <2>3 DEF IInv
<1> QED
  BY <1>4, <1>5

\* A call ends, answered or not.
LEMMA OverStep ==
  ASSUME IInv, NEW w \in Workers, NEW c \in Calls, NEW freed,
         Fail(w, c, freed) \/ End(w, c, freed)
  PROVE  IInv'
<1> DEFINE r == [call[c] EXCEPT !.a = "over", !.tracked = FALSE, !.media = @ \ freed]
<1>1. TypeOK /\ call[c] \in CallType /\ KeyOf(c) \in Numbers
  BY KeyType DEF IInv
<1>2. r \in CallType /\ r.a = "over" /\ r.tracked = FALSE /\ r.acct = call[c].acct
  BY <1>1 DEF CallType, StageA
<1>3. Becomes(c, r) /\ UNCHANGED <<count, banned, faults>>
  BY <1>2 DEF Fail, End, Becomes
<1> HIDE DEF r
<1>4. CASE ~call[c].tracked
  BY <1>1, <1>2, <1>3, <1>4, QuietStep DEF Fail, End
<1>5. CASE call[c].tracked
  <2>1. Take(w, KeyOf(c), "end")
    BY <1>5 DEF Fail, End, DialogFailed, DialogEnd
  <2>2. TypeOK'
    BY <1>1, <1>3, <2>1, TakeType, OneCallType DEF TypeOK, Becomes
  <2>3. ASSUME NEW k \in Numbers PROVE Tidy(k)'
    <3>1. /\ k # KeyOf(c) => Up(k)' = Up(k)
          /\ Cardinality(Up(k)) <= Cardinality(Up(k)') + 1
      BY <1>1, <1>2, <1>3, GoesDown
    <3> QED
      BY <1>1, <1>3, <2>1, <3>1, UpFiniteNext, TakeTidy
  <2> QED
    BY <2>2, <2>3 DEF IInv
<1> QED
  BY <1>4, <1>5

LEMMA LoseByeStep == ASSUME IInv, NEW c \in Calls, LoseBye(c) PROVE IInv'
<1> DEFINE r == [call[c] EXCEPT !.gone = TRUE]
<1>1. call[c] \in CallType
  BY KeyType DEF IInv
<1>2. r \in CallType /\ r.a = call[c].a /\ r.tracked = call[c].tracked /\ r.acct = call[c].acct
  BY <1>1 DEF CallType
<1>3. Becomes(c, r) /\ UNCHANGED <<count, hand, banned, raced, faults>>
  BY <1>2 DEF LoseBye, Becomes
<1> HIDE DEF r
<1> QED
  BY <1>2, <1>3, QuietStep

\* A step of leg B touches these fields of the call only.
LegB(c, r) ==
    /\ r \in CallType
    /\ r.a = call[c].a /\ r.tracked = call[c].tracked /\ r.acct = call[c].acct

LEMMA LegBStep ==
  ASSUME IInv, NEW c \in Calls, NEW r, LegB(c, r), call' = [call EXCEPT ![c] = r],
         UNCHANGED <<count, hand, banned, raced, faults>>
  PROVE  IInv'
  BY QuietStep DEF LegB, Becomes

LEMMA EgressStep == ASSUME IInv, NEW c \in Calls, Egress(c) PROVE IInv'
<1>1. call[c] \in CallType /\ UNCHANGED <<count, hand, banned, raced, faults>>
  BY KeyType DEF IInv, Egress
<1>2. LegB(c, ToTrunk(call[c])) /\ LegB(c, ToTrunk(Offer(call[c])))
      /\ LegB(c, [call[c] EXCEPT !.b = "refused"])
  BY <1>1 DEF LegB, ToTrunk, Offer, Relay, CallType, StageB
<1>3. \/ call' = [call EXCEPT ![c] = ToTrunk(call[c])]
      \/ call' = [call EXCEPT ![c] = [call[c] EXCEPT !.b = "refused"]]
      \/ call' = [call EXCEPT ![c] = ToTrunk(Offer(call[c]))]
  BY DEF Egress
<1> QED
  BY <1>1, <1>2, <1>3, LegBStep

LEMMA LegBOtherStep ==
  ASSUME IInv, NEW c \in Calls, Connect(c) \/ CarrierFails(c) \/ EndB(c) \/ MediaTimeout(c)
  PROVE  IInv'
<1>1. call[c] \in CallType /\ UNCHANGED <<count, hand, banned, raced, faults>>
  BY KeyType DEF IInv, Connect, CarrierFails, EndB, MediaTimeout
<1>2. CASE Connect(c)
  <2>1. LegB(c, [call[c] EXCEPT !.b = "up"])
    BY <1>1 DEF LegB, CallType, StageB
  <2> QED
    BY <1>1, <1>2, <2>1, LegBStep DEF Connect
<1>3. CASE CarrierFails(c)
  <2>1. LegB(c, Failed(call[c]))
    <3>1. CASE call[c].onfail = "MANAGE_CARRIER_FAILOVER" /\ call[c].tried < Gateways
      <4>1. Failed(call[c]) = Relay(Offer([call[c] EXCEPT !.tried = @ + 1]))
        BY <3>1 DEF Failed
      <4> DEFINE n == call[c].tried + 1
                 m == call[c].media \cup {"out"}
      <4>2. Failed(call[c]) =
              [call[c] EXCEPT !.tried = n, !.media = m,
                              !.b = "trying", !.onfail = "MANAGE_FAILURE"]
        BY <1>1, <4>1 DEF Relay, Offer, CallType
      <4>3. n \in Nat /\ m \in SUBSET {"in", "out"}
        BY <1>1 DEF CallType
      <4> HIDE DEF n, m
      <4>4. LegB(c, [call[c] EXCEPT !.tried = n, !.media = m,
                                    !.b = "trying", !.onfail = "MANAGE_FAILURE"])
        BY <1>1, <4>3 DEF LegB, CallType, StageB
      <4> QED
        BY <4>2, <4>4
    <3>2. CASE ~(call[c].onfail = "MANAGE_CARRIER_FAILOVER" /\ call[c].tried < Gateways)
      <4> DEFINE m == IF call[c].onfail = "none" THEN call[c].media ELSE call[c].media \ {"out"}
      <4>1. Failed(call[c]) = [call[c] EXCEPT !.b = "failed", !.media = m]
        BY <3>2 DEF Failed
      <4>2. m \in SUBSET {"in", "out"}
        BY <1>1 DEF CallType
      <4> HIDE DEF m
      <4> QED
        BY <1>1, <4>1, <4>2 DEF LegB, CallType, StageB
    <3> QED
      BY <3>1, <3>2
  <2> QED
    BY <1>1, <1>3, <2>1, LegBStep DEF CarrierFails
<1>4. CASE EndB(c)
  <2> DEFINE m == IF call[c].b = "up" /\ FS \notin banned THEN call[c].media \ {"out"}
                  ELSE call[c].media
  <2>1. m \in SUBSET {"in", "out"}
    BY <1>1 DEF CallType
  <2>2. LegB(c, [call[c] EXCEPT !.b = "over", !.media = m])
    BY <1>1, <2>1 DEF LegB, CallType, StageB
  <2>3. call' = [call EXCEPT ![c] = [call[c] EXCEPT !.b = "over", !.media = m]]
    BY <1>4 DEF EndB
  <2> QED
    BY <1>1, <2>2, <2>3, LegBStep
<1>5. CASE MediaTimeout(c)
  <2>1. \A l : LegB(c, [call[c] EXCEPT !.media = @ \ {l}])
    BY <1>1 DEF LegB, CallType
  <2> QED
    BY <1>1, <1>5, <2>1, LegBStep DEF MediaTimeout
<1> QED
  BY <1>2, <1>3, <1>4, <1>5

-----------------------------------------------------------------------------
(* The other steps. *)

LEMMA WorkStep == ASSUME IInv, NEW w \in Workers, Read(w) \/ Put(w) PROVE IInv'
<1>1. TypeOK /\ hand[w] \in HandType
  BY DEF IInv, TypeOK
<1>2. TypeOK'
  <2>1. CASE Read(w)
    <3>1. count[hand[w].key] \in Int
      BY <1>1 DEF TypeOK, HandType
    <3>2. \A n \in Int : /\ [hand[w] EXCEPT !.stage = "put", !.val = n] \in HandType
                         /\ [hand[w] EXCEPT !.stage = "dec"] \in HandType
      BY <1>1 DEF HandType
    <3>3. Seen(hand[w], count[hand[w].key]) \in HandType
      <4>1. count[hand[w].key] + 1 \in Int /\ count[hand[w].key] - 1 \in Int
        BY <3>1
      <4>2. /\ [hand[w] EXCEPT !.stage = "put", !.val = count[hand[w].key] + 1] \in HandType
            /\ [hand[w] EXCEPT !.stage = "put", !.val = count[hand[w].key] - 1] \in HandType
            /\ [hand[w] EXCEPT !.stage = "dec"] \in HandType
        BY <3>2, <4>1
      <4> QED
        BY <4>2, IdleHandType DEF Seen
    <3> QED
      BY <1>1, <2>1, <3>3 DEF TypeOK, Read
  <2>2. CASE Put(w)
    BY <1>1, <2>2, IdleHandType DEF TypeOK, Put, HandType
  <2> QED
    BY <2>1, <2>2
<1> QED
  BY <1>2, WorkTidy DEF IInv

LEMMA ExpireStep == ASSUME IInv, NEW n \in Numbers, Expire(n) PROVE IInv'
<1>1. TypeOK'
  BY DEF IInv, TypeOK, Expire
<1>2. ASSUME NEW k \in Numbers PROVE Tidy(k)'
  <2>1. Up(k)' = Up(k) /\ \A w \in Workers : On(w, k)' <=> On(w, k)
    BY DEF Expire, Up, KeyOf, On
  <2>2. CASE k = n
    BY <2>1, <2>2, UpFiniteNext, ZeroTidy DEF Expire, IInv, TypeOK
  <2>3. CASE k # n
    <3>1. count'[k] = count[k] /\ raced'[k] = raced[k] /\ hand' = hand
      BY <2>3 DEF Expire, IInv, TypeOK
    <3> QED
      BY <2>1, <3>1 DEF IInv, Tidy, Within
  <2> QED
    BY <2>2, <2>3
<1> QED
  BY <1>1, <1>2 DEF IInv

LEMMA BanStep == ASSUME IInv, NEW s \in Accounts \cup {FS}, Ban(s) \/ Unban(s) PROVE IInv'
<1>1. TypeOK'
  BY DEF IInv, TypeOK, Ban, Unban, SpendFault
<1>2. ASSUME NEW k \in Numbers PROVE Tidy(k)'
  BY SameDialogs DEF IInv, Ban, Unban, Up, KeyOf
<1> QED
  BY <1>1, <1>2 DEF IInv

LEMMA RestartStep == ASSUME IInv, Restart PROVE IInv'
<1>1. TypeOK'
  <2>1. \A c \in Calls : [call[c] EXCEPT !.tracked = FALSE, !.onfail = "none"] \in CallType
    BY KeyType DEF IInv, CallType
  <2> QED
    <3>0. call' = [c \in Calls |-> [call[c] EXCEPT !.tracked = FALSE, !.onfail = "none"]]
      BY DEF Restart
    <3>1. call' \in [Calls -> CallType]
      BY <2>1, <3>0
    <3>4. /\ count' \in [Numbers -> Int] /\ banned' \subseteq Accounts \cup {FS}
          /\ raced' \in [Numbers -> BOOLEAN]
      <4>1. /\ count' = [k \in Numbers |-> 0] /\ banned' = {}
            /\ raced' = [k \in Numbers |-> FALSE]
        BY DEF Restart
      <4> QED
        BY <4>1
    <3>2. hand' \in [Workers -> HandType]
      BY IdleHandType DEF Restart
    <3>3. faults \in Nat /\ faults' = faults + 1
      BY DEF IInv, TypeOK, Restart, SpendFault
    <3> QED
      BY <3>1, <3>2, <3>3, <3>4 DEF TypeOK
<1>2. ASSUME NEW k \in Numbers PROVE Tidy(k)'
  <2>1. count'[k] = 0 /\ \A w \in Workers : ~On(w, k)'
    BY DEF Restart, On, IdleHand
  <2> QED
    BY <2>1, UpFiniteNext, ZeroTidy
<1> QED
  BY <1>1, <1>2 DEF IInv

LEMMA NextIInv == IInv /\ [Next]_vars => IInv'
<1> SUFFICES ASSUME IInv, [Next]_vars PROVE IInv'
  OBVIOUS
<1>1. ASSUME NEW w \in Workers, Read(w) \/ Put(w) PROVE IInv'
  BY <1>1, WorkStep
<1>2. ASSUME NEW k \in Numbers, Expire(k) PROVE IInv'
  BY <1>2, ExpireStep
<1>3. ASSUME NEW c \in Calls,
             \/ Invite(c) \/ LoseBye(c) \/ Egress(c) \/ Connect(c)
             \/ CarrierFails(c) \/ EndB(c) \/ MediaTimeout(c)
      PROVE  IInv'
  BY <1>3, InviteStep, LoseByeStep, EgressStep, LegBOtherStep
<1>4. ASSUME NEW w \in Workers, NEW c \in Calls,
             Answer(w, c) \/ Reject(w, c) \/ Cancel(w, c) \/ Bye(w, c) \/ DialogTimeout(w, c)
      PROVE  IInv'
  BY <1>4, AnswerStep, OverStep DEF Reject, Cancel, Bye, DialogTimeout
<1>5. ASSUME NEW s \in Accounts \cup {FS}, Ban(s) \/ Unban(s) PROVE IInv'
  BY <1>5, BanStep
<1>6. CASE Restart
  BY <1>6, RestartStep
<1>7. CASE UNCHANGED vars
  BY <1>7 DEF IInv, TypeOK, vars, Tidy, Up, KeyOf, On, Within
<1> QED
  BY <1>1, <1>2, <1>3, <1>4, <1>5, <1>6, <1>7 DEF Next

LEMMA Inductive == Spec => []IInv
  BY InitIInv, NextIInv, PTL DEF Spec

\* The calls, the counters and the workers keep their types.
THEOREM TypeCorrect == Spec => []TypeOK
<1>1. IInv => TypeOK
  BY DEF IInv
<1> QED
  BY Inductive, <1>1, PTL

\* Unless two updates of it overlapped, an idle counter never exceeds the confirmed
\* dialogs of its number.
THEOREM CountersDoNotDriftUp == Spec => []NoDriftUp
<1>1. IInv => NoDriftUp
  BY DEF IInv, NoDriftUp, Quiet, Tidy
<1> QED
  BY Inductive, <1>1, PTL

\* Only an INVITE that route[FRAUD] refuses turns a new call into a capped one.
LEMMA OnlyRefused ==
  ASSUME TypeOK, [Next]_vars, NEW c \in Calls, call[c].a = "new", call'[c].a = "capped"
  PROVE  \E acct \in Accounts, kind \in Kinds[c] : Refuse(c, acct, kind)
<1>1. CASE Invite(c)
  <2>1. PICK acct \in Accounts, kind \in Kinds[c] : Refuse(c, acct, kind) \/ Admit(c, acct, kind)
    BY <1>1 DEF Invite
  <2>2. ~Admit(c, acct, kind)
    BY DEF Admit, TypeOK, NotDialled
  <2> QED
    BY <2>1, <2>2
<1>2. ASSUME NEW d \in Calls \ {c}, Invite(d) PROVE FALSE
  BY <1>2 DEF Invite, Refuse, Admit, TypeOK
<1>3. ASSUME NEW d \in Calls,
             \/ LoseBye(d) \/ Egress(d) \/ Connect(d)
             \/ CarrierFails(d) \/ EndB(d) \/ MediaTimeout(d)
      PROVE  FALSE
  <2>1. CASE LoseBye(d)
    BY <2>1 DEF LoseBye, TypeOK, CallType
  <2>2. CASE Egress(d)
    BY <2>2 DEF Egress, ToTrunk, Offer, Relay, TypeOK, CallType
  <2>3. CASE Connect(d)
    BY <2>3 DEF Connect, TypeOK, CallType
  <2>4. CASE CarrierFails(d)
    BY <2>4 DEF CarrierFails, Failed, Offer, Relay, TypeOK, CallType
  <2>5. CASE EndB(d)
    BY <2>5 DEF EndB, TypeOK, CallType
  <2>6. CASE MediaTimeout(d)
    BY <2>6 DEF MediaTimeout, TypeOK, CallType
  <2> QED
    BY <1>3, <2>1, <2>2, <2>3, <2>4, <2>5, <2>6
<1>4. ASSUME NEW w \in Workers, NEW d \in Calls,
             Answer(w, d) \/ Reject(w, d) \/ Cancel(w, d) \/ Bye(w, d) \/ DialogTimeout(w, d)
      PROVE  FALSE
  <2>1. d # c /\ \E r : call' = [call EXCEPT ![d] = r]
    BY <1>4 DEF Answer, Reject, Cancel, Bye, DialogTimeout, Fail, End
  <2> QED
    BY <2>1 DEF TypeOK
<1>5. ASSUME NEW w \in Workers, Read(w) \/ Put(w) PROVE FALSE
  BY <1>5 DEF Read, Put
<1>6. ASSUME NEW k \in Numbers, Expire(k) PROVE FALSE
  BY <1>6 DEF Expire
<1>7. ASSUME NEW s \in Accounts \cup {FS}, Ban(s) \/ Unban(s) PROVE FALSE
  BY <1>7 DEF Ban, Unban
<1>8. CASE Restart
  BY <1>8 DEF Restart, TypeOK, CallType
<1>9. CASE UNCHANGED vars
  BY <1>9 DEF vars
<1> QED
  BY <1>1, <1>2, <1>3, <1>4, <1>5, <1>6, <1>7, <1>8, <1>9 DEF Next

\* A caller is told "486 Busy Here" only while as many dialogs of its number as the
\* ceiling are confirmed, unless updates of its counter overlap.
THEOREM CappedJustly == Spec => CappedOnlyAtCeiling
<1> DEFINE Just ==
      \A c \in Calls :
         /\ call[c].a = "new" /\ call'[c].a = "capped"
         /\ Quiet(Number[call'[c].acct])
         => Cardinality(Up(Number[call'[c].acct])) >= Ceiling
<1>1. IInv /\ [Next]_vars => Just
  <2> SUFFICES ASSUME IInv, [Next]_vars, NEW c \in Calls,
                      call[c].a = "new", call'[c].a = "capped",
                      Quiet(Number[call'[c].acct])
               PROVE  Cardinality(Up(Number[call'[c].acct])) >= Ceiling
    OBVIOUS
  <2>1. PICK acct \in Accounts, kind \in Kinds[c] : Refuse(c, acct, kind)
    BY OnlyRefused DEF IInv
  <2>2. call'[c].acct = acct /\ AtCeiling(Number[acct])
    BY <2>1 DEF Refuse, IInv, TypeOK, NotDialled
  <2>3. Number[acct] \in Numbers
    BY NumberTotal
  <2>4. count[Number[acct]] <= Cardinality(Up(Number[acct]))
    BY <2>2, <2>3 DEF IInv, Quiet, Tidy
  <2> QED
    BY <2>2, <2>3, <2>4, UpFinite, CeilingPositive DEF AtCeiling, IInv, TypeOK
<1> HIDE DEF Just
<1>2. IInv /\ [Next]_vars => [Just]_vars
  BY <1>1
<1>3. Spec => [][Just]_vars
  BY Inductive, <1>2, PTL DEF Spec
<1> QED
  BY <1>3 DEF CappedOnlyAtCeiling, Just

-----------------------------------------------------------------------------
(* The course of a call: what may become of its two legs, of its media and *)
(* of the carriers tried for it.                                           *)

\* An INVITE: refused, or admitted below the ceiling with the media session of leg A.
Placed(r, s) ==
    /\ s.tracked => ~AtCeiling(Number[s.acct])
    /\ r.a = "new" /\ s.b = "none" /\ s.onfail = "none" /\ s.tried = 0
    /\ s.media = {} \/ (s.media = {"in"} /\ s.a = "early")

\* Leg A moves on, a session is dropped, or Kamailio restarts.
Passes(r, s) ==
    /\ s.acct = r.acct /\ (s.tracked => r.tracked)
    /\ s.a = r.a \/ (r.a \in {"early", "up"} /\ s.a \in {"up", "over"})
    /\ s.b = r.b /\ s.tried = r.tried /\ s.onfail \in {r.onfail, "none"}
    /\ s.media \subseteq r.media

\* route[EGRESS] relays the call, or refuses it.
Routed(r, s) ==
    /\ s.acct = r.acct /\ s.tracked = r.tracked
    /\ r.a \in {"early", "up"} /\ s.a = r.a
    /\ r.b = "none" /\ s.b \in {"trying", "refused"}
    /\ s.tried \in {r.tried, 1} /\ s.onfail \in {r.onfail, "MANAGE_FAILURE"}
    /\ s.media \subseteq r.media \cup {"out"}

\* The relayed leg B is answered, fails or is hung up.
Settles(r, s) ==
    /\ s.acct = r.acct /\ s.tracked = r.tracked
    /\ s.a = r.a /\ s.tried = r.tried /\ s.onfail = r.onfail
    /\ \/ r.b = "trying" /\ s.b \in {"up", "failed", "over"}
       \/ r.b = "up" /\ s.b = "over"
    /\ s.media \subseteq r.media

Moves(r, s) == Placed(r, s) \/ Passes(r, s) \/ Routed(r, s) \/ Settles(r, s)

\* The failure route that takes over is route[RELAY]'s, never the carrier failover.
OneTry(r) == r.onfail \in {"none", "MANAGE_FAILURE"} /\ r.tried \in {0, 1}

\* A media session belongs to a leg that the edge has seen.
Grounded(r) ==
    /\ "in" \in r.media => r.a \in {"early", "up", "over"}
    /\ "out" \in r.media => r.b # "none"

Course == \A c \in Calls : OneTry(call[c]) /\ Grounded(call[c])

LEMMA InviteMoves ==
  ASSUME TypeOK, NEW d \in Calls, Invite(d), NEW c \in Calls
  PROVE  Moves(call[c], call'[c])
<1>1. PICK acct \in Accounts, kind \in Kinds[d] : Refuse(d, acct, kind) \/ Admit(d, acct, kind)
  BY DEF Invite
<1>2. CASE c = d
  <2>1. CASE Refuse(d, acct, kind)
    BY <1>2, <2>1 DEF Refuse, Invite, NotDialled, TypeOK, Moves, Placed
  <2>2. CASE Admit(d, acct, kind)
    BY <1>2, <2>2 DEF Admit, Invite, NotDialled, TypeOK, Moves, Placed
  <2> QED
    BY <1>1, <2>1, <2>2
<1>3. CASE c # d
  BY <1>1, <1>3 DEF Refuse, Admit, TypeOK, Moves, Passes
<1> QED
  BY <1>2, <1>3

LEMMA LegAMoves ==
  ASSUME TypeOK, NEW w \in Workers, NEW d \in Calls,
         Answer(w, d) \/ Reject(w, d) \/ Cancel(w, d) \/ Bye(w, d) \/ DialogTimeout(w, d),
         NEW c \in Calls
  PROVE  Moves(call[c], call'[c])
<1>1. call \in [Calls -> CallType] /\ call[d] \in CallType
  BY DEF TypeOK
<1>2. ASSUME NEW freed, Fail(w, d, freed) \/ End(w, d, freed) PROVE Passes(call[c], call'[c])
  BY <1>1, <1>2 DEF Fail, End, Passes, CallType
<1>3. Answer(w, d) => Passes(call[c], call'[c])
  BY <1>1 DEF Answer, Passes, CallType
<1> QED
  BY <1>2, <1>3 DEF Reject, Cancel, Bye, DialogTimeout, Moves

LEMMA LegBMoves ==
  ASSUME TypeOK, NEW d \in Calls, OneTry(call[d]),
         \/ LoseBye(d) \/ Egress(d) \/ Connect(d)
         \/ CarrierFails(d) \/ EndB(d) \/ MediaTimeout(d),
         NEW c \in Calls
  PROVE  Moves(call[c], call'[c])
<1>1. call \in [Calls -> CallType] /\ call[d] \in CallType
  BY DEF TypeOK
<1>2. CASE c # d
  <2>1. \E r : call' = [call EXCEPT ![d] = r]
    BY DEF LoseBye, Egress, Connect, CarrierFails, EndB, MediaTimeout
  <2> QED
    BY <1>1, <1>2, <2>1 DEF Moves, Passes
<1>3. CASE c = d
  <2>1. CASE LoseBye(d)
    BY <1>1, <1>3, <2>1 DEF LoseBye, Moves, Passes, CallType
  <2>2. CASE Egress(d)
    <3>1. /\ Routed(call[d], ToTrunk(call[d])) /\ Routed(call[d], ToTrunk(Offer(call[d])))
          /\ Routed(call[d], [call[d] EXCEPT !.b = "refused"])
      BY <1>1, <2>2 DEF Egress, Routed, ToTrunk, Relay, Offer, CallType
    <3>2. \/ call'[d] = ToTrunk(call[d])
          \/ call'[d] = [call[d] EXCEPT !.b = "refused"]
          \/ call'[d] = ToTrunk(Offer(call[d]))
      BY <1>1, <2>2 DEF Egress
    <3> QED
      BY <1>3, <3>1, <3>2 DEF Moves
  <2>3. CASE Connect(d)
    BY <1>1, <1>3, <2>3 DEF Connect, Moves, Settles, CallType
  <2>4. CASE CarrierFails(d)
    <3> DEFINE m == IF call[d].onfail = "none" THEN call[d].media ELSE call[d].media \ {"out"}
    <3>1. Failed(call[d]) = [call[d] EXCEPT !.b = "failed", !.media = m]
      BY DEF Failed, OneTry
    <3>2. m \subseteq call[d].media
      OBVIOUS
    <3> HIDE DEF m
    <3>3. call'[d] = [call[d] EXCEPT !.b = "failed", !.media = m] /\ call[d].b = "trying"
      BY <1>1, <2>4, <3>1 DEF CarrierFails
    <3> QED
      BY <1>1, <1>3, <3>2, <3>3 DEF Moves, Settles, CallType
  <2>5. CASE EndB(d)
    <3> DEFINE m == IF call[d].b = "up" /\ FS \notin banned THEN call[d].media \ {"out"}
                    ELSE call[d].media
    <3>1. call' = [call EXCEPT ![d] = [call[d] EXCEPT !.b = "over", !.media = m]]
      BY <2>5 DEF EndB
    <3>2. m \subseteq call[d].media /\ call[d].b \in {"trying", "up"}
      BY <2>5 DEF EndB
    <3> HIDE DEF m
    <3> QED
      BY <1>1, <1>3, <3>1, <3>2 DEF Moves, Settles, CallType
  <2>6. CASE MediaTimeout(d)
    BY <1>1, <1>3, <2>6 DEF MediaTimeout, Moves, Passes, CallType
  <2> QED
    BY <2>1, <2>2, <2>3, <2>4, <2>5, <2>6
<1> QED
  BY <1>2, <1>3

\* Every step makes one of these moves with each call.
LEMMA EveryStepMoves ==
  ASSUME TypeOK, Course, [Next]_vars, NEW c \in Calls
  PROVE  Moves(call[c], call'[c])
<1>1. ASSUME NEW d \in Calls,
             \/ Invite(d) \/ LoseBye(d) \/ Egress(d) \/ Connect(d)
             \/ CarrierFails(d) \/ EndB(d) \/ MediaTimeout(d)
      PROVE  Moves(call[c], call'[c])
  BY <1>1, InviteMoves, LegBMoves DEF Course
<1>2. ASSUME NEW w \in Workers, NEW d \in Calls,
             Answer(w, d) \/ Reject(w, d) \/ Cancel(w, d) \/ Bye(w, d) \/ DialogTimeout(w, d)
      PROVE  Moves(call[c], call'[c])
  BY <1>2, LegAMoves
<1>3. CASE call' = call
  BY <1>3 DEF Moves, Passes
<1>4. CASE Restart
  BY <1>4 DEF Restart, TypeOK, CallType, Moves, Passes
<1>5. ASSUME NEW w \in Workers, Read(w) \/ Put(w) PROVE call' = call
  BY <1>5 DEF Read, Put
<1>6. ASSUME NEW k \in Numbers, Expire(k) PROVE call' = call
  BY <1>6 DEF Expire
<1>7. ASSUME NEW s \in Accounts \cup {FS}, Ban(s) \/ Unban(s) PROVE call' = call
  BY <1>7 DEF Ban, Unban
<1>8. CASE UNCHANGED vars
  BY <1>3, <1>8 DEF vars
<1> QED
  BY <1>1, <1>2, <1>3, <1>4, <1>5, <1>6, <1>7, <1>8 DEF Next

LEMMA CourseInductive == Spec => []Course
<1>1. Init => Course
  BY DEF Init, NotDialled, Course, OneTry, Grounded
<1>2. TypeOK /\ Course /\ [Next]_vars => Course'
  <2> SUFFICES ASSUME TypeOK, Course, [Next]_vars, NEW c \in Calls
               PROVE  OneTry(call'[c]) /\ Grounded(call'[c])
    BY DEF Course
  <2>1. OneTry(call[c]) /\ Grounded(call[c]) /\ Moves(call[c], call'[c])
    BY EveryStepMoves DEF Course
  <2> QED
    BY <2>1 DEF Moves, Placed, Passes, Routed, Settles, OneTry, Grounded
<1> QED
  BY <1>1, <1>2, TypeCorrect, PTL DEF Spec

\* route[TOTRUNK] arms the carrier failover and route[RELAY] at once replaces it, so
\* however many carriers drouting lists, a call is never offered to a second one, and
\* failure_route[MANAGE_CARRIER_FAILOVER] never runs.
OneCarrierOnly ==
    \A c \in Calls : call[c].onfail # "MANAGE_CARRIER_FAILOVER" /\ call[c].tried <= 1

\* For any number of carriers and calls: failure_route[MANAGE_CARRIER_FAILOVER]
\* (34-kamailio-config.sh:940) is never the one that is armed.
THEOREM NoSecondCarrier == Spec => []OneCarrierOnly
<1>1. TypeOK /\ Course => OneCarrierOnly
  BY DEF Course, OneTry, OneCarrierOnly
<1> QED
  BY <1>1, TypeCorrect, CourseInductive, PTL

\* What is left to do for the media of a call whose leg A is over: a session per leg,
\* and the end of leg B.
Left(r) ==
    (IF "in" \in r.media THEN 1 ELSE 0) + (IF "out" \in r.media THEN 1 ELSE 0)
    + (IF r.b = "trying" THEN 2 ELSE IF r.b = "up" THEN 1 ELSE 0)

\* No leg and no media session is ever added to a call whose leg A is over: it stays
\* over, and each step that touches its leg B or its media leaves less to do, whatever
\* FreeSWITCH, the carriers, bans and restarts do.  So at most four such steps are left.
EndedCallsWindDown ==
    [][\A c \in Calls :
          call[c].a = "over" =>
             /\ call'[c].a = "over"
             /\ call'[c].media \subseteq call[c].media
             /\ Left(call[c]) \in 0 .. 4
             /\ \/ call'[c].media = call[c].media /\ call'[c].b = call[c].b
                \/ Left(call'[c]) < Left(call[c])]_vars

\* Once leg A is over, nothing opens media or moves the second pass but towards its end.
THEOREM EndedCallsOnlyWindDown == Spec => EndedCallsWindDown
<1> DEFINE Winds ==
      \A c \in Calls :
         call[c].a = "over" =>
            /\ call'[c].a = "over"
            /\ call'[c].media \subseteq call[c].media
            /\ Left(call[c]) \in 0 .. 4
            /\ \/ call'[c].media = call[c].media /\ call'[c].b = call[c].b
               \/ Left(call'[c]) < Left(call[c])
<1>1. TypeOK /\ Course /\ [Next]_vars => Winds
  <2> SUFFICES ASSUME TypeOK, Course, [Next]_vars, NEW c \in Calls, call[c].a = "over"
               PROVE  /\ call'[c].a = "over"
                      /\ call'[c].media \subseteq call[c].media
                      /\ Left(call[c]) \in 0 .. 4
                      /\ \/ call'[c].media = call[c].media /\ call'[c].b = call[c].b
                         \/ Left(call'[c]) < Left(call[c])
    OBVIOUS
  <2>1. Passes(call[c], call'[c]) \/ Settles(call[c], call'[c])
    BY EveryStepMoves DEF Moves, Placed, Routed
  <2>2. /\ call'[c].a = "over"
        /\ call'[c].media \subseteq call[c].media
        /\ call[c].media \subseteq {"in", "out"}
    BY <2>1 DEF Passes, Settles, TypeOK, CallType
  <2>3. Left(call[c]) \in 0 .. 4
    BY DEF Left
  <2>4. CASE Passes(call[c], call'[c])
    <3>1. call'[c].b = call[c].b
      BY <2>4 DEF Passes
    <3>2. call'[c].media # call[c].media => \E l \in {"in", "out"} : l \in call[c].media \ call'[c].media
      BY <2>2
    <3> QED
      BY <2>2, <2>3, <3>1, <3>2 DEF Left
  <2>5. CASE Settles(call[c], call'[c])
    BY <2>2, <2>3, <2>5 DEF Settles, Left
  <2> QED
    BY <2>1, <2>4, <2>5
<1> HIDE DEF Winds
<1>2. TypeOK /\ Course /\ [Next]_vars => [Winds]_vars
  BY <1>1
<1>3. Spec => [][Winds]_vars
  BY TypeCorrect, CourseInductive, <1>2, PTL DEF Spec
<1> QED
  BY <1>3 DEF EndedCallsWindDown, Winds

\* A media session of an ended call is never stranded: rtpengine may drop it now, or
\* FreeSWITCH has yet to end the leg it belongs to.
NoMediaStranded ==
    \A c \in Calls :
       call[c].a = "over" /\ call[c].media # {} =>
          \/ "in" \in call[c].media
          \/ call[c].b \in {"trying", "up"}
          \/ "out" \in call[c].media /\ call[c].b \in {"refused", "failed", "over"}

\* No ended call holds media that neither the end of leg B nor rtpengine would free.
THEOREM EndedMediaHasAWayOut == Spec => []NoMediaStranded
<1>1. TypeOK /\ Course => NoMediaStranded
  BY DEF TypeOK, CallType, StageB, Course, Grounded, NoMediaStranded
<1> QED
  BY <1>1, TypeCorrect, CourseInductive, PTL


-----------------------------------------------------------------------------
(* The counters, from below. *)

\* A counter that no two updates overlapped on is not negative, and whoever lowers it
\* has seen that it is positive, which it still is.
Floor(k) ==
    ~raced[k] =>
        /\ count[k] >= 0
        /\ \A w \in Workers : On(w, k) =>
              /\ hand[w].stage = "dec" => count[k] >= 1
              /\ hand[w].stage = "put" => hand[w].val >= 0

AllFloors == \A k \in Numbers : Floor(k)

LEMMA TakeFloor ==
  ASSUME TypeOK, NEW w \in Workers, NEW n \in Numbers, NEW e \in {"start", "end"},
         Take(w, n, e), count' = count, NEW k \in Numbers, Floor(k)
  PROVE  Floor(k)'
<1> SUFFICES ASSUME ~raced'[k] PROVE Floor(k)'
  BY DEF Floor
<1>1. hand' = [hand EXCEPT ![w] = [stage |-> e, key |-> n, val |-> 0]] /\ ~raced[k]
  BY DEF Take, TypeOK
<1>2. hand'[w].stage \in {"start", "end"} /\ \A v \in Workers \ {w} : hand'[v] = hand[v]
  BY <1>1 DEF TypeOK
<1> QED
  BY <1>1, <1>2 DEF Floor, On

LEMMA WorkFloor ==
  ASSUME IInv, NEW w \in Workers, Read(w) \/ Put(w), NEW k \in Numbers, Floor(k)
  PROVE  Floor(k)'
<1> SUFFICES ASSUME ~raced'[k] PROVE Floor(k)'
  BY DEF Floor
<1>0. /\ count \in [Numbers -> Int] /\ hand \in [Workers -> HandType]
      /\ hand[w] \in HandType /\ hand[w].key \in Numbers /\ hand[w].stage # "idle"
  BY DEF IInv, TypeOK, HandType, Read, Put
<1>1. ~raced[k] /\ \A v \in Workers \ {w} : hand'[v] = hand[v]
  BY DEF Read, Put, IInv, TypeOK
<1>2. \A u, v \in Workers : On(u, k) /\ On(v, k) => u = v
  BY <1>1 DEF IInv, Tidy
<1>3. CASE hand[w].key # k
  <2>1. CASE Read(w)
    BY <1>0, <1>1, <1>3, <2>1 DEF Read, Seen, On, IdleHand, Floor
  <2>2. CASE Put(w)
    BY <1>0, <1>1, <1>3, <2>2 DEF Put, On, IdleHand, Floor
  <2> QED
    BY <2>1, <2>2
<1>4. CASE hand[w].key = k
  <2>1. \A v \in Workers \ {w} : ~On(v, k)'
    BY <1>0, <1>1, <1>2, <1>4 DEF On
  <2>2. CASE Put(w)
    BY <1>0, <1>1, <1>4, <2>1, <2>2 DEF Put, Floor, On, IdleHand
  <2>3. CASE Read(w)
    <3>1. hand'[w] = Seen(hand[w], count[k]) /\ count' = count
      BY <1>0, <1>4, <2>3 DEF Read
    <3>2. /\ hand'[w].stage = "dec" => count[k] >= 1
          /\ hand'[w].stage = "put" => hand'[w].val >= 0
      BY <1>0, <1>1, <1>4, <2>3, <3>1 DEF Read, Seen, HandType, IdleHand, Floor, On
    <3> QED
      BY <1>1, <2>1, <3>1, <3>2 DEF Floor
  <2> QED
    BY <2>2, <2>3
<1> QED
  BY <1>3, <1>4

\* What an event of a dialog does to the counters, if it does anything.
LEMMA EventFloor ==
  ASSUME IInv, AllFloors, NEW w \in Workers, NEW c \in Calls,
         Answer(w, c) \/ Reject(w, c) \/ Cancel(w, c) \/ Bye(w, c) \/ DialogTimeout(w, c)
  PROVE  AllFloors'
<1>1. KeyOf(c) \in Numbers /\ TypeOK
  BY KeyType DEF IInv
<1>2. count' = count
  BY DEF Answer, Reject, Cancel, Bye, DialogTimeout, Fail, End
<1>3. \/ UNCHANGED <<hand, raced>>
      \/ Take(w, KeyOf(c), "start") \/ Take(w, KeyOf(c), "end")
  BY DEF Answer, Reject, Cancel, Bye, DialogTimeout, Fail, End,
         DialogStart, DialogEnd, DialogFailed
<1>4. CASE UNCHANGED <<hand, raced>>
  BY <1>2, <1>4 DEF AllFloors, Floor, On
<1>5. CASE Take(w, KeyOf(c), "start") \/ Take(w, KeyOf(c), "end")
  BY <1>1, <1>2, <1>5, TakeFloor DEF AllFloors
<1> QED
  BY <1>3, <1>4, <1>5

LEMMA FloorInductive == Spec => []AllFloors
<1>1. Init => AllFloors
  BY DEF Init, AllFloors, Floor, On, IdleHand
<1>2. IInv /\ AllFloors /\ [Next]_vars => AllFloors'
  <2> SUFFICES ASSUME IInv, AllFloors, [Next]_vars PROVE AllFloors'
    OBVIOUS
  <2>1. ASSUME UNCHANGED <<count, hand, raced>> PROVE AllFloors'
    BY <2>1 DEF AllFloors, Floor, On
  <2>2. ASSUME NEW w \in Workers, Read(w) \/ Put(w) PROVE AllFloors'
    BY <2>2, WorkFloor DEF AllFloors
  <2>3. ASSUME NEW k \in Numbers, Expire(k) PROVE AllFloors'
    <3>1. /\ hand' = hand /\ \A w \in Workers : ~On(w, k)
          /\ count' = [count EXCEPT ![k] = 0] /\ raced' = [raced EXCEPT ![k] = FALSE]
      BY <2>3 DEF Expire
    <3>2. count \in [Numbers -> Int] /\ raced \in [Numbers -> BOOLEAN]
      BY DEF IInv, TypeOK
    <3> QED
      BY <3>1, <3>2 DEF AllFloors, Floor, On
  <2>4. ASSUME NEW c \in Calls,
               \/ Invite(c) \/ LoseBye(c) \/ Egress(c) \/ Connect(c)
               \/ CarrierFails(c) \/ EndB(c) \/ MediaTimeout(c)
        PROVE  AllFloors'
    <3>1. UNCHANGED <<count, hand, raced>>
      BY <2>4 DEF Invite, LoseBye, Egress, Connect, CarrierFails, EndB, MediaTimeout
    <3> QED
      BY <2>1, <3>1
  <2>5. ASSUME NEW w \in Workers, NEW c \in Calls,
               Answer(w, c) \/ Reject(w, c) \/ Cancel(w, c) \/ Bye(w, c) \/ DialogTimeout(w, c)
        PROVE  AllFloors'
    BY <2>5, EventFloor
  <2>6. ASSUME NEW s \in Accounts \cup {FS}, Ban(s) \/ Unban(s) PROVE AllFloors'
    BY <2>1, <2>6 DEF Ban, Unban
  <2>7. CASE Restart
    <3>1. \A k \in Numbers : count'[k] = 0
      BY <2>7 DEF Restart
    <3>2. \A w \in Workers : hand'[w].stage = "idle"
      BY <2>7 DEF Restart, IdleHand
    <3> QED
      BY <3>1, <3>2 DEF AllFloors, Floor, On
  <2>8. CASE UNCHANGED vars
    BY <2>1, <2>8 DEF vars
  <2> QED
    BY <2>2, <2>3, <2>4, <2>5, <2>6, <2>7, <2>8 DEF Next
<1> QED
  BY <1>1, <1>2, Inductive, PTL DEF Spec

\* dialog:failed lowers a counter that its call never raised, but neither it nor
\* dialog:end takes a counter below zero, unless updates of it overlap: then the test
\* and the decrement see different values.
NoUnderflow == \A k \in Numbers : count[k] < 0 => raced[k]

\* The decrements of dialog:end and dialog:failed stop at zero, but for overlapping ones.
THEOREM CountersDoNotUnderflow == Spec => []NoUnderflow
<1>1. TypeOK /\ AllFloors => NoUnderflow
  BY DEF TypeOK, AllFloors, Floor, NoUnderflow
<1> QED
  BY <1>1, TypeCorrect, FloorInductive, PTL


-----------------------------------------------------------------------------
(* Lockouts. *)

\* The dialogs of a counter, answered or not.
Dialogs(k) == {c \in Calls : call[c].tracked /\ KeyOf(c) = k}

Idle(k) == \A w \in Workers : ~On(w, k)

LEMMA NobodyJoins ==
  ASSUME TypeOK, Course, [Next]_vars, NEW k \in Numbers, AtCeiling(k)
  PROVE  Dialogs(k)' \subseteq Dialogs(k)
<1> SUFFICES ASSUME NEW c \in Calls, call'[c].tracked, Number[call'[c].acct] = k
             PROVE  call[c].tracked /\ Number[call[c].acct] = k
  BY DEF Dialogs, KeyOf
<1>1. Moves(call[c], call'[c])
  BY EveryStepMoves
<1> QED
  BY <1>1 DEF Moves, Placed, Passes, Routed, Settles

\* A counter without dialogs and without a worker on it is left to autoexpire.
LEMMA NobodyCounts ==
  ASSUME TypeOK, [Next]_vars, NEW k \in Numbers, Dialogs(k) = {}, Idle(k)
  PROVE  Idle(k)' /\ count'[k] \in {count[k], 0}
<1>0. count \in [Numbers -> Int] /\ hand \in [Workers -> HandType]
  BY DEF TypeOK
<1>1. CASE UNCHANGED <<count, hand>>
  BY <1>1 DEF Idle, On
<1>2. ASSUME NEW w \in Workers, Read(w) \/ Put(w)
      PROVE  Idle(k)' /\ count'[k] \in {count[k], 0}
  <2>1. hand[w].stage # "idle" /\ hand[w].key # k /\ hand[w] \in HandType
    BY <1>0, <1>2 DEF Read, Put, Idle, On
  <2>2. CASE Read(w)
    <3>1. hand'[w].stage = "idle" \/ hand'[w].key = hand[w].key
      BY <1>0, <2>1, <2>2 DEF Read, Seen, IdleHand, HandType
    <3> QED
      BY <1>0, <2>1, <2>2, <3>1 DEF Read, Idle, On
  <2>3. CASE Put(w)
    BY <1>0, <2>1, <2>3 DEF Put, IdleHand, Idle, On
  <2> QED
    BY <1>2, <2>2, <2>3
<1>3. ASSUME NEW n \in Numbers, Expire(n)
      PROVE  Idle(k)' /\ count'[k] \in {count[k], 0}
  BY <1>0, <1>3 DEF Expire, Idle, On
<1>4. ASSUME NEW c \in Calls,
             \/ Invite(c) \/ LoseBye(c) \/ Egress(c) \/ Connect(c)
             \/ CarrierFails(c) \/ EndB(c) \/ MediaTimeout(c)
      PROVE  UNCHANGED <<count, hand>>
  BY <1>4 DEF Invite, LoseBye, Egress, Connect, CarrierFails, EndB, MediaTimeout
<1>5. ASSUME NEW w \in Workers, NEW c \in Calls,
             Answer(w, c) \/ Reject(w, c) \/ Cancel(w, c) \/ Bye(w, c) \/ DialogTimeout(w, c)
      PROVE  Idle(k)' /\ count'[k] \in {count[k], 0}
  <2>1. count' = count
    BY <1>5 DEF Answer, Reject, Cancel, Bye, DialogTimeout, Fail, End
  <2>2. hand' = hand \/ (call[c].tracked /\ \E e \in {"start", "end"} : Take(w, KeyOf(c), e))
    BY <1>5 DEF Answer, Reject, Cancel, Bye, DialogTimeout, Fail, End,
                DialogStart, DialogEnd, DialogFailed
  <2>3. ASSUME call[c].tracked, NEW e \in {"start", "end"}, Take(w, KeyOf(c), e) PROVE Idle(k)'
    <3>1. KeyOf(c) # k
      BY <2>3 DEF Dialogs
    <3> QED
      BY <1>0, <2>3, <3>1 DEF Take, Idle, On
  <2> QED
    BY <1>1, <2>1, <2>2, <2>3
<1>6. ASSUME NEW s \in Accounts \cup {FS}, Ban(s) \/ Unban(s) PROVE UNCHANGED <<count, hand>>
  BY <1>6 DEF Ban, Unban
<1>7. CASE Restart
  <2>1. count'[k] = 0 /\ \A w \in Workers : hand'[w].stage = "idle"
    BY <1>7 DEF Restart, IdleHand
  <2> QED
    BY <2>1 DEF Idle, On
<1>8. CASE UNCHANGED vars
  BY <1>1, <1>8 DEF vars
<1> QED
  BY <1>1, <1>2, <1>3, <1>4, <1>5, <1>6, <1>7, <1>8 DEF Next

\* A lockout runs dry: while a counter is at the ceiling its dialogs only become fewer,
\* and after the last of them, once no update is under way, nothing raises the counter
\* again or keeps its entry from expiring.
LockoutDrains ==
    [][\A k \in Numbers :
          /\ AtCeiling(k) => Dialogs(k)' \subseteq Dialogs(k)
          /\ Dialogs(k) = {} /\ Idle(k) =>
                /\ Up(k) = {} /\ Idle(k)'
                /\ count'[k] \in {count[k], 0}]_vars

\* A number at its ceiling gets no new dialog, and one without dialogs keeps its count or
\* is zeroed.
THEOREM LockoutsDrain == Spec => LockoutDrains
<1> DEFINE Drains ==
      \A k \in Numbers :
         /\ AtCeiling(k) => Dialogs(k)' \subseteq Dialogs(k)
         /\ Dialogs(k) = {} /\ Idle(k) =>
               /\ Up(k) = {} /\ Idle(k)'
               /\ count'[k] \in {count[k], 0}
<1>1. TypeOK /\ Course /\ [Next]_vars => Drains
  <2>1. \A k \in Numbers : Dialogs(k) = {} => Up(k) = {}
    BY DEF Dialogs, Up
  <2> QED
    BY <2>1, NobodyJoins, NobodyCounts
<1> HIDE DEF Drains
<1>2. TypeOK /\ Course /\ [Next]_vars => [Drains]_vars
  BY <1>1
<1>3. Spec => [][Drains]_vars
  BY TypeCorrect, CourseInductive, <1>2, PTL DEF Spec
<1> QED
  BY <1>3 DEF LockoutDrains, Drains

=============================================================================
