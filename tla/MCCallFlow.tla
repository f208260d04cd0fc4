----------------------------- MODULE MCCallFlow -----------------------------
(* A small instance of CallFlow for TLC: a flow of one tenant that turns in a
   circle, a DID that is free, and a ring group of another tenant. *)
EXTENDS CallFlow, TLC

CONSTANTS t1, t2, d1, g1, g2, m1, c1, e1, e2, n1

MCOwner == (g2 :> t2 @@ e2 :> t2) @@ [x \in {d1, g1, m1, c1, e1} |-> t1]
MCNumber == (e1 :> n1 @@ e2 :> n1)

To(type, id) == [type |-> type, id |-> id]

AllDates == {"christmas", "other"}
AllDays == {"weekday", "weekend"}
Weekdays == [dates |-> AllDates, days |-> {"weekday"}, start |-> 9, end |-> 17, invert |-> FALSE]
Christmas == [dates |-> {"christmas"}, days |-> AllDays, start |-> 0, end |-> 25, invert |-> TRUE]
MCRules == {<<Weekdays, Christmas>>, <<Christmas, Weekdays>>}
MCMoments == {[date |-> d, day |-> "weekday", hour |-> h] : d \in AllDates, h \in {9, 17}}

Holds(first, second, members) ==
    [first |-> first, second |-> second, members |-> members, rules |-> <<Weekdays, Christmas>>,
     on |-> TRUE]

MCStart ==
    (d1 :> None) @@
    (g1 :> Holds(To("ivr", m1), NoPair, {e1})) @@
    (m1 :> Holds(To("time_condition", c1), To("extension", e1), {})) @@
    (c1 :> Holds(To("external", Outside), To("ring_group", g1), {})) @@
    (g2 :> Holds(NoPair, NoPair, {e2}))

MCLosses == {{m1}, {g1, m1, c1}}

MCBodies == {To(Absent, g2), To("ring_group", g1)}
=============================================================================
