--------------------------- MODULE MCProducerLink ---------------------------
EXTENDS ProducerLink

Scenario(ks, ms, s, r, fl, fa) ==
    [kinds |-> ks, modes |-> ms, sessions |-> s, repairs |-> r,
     flips |-> fl, faults |-> fa]

\* Delivery and flushing with edits that may conflict, conflicts that are
\* repaired, and rejections that are abandoned, each with a fault.
MCDelivery ==
    {Scenario({"plain", "layered"}, BOOLEAN, 1, 0, 1, 1),
     Scenario({"layered"}, {TRUE}, 1, 1, 2, 1),
     Scenario({"layered", "invalid"}, {TRUE}, 2, 0, 1, 1)}
=============================================================================
