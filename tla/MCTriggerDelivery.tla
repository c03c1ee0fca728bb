-------------------------- MODULE MCTriggerDelivery --------------------------
(* TriggerDelivery for TLC: a review that is redelivered and also routed, a second review
   of the pull request, and a label, which has no stable key. *)
EXTENDS TriggerDelivery, TLC

CONSTANTS first, second, label,     \* events
          d1, d2, d3, d4, d5        \* tasks

MCEvents == {first, second, label}
MCStable == {first, second}
MCReviews == {first, second}
MCSuites == {}
MCHeadOf == <<>>
MCDeliveries == {d1, d2, d3, d4, d5}
MCEventOf == d1 :> first @@ d2 :> first @@ d3 :> first @@ d4 :> second @@ d5 :> label
MCClaimOf == d1 :> <<first, 1>> @@ d2 :> <<first, 1>> @@ d3 :> <<first, 2>>
             @@ d4 :> <<second, 1>> @@ d5 :> <<label, 1>>
MCRouted == {d3}
=============================================================================
