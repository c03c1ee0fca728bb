--------------------------- MODULE MCCreditLedger ---------------------------
(* Prices for CreditLedger: generations 1 and 2 of half a credit, 3 of one   *)
(* and a half, 4 without a price, 5 of three; a spend of one, a purchase of two. *)
EXTENDS CreditLedger, TLC

CONSTANTS spend, purchased

Price == 1 :> 1 @@ 2 :> 1 @@ 3 :> 3 @@ 4 :> 0 @@ 5 :> 6 @@ spend :> 1 @@ purchased :> 2
MCAmount == [x \in Gens \cup Spends \cup Purchases |-> Price[x]]
\* Everything belongs to one organisation, or the generations alternate.
OneOrg == [x \in Gens \cup Spends \cup Purchases |-> 1]
TwoOrgs == [x \in Gens \cup Spends \cup Purchases |-> IF x \in Gens THEN 1 + (x % 2) ELSE 1]
Symmetry == Permutations(Batches)
Two == [o \in Orgs |-> 2]
Nothing == [o \in Orgs |-> 0]
=============================================================================
