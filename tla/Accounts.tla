------------------------------ MODULE Accounts ------------------------------
(***************************************************************************)
(* What the credit ledger promises an organisation: its balance changes by *)
(* entries only; an entry that carries a reference is made once; a spend   *)
(* never takes the balance below zero, and the periodic debiters never     *)
(* below the overdraft floor.  (internal/billing/credits.go, pricing.go)   *)
(***************************************************************************)
EXTENDS Integers

CONSTANTS Orgs,       \* organisations
          Spends,     \* references of spends
          Purchases,  \* references of grants
          OrgOf,      \* whose they are
          Amount,     \* how many credits
          Welcome,    \* the first grant of an organisation
          Overdraft   \* how far below zero the debiters may go

VARIABLES balance,    \* of each organisation
          charged,    \* what the debiters took from it
          booked      \* the references that have their entry

Init ==
    /\ balance = Welcome
    /\ charged = [o \in Orgs |-> 0]
    /\ booked = {}

Book(x, amount) ==
    /\ x \notin booked
    /\ booked' = booked \cup {x}
    /\ balance' = [balance EXCEPT ![OrgOf[x]] = @ + amount]
    /\ UNCHANGED charged

Grant(p) == Book(p, Amount[p])

Spend(s) == balance[OrgOf[s]] >= Amount[s] /\ Book(s, - Amount[s])

\* A debiter charges any number of organisations at once.
Charge ==
    /\ charged' \in [Orgs -> Nat]
    /\ \A o \in Orgs :
          \/ charged'[o] = charged[o]
          \/ charged[o] < charged'[o] /\ charged'[o] - charged[o] <= balance[o] + Overdraft
    /\ balance' = [o \in Orgs |-> balance[o] - (charged'[o] - charged[o])]
    /\ UNCHANGED booked

Next == (\E p \in Purchases : Grant(p)) \/ (\E s \in Spends : Spend(s)) \/ Charge

Spec == Init /\ [][Next]_<<balance, charged, booked>>
=============================================================================
