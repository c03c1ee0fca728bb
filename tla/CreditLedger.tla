---------------------------- MODULE CreditLedger ----------------------------
(***************************************************************************)
(* The credit ledger of the organisations and everything that writes it:   *)
(* the batch that charges generations, the tick that charges sandbox       *)
(* compute, website crawls (Spend) and purchases (internal/billing,        *)
(* internal/tasks).                                                        *)
(*                                                                         *)
(* The ledger is append only and is read through sums and through the      *)
(* existence of a reference; the variables are those sums.  A step is a    *)
(* lock taken with the reads that follow it, or a commit, for Postgres at  *)
(* READ COMMITTED shows a transaction's writes at its commit.  Money is    *)
(* counted in units, UnitsPerCredit of them to a credit.                   *)
(***************************************************************************)
EXTENDS Integers, FiniteSets, Functions

CONSTANTS Orgs,            \* ids of organisations
          Gens,            \* generations, numbered by created_at
          Batches,         \* runs of the generation batch
          SandboxTicks,    \* runs of the sandbox compute tick
          Spends,          \* website crawls, each the reference of a Spend
          Purchases,       \* credit purchases
          None,            \* nobody
          OrgOf,           \* the organisation of a generation, spend or purchase
          Amount,          \* its cost in units, or its amount in credits
          Welcome,         \* the welcome grant of an organisation
          UnitsPerCredit,  \* units of money in a credit
          Overdraft,       \* - CreditOverdraftFloor
          BatchSize,       \* billingBatchSize
          MaxAttempts,     \* maxInsufficientCreditAttempts
          MaxUsage,        \* bound on the units of sandbox compute of an organisation
          MaxCalls         \* bound on the calls of one Spend, and of one Verify

Ticks == Batches \cup SandboxTicks

ASSUME OrgsAssumption == Orgs \subseteq Nat
ASSUME GensAssumption == Gens \subseteq Nat /\ IsFiniteSet(Gens)
ASSUME NamesAssumption ==
    /\ Batches \cap SandboxTicks = {} /\ Ticks \cap Spends = {} /\ Spends \cap Purchases = {}
    /\ None \notin Ticks \cup Spends
ASSUME OrgOfAssumption == OrgOf \in [Gens \cup Spends \cup Purchases -> Orgs]
ASSUME AmountAssumption ==
    /\ Amount \in [Gens \cup Spends \cup Purchases -> Nat]
    /\ \A x \in Spends \cup Purchases : Amount[x] > 0
    /\ Welcome \in [Orgs -> Nat]
ASSUME NumbersAssumption ==
    /\ UnitsPerCredit \in Nat \ {0} /\ Overdraft \in Nat
    /\ MaxAttempts \in Nat \ {0} /\ MaxUsage \in Nat /\ MaxCalls \in Nat

VARIABLES balance,      \* SUM(amount) of an organisation
          llmDebited,   \* SUM(-amount) of its llm_tokens entries
          sandDebited,  \* SUM(-amount) of its sandbox_compute entries
          billedCost,   \* SUM(cost) of its generations billed without an error
          spent,        \* entries that carry the reference of a spend
          topups        \* entries that carry the reference of a purchase

VARIABLES row,          \* a generation: absent, unbilled, billed, or written off
          attempts,     \* its billing_attempts
          credits,      \* its credits_debited
          usage         \* units of compute in sandbox_turn_usage

VARIABLES lock,         \* who has the organisation's row FOR UPDATE
          phase,        \* a tick: idle, inside its transaction, done
          todo,         \* organisations it has not locked yet
          plan,         \* what it will debit
          rows,         \* a batch: the rows it has FOR UPDATE
          alloc,        \* the credits it gives them
          short,        \* the rows it found insufficient credits for
          capped,       \* observer: organisations a batch found short of its debit
          spender,      \* a Spend: idle, or between its checks and its commit
          calls         \* calls made of Spend, and of Verify

VARIABLES purchase,     \* credit_purchases.status
          creating,     \* Create waits for the payment provider
          paid,         \* the payment provider has the money
          verifying     \* Verify calls between the provider's answer and the transaction

sums  == <<balance, llmDebited, sandDebited, billedCost, spent, topups>>
work  == <<row, attempts, credits, usage>>
ticks == <<phase, todo, plan, rows, alloc, short, capped>>
deals == <<spender, calls>>
shop  == <<purchase, creating, paid, verifying>>
vars  == <<sums, work, lock, ticks, deals, shop>>

LowerOf(a, b) == IF a < b THEN a ELSE b
Cost(R) == SumFunctionOnSet(Amount, R)
Of(o, R) == {g \in R : OrgOf[g] = o}
\* CostUSDToCredits rounds up, a row's own credits are rounded down.
CostToCredits(c) == (c + UnitsPerCredit - 1) \div UnitsPerCredit
Whole(g) == Amount[g] \div UnitsPerCredit
Fraction(g) == Amount[g] % UnitsPerCredit
Headroom(o) == balance[o] + Overdraft

Init ==
    /\ balance = Welcome
    /\ llmDebited = [o \in Orgs |-> 0] /\ sandDebited = [o \in Orgs |-> 0]
    /\ billedCost = [o \in Orgs |-> 0]
    /\ spent = [s \in Spends |-> 0] /\ topups = [p \in Purchases |-> 0]
    /\ row = [g \in Gens |-> "absent"] /\ attempts = [g \in Gens |-> 0]
    /\ credits = [g \in Gens |-> 0] /\ usage = [o \in Orgs |-> 0]
    /\ lock = [o \in Orgs |-> None]
    /\ phase = [t \in Ticks |-> "idle"] /\ todo = [t \in Ticks |-> {}]
    /\ plan = [t \in Ticks |-> [o \in Orgs |-> 0]]
    /\ rows = [b \in Batches |-> {}] /\ short = [b \in Batches |-> {}]
    /\ alloc = [b \in Batches |-> [g \in Gens |-> 0]]
    /\ capped = {}
    /\ spender = [s \in Spends |-> "idle"]
    /\ calls = [x \in Spends \cup Purchases |-> 0]
    /\ purchase = [p \in Purchases |-> "none"] /\ creating = [p \in Purchases |-> FALSE]
    /\ paid = [p \in Purchases |-> FALSE] /\ verifying = [p \in Purchases |-> 0]

Free(o) == lock[o] = None
Unlock(t) == lock' = [o \in Orgs |-> IF lock[o] = t THEN None ELSE lock[o]]
-----------------------------------------------------------------------------
(* Usage.  A generation whose provider sent no usage is not selectable until *)
(* the reconciler has filled it in, so rows do not turn up in their order.   *)

Generate(g) ==
    /\ row[g] = "absent"
    /\ row' = [row EXCEPT ![g] = "unbilled"]
    /\ UNCHANGED <<sums, attempts, credits, usage, lock, ticks, deals, shop>>

Compute(o) ==
    /\ usage[o] < MaxUsage
    /\ usage' = [usage EXCEPT ![o] = @ + 1]
    /\ UNCHANGED <<sums, row, attempts, credits, lock, ticks, deals, shop>>
-----------------------------------------------------------------------------
(* The generation batch. *)

Unbilled == {g \in Gens : row[g] = "unbilled"}
Locked == UNION {rows[b] : b \in Batches}
\* The oldest of them, as many as a batch takes.
Oldest(R) == {g \in R : Cardinality({h \in R : h < g}) < BatchSize}

\* mutant: FOR UPDATE left out of the select
SelectAll(b) ==
    /\ phase[b] = "idle" /\ Unbilled # {}
    /\ LET R == Oldest(Unbilled) IN
       /\ rows' = [rows EXCEPT ![b] = R]
       /\ todo' = [todo EXCEPT ![b] = {OrgOf[g] : g \in {h \in R : Amount[h] > 0}}]
       /\ alloc' = [alloc EXCEPT ![b] = [g \in Gens |-> IF g \in R THEN Whole(g) ELSE 0]]
    /\ phase' = [phase EXCEPT ![b] = "open"]
    /\ UNCHANGED <<sums, work, lock, plan, short, capped, deals, shop>>

\* selectUnbilledBatch and computeRows.  Rows without a price leave the queue.
Select(b) ==
    /\ phase[b] = "idle" /\ Unbilled \ Locked # {}
    /\ LET R == Oldest(Unbilled \ Locked) IN
       /\ rows' = [rows EXCEPT ![b] = R]
       /\ todo' = [todo EXCEPT ![b] = {OrgOf[g] : g \in {h \in R : Amount[h] > 0}}]
       /\ alloc' = [alloc EXCEPT ![b] = [g \in Gens |-> IF g \in R THEN Whole(g) ELSE 0]]
    /\ phase' = [phase EXCEPT ![b] = "open"]
    /\ UNCHANGED <<sums, work, lock, plan, short, capped, deals, shop>>

\* mutants: organisations in any order; a lock that does not wait
LockAny(t, o) == o \in todo[t] /\ Free(o) /\ lock' = [lock EXCEPT ![o] = t]
LockShared(t, o) ==
    /\ o \in todo[t] /\ \A p \in todo[t] : o <= p
    /\ lock' = [lock EXCEPT ![o] = t]

\* The organisations are sorted, lockOrgForBilling waits for the row.
LockOrg(t, o) ==
    /\ o \in todo[t] /\ \A p \in todo[t] : o <= p
    /\ Free(o)
    /\ lock' = [lock EXCEPT ![o] = t]

\* mutant: each batch rounds its own cost up
DueOfBatch(o, R) == CostToCredits(Cost(R))
\* What the organisation owes for its generations and has not been debited.
Due(o, R) == CostToCredits(billedCost[o] + Cost(R)) - llmDebited[o]

\* mutant: the fractions are forgotten, every row gets its whole credits
AllocateWholes(R, debit, had) == [g \in R |-> LowerOf(Whole(g), debit)]

\* allocateCurrentRowCredits: whole credits first, the rows with the largest
\* fractions in front, then one more each while credits remain.  The loop stops
\* when they are gone, and later rows keep what they had.
Allocate(R, debit, had) ==
    LET Before(g) == {h \in R : \/ Fraction(h) > Fraction(g)
                                \/ Fraction(h) = Fraction(g) /\ h < g}
        Wholes(S) == SumFunctionOnSet([g \in R |-> Whole(g)], S)
        Left(g) == debit - Wholes(Before(g))
    IN [g \in R |->
          IF Left(g) <= 0 THEN had[g]
          ELSE LowerOf(Whole(g), Left(g))
               + IF Cardinality(Before(g)) < debit - Wholes(R) THEN 1 ELSE 0]

Give(b, a) == alloc' = [alloc EXCEPT ![b] = [g \in Gens |-> IF g \in DOMAIN a THEN a[g] ELSE @[g]]]

\* planCumulativeDebits for one organisation, under its lock.
Plan(b, o) ==
    LET R == Of(o, {g \in rows[b] : Amount[g] > 0})
        Nothing == [g \in R |-> 0]
        Partial(debit) == Allocate(R, debit, Nothing)
    IN
    \/ /\ Due(o, R) <= 0
       /\ UNCHANGED <<plan, alloc, short, capped>>
    \/ /\ Due(o, R) > 0 /\ Headroom(o) <= 0
       /\ Give(b, Nothing)
       /\ short' = [short EXCEPT ![b] = @ \cup R]
       /\ capped' = capped \cup {o}
       /\ UNCHANGED plan
    \/ /\ Due(o, R) > 0
       /\ \E debit \in 1..Headroom(o) :
             /\ debit = LowerOf(Due(o, R), Headroom(o))
             /\ plan' = [plan EXCEPT ![b][o] = debit]
             /\ capped' = IF debit < Due(o, R) THEN capped \cup {o} ELSE capped
             /\ IF debit < Due(o, R)
                THEN /\ Give(b, Partial(debit))
                     /\ short' = [short EXCEPT ![b] = @ \cup {g \in R : Partial(debit)[g] = 0}]
                ELSE /\ Give(b, Allocate(R, debit, alloc[b]))
                     /\ UNCHANGED short

PlanBatch(b, o) ==
    /\ phase[b] = "open"
    /\ LockOrg(b, o)
    /\ Plan(b, o)
    /\ todo' = [todo EXCEPT ![b] = @ \ {o}]
    /\ UNCHANGED <<sums, work, phase, rows, deals, shop>>

\* The transaction is over and its locks are gone.
Close(t) ==
    /\ phase' = [phase EXCEPT ![t] = "done"]
    /\ todo' = [todo EXCEPT ![t] = {}]
    /\ plan' = [plan EXCEPT ![t] = [o \in Orgs |-> 0]]
    /\ rows' = [b \in Batches |-> IF b = t THEN {} ELSE rows[b]]
    /\ short' = [b \in Batches |-> IF b = t THEN {} ELSE short[b]]
    /\ alloc' = [b \in Batches |-> IF b = t THEN [g \in Gens |-> 0] ELSE alloc[b]]
    /\ Unlock(t)
    /\ UNCHANGED capped

Exhausted(g) == attempts[g] + 1 >= MaxAttempts

\* The entries, the rows, and the commit.
CommitBatch(b) ==
    LET paidFor == rows[b] \ short[b] IN
    /\ phase[b] = "open" /\ todo[b] = {}
    /\ balance' = [o \in Orgs |-> balance[o] - plan[b][o]]
    /\ llmDebited' = [o \in Orgs |-> llmDebited[o] + plan[b][o]]
    /\ billedCost' = [o \in Orgs |-> billedCost[o] + Cost(Of(o, paidFor))]
    /\ row' = [g \in Gens |-> IF g \in paidFor THEN "billed"
                              ELSE IF g \in short[b] /\ Exhausted(g) THEN "written off"
                              ELSE row[g]]
    /\ attempts' = [g \in Gens |-> IF g \in short[b] THEN attempts[g] + 1 ELSE attempts[g]]
    /\ credits' = [g \in Gens |-> IF g \in rows[b] THEN alloc[b][g] ELSE credits[g]]
    /\ Close(b)
    /\ UNCHANGED <<sandDebited, spent, topups, usage, deals, shop>>

\* A statement fails, the four minutes are over, or the worker dies.
Rollback(t) ==
    /\ phase[t] = "open"
    /\ Close(t)
    /\ UNCHANGED <<sums, work, deals, shop>>
-----------------------------------------------------------------------------
(* The sandbox compute tick. *)

StartSandbox(t) ==
    /\ phase[t] = "idle"
    /\ \E o \in Orgs : usage[o] > 0
    /\ todo' = [todo EXCEPT ![t] = {o \in Orgs : usage[o] > 0}]
    /\ phase' = [phase EXCEPT ![t] = "open"]
    /\ UNCHANGED <<sums, work, lock, plan, rows, alloc, short, capped, deals, shop>>

PlanSandbox(t, o) ==
    LET due == usage[o] \div UnitsPerCredit - sandDebited[o] IN
    /\ phase[t] = "open"
    /\ LockOrg(t, o)
    /\ \/ (due <= 0 \/ Headroom(o) <= 0) /\ UNCHANGED plan
       \/ \E debit \in 1..Headroom(o) :
             due > 0 /\ debit = LowerOf(due, Headroom(o))
             /\ plan' = [plan EXCEPT ![t][o] = debit]
    /\ todo' = [todo EXCEPT ![t] = @ \ {o}]
    /\ UNCHANGED <<sums, work, phase, rows, alloc, short, capped, deals, shop>>

CommitSandbox(t) ==
    /\ phase[t] = "open" /\ todo[t] = {}
    /\ balance' = [o \in Orgs |-> balance[o] - plan[t][o]]
    /\ sandDebited' = [o \in Orgs |-> sandDebited[o] + plan[t][o]]
    /\ Close(t)
    /\ UNCHANGED <<llmDebited, billedCost, spent, topups, work, deals, shop>>
-----------------------------------------------------------------------------
(* Spend, for a website crawl. *)

\* mutant: the balance is read before the organisation is locked
SpendChecksUnlocked(s) ==
    /\ spender[s] = "idle" /\ calls[s] < MaxCalls
    /\ balance[OrgOf[s]] >= Amount[s] /\ spent[s] = 0
    /\ spender' = [spender EXCEPT ![s] = "write"]
    /\ calls' = [calls EXCEPT ![s] = @ + 1]
    /\ UNCHANGED <<sums, work, lock, ticks, shop>>

\* mutant: the reference is not looked up
SpendChecksBalance(s) ==
    /\ spender[s] = "idle" /\ calls[s] < MaxCalls
    /\ Free(OrgOf[s]) /\ balance[OrgOf[s]] >= Amount[s]
    /\ lock' = [lock EXCEPT ![OrgOf[s]] = s]
    /\ spender' = [spender EXCEPT ![s] = "write"]
    /\ calls' = [calls EXCEPT ![s] = @ + 1]
    /\ UNCHANGED <<sums, work, ticks, shop>>

\* SpendWithTx up to its INSERT: lock, balance, reference.
SpendChecks(s) ==
    LET o == OrgOf[s] IN
    /\ spender[s] = "idle" /\ calls[s] < MaxCalls
    /\ Free(o)
    /\ calls' = [calls EXCEPT ![s] = @ + 1]
    /\ \/ (balance[o] < Amount[s] \/ spent[s] > 0) /\ UNCHANGED <<lock, spender>>
       \/ /\ balance[o] >= Amount[s] /\ spent[s] = 0
          /\ lock' = [lock EXCEPT ![o] = s]
          /\ spender' = [spender EXCEPT ![s] = "write"]
    /\ UNCHANGED <<sums, work, ticks, shop>>

SpendCommits(s) ==
    /\ spender[s] = "write"
    /\ spender' = [spender EXCEPT ![s] = "idle"]
    /\ spent' = [spent EXCEPT ![s] = @ + 1]
    /\ balance' = [balance EXCEPT ![OrgOf[s]] = @ - Amount[s]]
    /\ Unlock(s)
    /\ UNCHANGED <<llmDebited, sandDebited, billedCost, topups, work, ticks, calls, shop>>

SpendFails(s) ==
    /\ spender[s] = "write"
    /\ spender' = [spender EXCEPT ![s] = "idle"]
    /\ Unlock(s)
    /\ UNCHANGED <<sums, work, ticks, calls, shop>>
-----------------------------------------------------------------------------
(* Purchases. *)

\* Create up to the call of the payment provider; a repeated key finds the row.
Create(p) ==
    /\ purchase[p] = "none"
    /\ purchase' = [purchase EXCEPT ![p] = "pending"]
    /\ creating' = [creating EXCEPT ![p] = TRUE]
    /\ UNCHANGED <<sums, work, lock, ticks, deals, paid, verifying>>

\* The provider charges the saved card, or the customer pays.
Pay(p) ==
    /\ purchase[p] # "none" /\ ~paid[p]
    /\ paid' = [paid EXCEPT ![p] = TRUE]
    /\ UNCHANGED <<sums, work, lock, ticks, deals, purchase, creating, verifying>>

\* The provider answers, or Create takes it for failed: markFailed looks at
\* nothing but the id.
Created(p) ==
    /\ creating[p]
    /\ creating' = [creating EXCEPT ![p] = FALSE]
    /\ \/ UNCHANGED purchase
       \/ purchase' = [purchase EXCEPT ![p] = "failed"]
    /\ UNCHANGED <<sums, work, lock, ticks, deals, paid, verifying>>

\* Verify up to the transaction: not credited yet, and the deposit is paid.
VerifyResolves(p) ==
    /\ purchase[p] \notin {"none", "credited"} /\ paid[p]
    /\ calls[p] < MaxCalls
    /\ calls' = [calls EXCEPT ![p] = @ + 1]
    /\ verifying' = [verifying EXCEPT ![p] = @ + 1]
    /\ UNCHANGED <<sums, work, lock, ticks, spender, purchase, creating, paid>>

\* mutant: a grant without its reference
GrantAgain(p) ==
    /\ topups' = [topups EXCEPT ![p] = @ + 1]
    /\ balance' = [balance EXCEPT ![OrgOf[p]] = @ + Amount[p]]

\* GrantWithTx: the reference makes it a no-op the second time.
Grant(p) ==
    IF topups[p] > 0 THEN UNCHANGED <<topups, balance>>
    ELSE /\ topups' = [topups EXCEPT ![p] = @ + 1]
         /\ balance' = [balance EXCEPT ![OrgOf[p]] = @ + Amount[p]]

\* The transaction of Verify, under the lock of the purchase; it may fail.
VerifyCredits(p) ==
    /\ verifying[p] > 0
    /\ verifying' = [verifying EXCEPT ![p] = @ - 1]
    /\ \/ UNCHANGED <<purchase, topups, balance>>
       \/ /\ purchase[p] # "credited"
          /\ Grant(p)
          /\ purchase' = [purchase EXCEPT ![p] = "credited"]
    /\ UNCHANGED <<llmDebited, sandDebited, billedCost, spent, work, lock, ticks, deals,
                   creating, paid>>
-----------------------------------------------------------------------------
BatchStep(b) == Select(b) \/ (\E o \in Orgs : PlanBatch(b, o)) \/ CommitBatch(b)
SandboxStep(t) == StartSandbox(t) \/ (\E o \in Orgs : PlanSandbox(t, o)) \/ CommitSandbox(t)
SpendStep(s) == SpendChecks(s) \/ SpendCommits(s)

Next ==
    \/ \E g \in Gens : Generate(g)
    \/ \E o \in Orgs : Compute(o)
    \/ \E b \in Batches : BatchStep(b)
    \/ \E t \in SandboxTicks : SandboxStep(t)
    \/ \E t \in Ticks : Rollback(t)
    \/ \E s \in Spends : SpendStep(s) \/ SpendFails(s)
    \/ \E p \in Purchases :
          Create(p) \/ Pay(p) \/ Created(p) \/ VerifyResolves(p) \/ VerifyCredits(p)

\* The ticks are periodic and a transaction goes on to its end; Postgres hands a
\* row lock to somebody who waits for it.
Fairness ==
    /\ \A b \in Batches : SF_vars(\E o \in Orgs : PlanBatch(b, o)) /\ WF_vars(CommitBatch(b))
    /\ \A t \in SandboxTicks :
          SF_vars(\E o \in Orgs : PlanSandbox(t, o)) /\ WF_vars(CommitSandbox(t))
    /\ \A s \in Spends : WF_vars(SpendCommits(s))

Spec == Init /\ [][Next]_vars
FairSpec == Spec /\ Fairness
-----------------------------------------------------------------------------
TypeOK ==
    /\ balance \in [Orgs -> Int]
    /\ llmDebited \in [Orgs -> Nat] /\ sandDebited \in [Orgs -> Nat]
    /\ billedCost \in [Orgs -> Nat]
    /\ spent \in [Spends -> 0..1] /\ topups \in [Purchases -> 0..1]
    /\ row \in [Gens -> {"absent", "unbilled", "billed", "written off"}]
    /\ attempts \in [Gens -> 0..MaxAttempts]
    /\ credits \in [Gens -> Nat] /\ usage \in [Orgs -> 0..MaxUsage]
    /\ lock \in [Orgs -> Ticks \cup Spends \cup {None}]
    /\ phase \in [Ticks -> {"idle", "open", "done"}]
    /\ todo \in [Ticks -> SUBSET Orgs] /\ plan \in [Ticks -> [Orgs -> Nat]]
    /\ rows \in [Batches -> SUBSET Gens] /\ short \in [Batches -> SUBSET Gens]
    /\ alloc \in [Batches -> [Gens -> Nat]] /\ capped \subseteq Orgs
    /\ spender \in [Spends -> {"idle", "write"}]
    /\ calls \in [Spends \cup Purchases -> 0..MaxCalls]
    /\ purchase \in [Purchases -> {"none", "pending", "failed", "credited"}]
    /\ creating \in [Purchases -> BOOLEAN] /\ paid \in [Purchases -> BOOLEAN]
    /\ verifying \in [Purchases -> 0..MaxCalls]

\* "the batch debiter never drives it below" (pricing.go:15-18): no interleaving
\* of batches, sandbox ticks and spends takes a balance below the floor.
FloorKept == \A o \in Orgs : balance[o] >= - Overdraft

\* "we never oversubscribe the balance" (credits.go:107-109): the money a Spend
\* has checked is still there when it commits.
SpendCovered ==
    [][\A s \in Spends : spent'[s] > spent[s] => balance'[OrgOf[s]] >= 0]_vars

\* "split worker ticks cannot change the final credits charged for the same set
\* of generations" (billing_batch_process.go:67-69): as long as batches find the
\* credits they are due, what was debited is the cost of all billed rows, rounded
\* up once.
Generated(o) == Of(o, {g \in Gens : row[g] # "absent"})
SplitTicksAgree ==
    \A o \in Orgs :
        o \notin capped =>
            llmDebited[o] = CostToCredits(Cost(Of(o, {g \in Gens : row[g] = "billed"})))

\* Nobody pays for more than was generated, whatever was short, rolled back,
\* retried or written off on the way.
NeverOvercharged == \A o \in Orgs : llmDebited[o] <= CostToCredits(Cost(Generated(o)))

\* The credits written on the rows of an organisation add up to its entries, again
\* as long as its debits were taken whole: what a catch-up for earlier fractions
\* costs goes to the rows of the batch that pays it (billing_batch_debits.go:59-70).
RowsMatchEntries ==
    \A o \in Orgs :
        o \notin capped =>
            SumFunctionOnSet(credits, Of(o, Gens)) = llmDebited[o]

\* A purchase is granted once, and credited only with its grant, although a late
\* markFailed may set a credited purchase to failed and let Verify in again.
GrantedOnce ==
    \A p \in Purchases : topups[p] <= 1 /\ (purchase[p] = "credited" => topups[p] = 1)

\* The ledger keeps the promise of Accounts to every organisation, whatever
\* transactions of batches, ticks, spends and purchases interleave: every
\* reference once, no spend without its credits, no debit below the floor, and no
\* credit that no entry accounts for.
Booked == {s \in Spends : spent[s] > 0} \cup {p \in Purchases : topups[p] > 0}
Charged == [o \in Orgs |-> llmDebited[o] + sandDebited[o]]
Account == INSTANCE Accounts WITH booked <- Booked, charged <- Charged
ImplementsAccounts == Account!Spec

\* No two transactions wait for each other's organisations.
TickEnds == \A t \in Ticks : phase[t] = "open" ~> phase[t] = "done"
=============================================================================
