------------------------- MODULE CreditLedgerProofs -------------------------
(***************************************************************************)
(* The credit ledger for any number of organisations, generations, ticks,  *)
(* spends and purchases, in three inductive invariants.                    *)
(*                                                                         *)
(* IInv is about balances and locks: a debit that is planned and not       *)
(* committed belongs to the transaction that has the organisation's row,   *)
(* and everything else can only raise the balance under it.  TInv is about *)
(* types, the rows a batch holds, and the single entry of a reference.     *)
(* LInv is about the books: what a batch plans is what is due, and is      *)
(* handed out to the rows, which needs facts on finite sums, on rounding   *)
(* and on Allocate; they come first.  With IInv and TInv every step of the *)
(* ledger is one of Accounts.                                              *)
(***************************************************************************)
EXTENDS CreditLedger, FiniteSetTheorems, TLAPS

\* What the argument needs of the types.
Shapes ==
    /\ balance \in [Orgs -> Int]
    /\ lock \in [Orgs -> Ticks \cup Spends \cup {None}]
    /\ plan \in [Ticks -> [Orgs -> Nat]]
    /\ todo \in [Ticks -> SUBSET Orgs]
    /\ spender \in [Spends -> {"idle", "write"}]

\* A planned debit is under its tick's lock, and the headroom for it is there.
PlannedUnderLock ==
    \A t \in Ticks, o \in Orgs :
        plan[t][o] # 0 => lock[o] = t /\ plan[t][o] <= balance[o] + Overdraft

\* A spend between its checks and its commit has the lock and the credits.
SpendUnderLock ==
    \A s \in Spends :
        spender[s] = "write" => lock[OrgOf[s]] = s /\ balance[OrgOf[s]] >= Amount[s]

IInv == Shapes /\ FloorKept /\ PlannedUnderLock /\ SpendUnderLock

\* The numbers of the constants, as the leaves below use them.
LEMMA Numbers ==
    /\ Overdraft \in Nat
    /\ \A o \in Orgs : Welcome[o] \in Nat
    /\ \A s \in Spends : OrgOf[s] \in Orgs /\ Amount[s] \in Nat /\ Amount[s] > 0
    /\ \A p \in Purchases : OrgOf[p] \in Orgs /\ Amount[p] \in Nat
    /\ Ticks \cap Spends = {} /\ None \notin Ticks \cup Spends
BY NamesAssumption, OrgOfAssumption, AmountAssumption, NumbersAssumption DEF Ticks

\* No debit is planned at the start.
LEMMA InitInv == Init => IInv
<1> SUFFICES ASSUME Init PROVE IInv
  OBVIOUS
<1>1. Shapes
  BY AmountAssumption DEF Init, Shapes
<1>2. FloorKept
  BY Numbers DEF Init, FloorKept
<1>3. PlannedUnderLock
  BY DEF Init, PlannedUnderLock
<1>4. SpendUnderLock
  BY DEF Init, SpendUnderLock
<1>5. QED
  BY <1>1, <1>2, <1>3, <1>4 DEF IInv

\* A step that keeps the balances, the locks and the plans keeps the invariant.
LEMMA Idle ==
    ASSUME IInv, UNCHANGED <<balance, lock, plan, todo, spender>>
    PROVE  IInv'
BY DEF IInv, Shapes, FloorKept, PlannedUnderLock, SpendUnderLock

\* A tick that takes a free lock plans at most the headroom it finds there.
LEMMA TakesLock ==
    ASSUME IInv, NEW t \in Ticks, NEW o \in Orgs,
           Free(o), lock' = [lock EXCEPT ![o] = t],
           \/ plan' = plan
           \/ \E debit \in 1..Headroom(o) : plan' = [plan EXCEPT ![t][o] = debit],
           todo' = [todo EXCEPT ![t] = @ \ {o}],
           UNCHANGED <<balance, spender>>
    PROVE  IInv'
<1> USE DEF IInv
<1>1. /\ lock[o] = None /\ balance[o] \in Int
      /\ \A u \in Ticks : plan[u][o] = 0
  BY Numbers DEF Free, Shapes, PlannedUnderLock
<1>2. /\ plan' \in [Ticks -> [Orgs -> Nat]]
      /\ plan'[t][o] # 0 => plan'[t][o] <= balance[o] + Overdraft
      /\ \A u \in Ticks, q \in Orgs : u # t \/ q # o => plan'[u][q] = plan[u][q]
  <2>1. CASE plan' = plan
    BY <1>1, <2>1 DEF Shapes
  <2>2. ASSUME NEW debit \in 1..Headroom(o), plan' = [plan EXCEPT ![t][o] = debit]
        PROVE  /\ plan' \in [Ticks -> [Orgs -> Nat]]
               /\ plan'[t][o] # 0 => plan'[t][o] <= balance[o] + Overdraft
               /\ \A u \in Ticks, q \in Orgs : u # t \/ q # o => plan'[u][q] = plan[u][q]
    <3>1. debit \in Nat /\ debit <= balance[o] + Overdraft
      BY <1>1, Numbers DEF Headroom
    <3>2. plan'[t][o] = debit
      BY <2>2 DEF Shapes
    <3>3. QED
      BY <2>2, <3>1, <3>2 DEF Shapes
  <2>3. QED
    BY <2>1, <2>2
<1>3. Shapes'
  BY <1>2 DEF Shapes
<1>4. FloorKept'
  BY DEF FloorKept
<1>5. PlannedUnderLock'
  <2> SUFFICES ASSUME NEW u \in Ticks, NEW q \in Orgs, plan'[u][q] # 0
               PROVE  lock'[q] = u /\ plan'[u][q] <= balance'[q] + Overdraft
    BY DEF PlannedUnderLock
  <2>1. CASE u = t /\ q = o
    BY <1>2, <2>1 DEF Shapes
  <2>2. CASE u # t \/ q # o
    BY <1>1, <1>2, <2>2 DEF Shapes, PlannedUnderLock
  <2>3. QED
    BY <2>1, <2>2
<1>6. SpendUnderLock'
  BY <1>1, Numbers DEF SpendUnderLock, Shapes
<1>7. QED
  BY <1>3, <1>4, <1>5, <1>6

\* A tick that closes debits what it had planned, or nothing.
LEMMA Closes ==
    ASSUME IInv, NEW t \in Ticks, Close(t), UNCHANGED spender,
           \/ balance' = balance
           \/ balance' = [o \in Orgs |-> balance[o] - plan[t][o]]
    PROVE  IInv'
<1> USE DEF IInv
<1>1. /\ \A o \in Orgs : balance'[o] \in Int /\ lock'[o] = IF lock[o] = t THEN None ELSE lock[o]
      /\ balance' \in [Orgs -> Int]
      /\ plan' = [plan EXCEPT ![t] = [o \in Orgs |-> 0]]
      /\ lock' \in [Orgs -> Ticks \cup Spends \cup {None}]
      /\ todo' \in [Ticks -> SUBSET Orgs]
  BY DEF Close, Unlock, Shapes
<1>2. \A o \in Orgs : lock[o] # t => balance'[o] = balance[o]
  BY DEF PlannedUnderLock, Shapes
<1>3. Shapes'
  BY <1>1 DEF Shapes
<1>4. FloorKept'
  <2> SUFFICES ASSUME NEW o \in Orgs PROVE balance'[o] >= - Overdraft
    BY DEF FloorKept
  <2>1. balance[o] \in Int /\ plan[t][o] \in Nat /\ balance[o] >= - Overdraft
    BY DEF Shapes, FloorKept
  <2>2. plan[t][o] # 0 => plan[t][o] <= balance[o] + Overdraft
    BY DEF PlannedUnderLock
  <2>3. QED
    BY <2>1, <2>2, Numbers
<1>5. PlannedUnderLock'
  <2> SUFFICES ASSUME NEW u \in Ticks, NEW q \in Orgs, plan'[u][q] # 0
               PROVE  lock'[q] = u /\ plan'[u][q] <= balance'[q] + Overdraft
    BY DEF PlannedUnderLock
  <2>1. u # t /\ plan'[u][q] = plan[u][q]
    BY <1>1 DEF Shapes
  <2>2. lock[q] = u /\ plan[u][q] <= balance[q] + Overdraft
    BY <2>1 DEF PlannedUnderLock
  <2>3. QED
    BY <1>1, <1>2, <2>1, <2>2
<1>6. SpendUnderLock'
  <2> SUFFICES ASSUME NEW s \in Spends, spender'[s] = "write"
               PROVE  lock'[OrgOf[s]] = s /\ balance'[OrgOf[s]] >= Amount[s]
    BY DEF SpendUnderLock
  <2>1. lock[OrgOf[s]] = s /\ balance[OrgOf[s]] >= Amount[s] /\ s # t /\ OrgOf[s] \in Orgs
    BY Numbers DEF SpendUnderLock
  <2>2. QED
    BY <1>1, <1>2, <2>1
<1>7. QED
  BY <1>3, <1>4, <1>5, <1>6

\* A spend locks an organisation that has the credits.
LEMMA SpendLocks ==
    ASSUME IInv, NEW s \in Spends, Free(OrgOf[s]), balance[OrgOf[s]] >= Amount[s],
           lock' = [lock EXCEPT ![OrgOf[s]] = s],
           spender' = [spender EXCEPT ![s] = "write"],
           UNCHANGED <<balance, plan, todo>>
    PROVE  IInv'
<1> USE DEF IInv
<1>1. OrgOf[s] \in Orgs /\ lock[OrgOf[s]] = None
  BY Numbers DEF Free
<1>2. Shapes' /\ FloorKept'
  BY <1>1 DEF Shapes, FloorKept
<1>3. PlannedUnderLock'
  BY <1>1, Numbers DEF PlannedUnderLock, Shapes
<1>4. SpendUnderLock'
  <2> SUFFICES ASSUME NEW r \in Spends, spender'[r] = "write"
               PROVE  lock'[OrgOf[r]] = r /\ balance'[OrgOf[r]] >= Amount[r]
    BY DEF SpendUnderLock
  <2>1. CASE r = s
    BY <1>1, <2>1 DEF Shapes
  <2>2. CASE r # s
    <3>1. lock[OrgOf[r]] = r /\ balance[OrgOf[r]] >= Amount[r]
      BY <2>2 DEF SpendUnderLock, Shapes
    <3>2. OrgOf[r] # OrgOf[s]
      BY <1>1, <3>1, Numbers
    <3>3. QED
      BY <3>1, <3>2, Numbers DEF Shapes
  <2>3. QED
    BY <2>1, <2>2
<1>5. QED
  BY <1>2, <1>3, <1>4

\* A spend that ends takes its amount, or nothing, and gives the lock back.
LEMMA SpendEnds ==
    ASSUME IInv, NEW s \in Spends, spender[s] = "write", Unlock(s),
           spender' = [spender EXCEPT ![s] = "idle"],
           UNCHANGED <<plan, todo>>,
           \/ balance' = balance
           \/ balance' = [balance EXCEPT ![OrgOf[s]] = @ - Amount[s]]
    PROVE  IInv'
<1> USE DEF IInv
<1>1. /\ OrgOf[s] \in Orgs /\ lock[OrgOf[s]] = s /\ Amount[s] \in Nat
      /\ balance[OrgOf[s]] \in Int /\ balance[OrgOf[s]] >= Amount[s]
  BY Numbers DEF SpendUnderLock, Shapes
<1>2. /\ balance' \in [Orgs -> Int]
      /\ \A o \in Orgs : o # OrgOf[s] => balance'[o] = balance[o]
      /\ balance'[OrgOf[s]] >= 0
  BY <1>1 DEF Shapes
<1>3. \A o \in Orgs : lock'[o] = IF lock[o] = s THEN None ELSE lock[o]
  BY DEF Unlock
<1>4. Shapes'
  BY <1>2 DEF Shapes, Unlock
<1>5. FloorKept'
  BY <1>1, <1>2, Numbers DEF FloorKept, Shapes
<1>6. PlannedUnderLock'
  <2> SUFFICES ASSUME NEW u \in Ticks, NEW q \in Orgs, plan[u][q] # 0
               PROVE  lock'[q] = u /\ plan[u][q] <= balance'[q] + Overdraft
    BY DEF PlannedUnderLock
  <2>1. lock[q] = u /\ plan[u][q] <= balance[q] + Overdraft /\ u # s
    BY Numbers DEF PlannedUnderLock
  <2>2. QED
    BY <1>1, <1>2, <1>3, <2>1
<1>7. SpendUnderLock'
  <2> SUFFICES ASSUME NEW r \in Spends, spender'[r] = "write"
               PROVE  lock'[OrgOf[r]] = r /\ balance'[OrgOf[r]] >= Amount[r]
    BY DEF SpendUnderLock
  <2>1. r # s /\ spender[r] = "write"
    BY DEF Shapes
  <2>2. lock[OrgOf[r]] = r /\ balance[OrgOf[r]] >= Amount[r] /\ OrgOf[r] \in Orgs
    BY <2>1, Numbers DEF SpendUnderLock
  <2>3. QED
    BY <1>1, <1>2, <1>3, <2>1, <2>2
<1>8. QED
  BY <1>4, <1>5, <1>6, <1>7

\* A grant needs no lock: it only raises the balance under the others.
LEMMA Grants ==
    ASSUME IInv, NEW p \in Purchases, UNCHANGED <<lock, plan, todo, spender>>,
           balance' = [balance EXCEPT ![OrgOf[p]] = @ + Amount[p]]
    PROVE  IInv'
<1> USE DEF IInv
<1>1. \A o \in Orgs : balance[o] \in Int /\ balance'[o] \in Int /\ balance'[o] >= balance[o]
  BY Numbers DEF Shapes
<1>2. Shapes'
  BY <1>1 DEF Shapes
<1>3. FloorKept'
  BY <1>1, Numbers DEF FloorKept
<1>4. PlannedUnderLock'
  <2> SUFFICES ASSUME NEW u \in Ticks, NEW q \in Orgs, plan[u][q] # 0
               PROVE  lock[q] = u /\ plan[u][q] <= balance'[q] + Overdraft
    BY DEF PlannedUnderLock
  <2>1. lock[q] = u /\ plan[u][q] <= balance[q] + Overdraft /\ plan[u][q] \in Nat
    BY DEF PlannedUnderLock, Shapes
  <2>2. QED
    BY <1>1, <2>1, Numbers
<1>5. SpendUnderLock'
  <2> SUFFICES ASSUME NEW r \in Spends, spender[r] = "write"
               PROVE  lock[OrgOf[r]] = r /\ balance'[OrgOf[r]] >= Amount[r]
    BY DEF SpendUnderLock
  <2>1. lock[OrgOf[r]] = r /\ balance[OrgOf[r]] >= Amount[r]
    BY DEF SpendUnderLock
  <2>2. QED
    BY <1>1, <2>1, Numbers
<1>6. QED
  BY <1>2, <1>3, <1>4, <1>5

\* Every step keeps IInv.
LEMMA Inductive == IInv /\ [Next]_vars => IInv'
<1> SUFFICES ASSUME IInv, [Next]_vars PROVE IInv'
  OBVIOUS
<1>1. CASE UNCHANGED vars
  BY <1>1, Idle DEF vars, sums, ticks, deals
<1>2. ASSUME NEW g \in Gens, Generate(g) PROVE IInv'
  BY <1>2, Idle DEF Generate, sums, ticks, deals
<1>3. ASSUME NEW o \in Orgs, Compute(o) PROVE IInv'
  BY <1>3, Idle DEF Compute, sums, ticks, deals
<1>4. ASSUME NEW b \in Batches, BatchStep(b) PROVE IInv'
  <2>0. b \in Ticks
    BY DEF Ticks
  <2>1. CASE Select(b)
    <3>1. todo' \in [Ticks -> SUBSET Orgs]
      <4> DEFINE R == Oldest(Unbilled \ Locked)
      <4>1. {OrgOf[g] : g \in {h \in R : Amount[h] > 0}} \in SUBSET Orgs
        BY OrgOfAssumption DEF Oldest, Unbilled
      <4>2. QED
        BY <2>0, <2>1, <4>1 DEF Select, IInv, Shapes
    <3>2. UNCHANGED <<balance, lock, plan, spender>>
      BY <2>1 DEF Select, sums, deals
    <3>3. QED
      BY <3>1, <3>2 DEF IInv, Shapes, FloorKept, PlannedUnderLock, SpendUnderLock
  <2>2. ASSUME NEW o \in Orgs, PlanBatch(b, o) PROVE IInv'
    <3>1. \/ plan' = plan
          \/ \E debit \in 1..Headroom(o) : plan' = [plan EXCEPT ![b][o] = debit]
      BY <2>2 DEF PlanBatch, Plan
    <3>2. /\ Free(o) /\ lock' = [lock EXCEPT ![o] = b]
          /\ todo' = [todo EXCEPT ![b] = @ \ {o}]
          /\ UNCHANGED <<balance, spender>>
      BY <2>2 DEF PlanBatch, LockOrg, sums, deals
    <3>3. QED
      BY <2>0, <3>1, <3>2, TakesLock
  <2>3. CASE CommitBatch(b)
    BY <2>0, <2>3, Closes DEF CommitBatch, deals
  <2>4. QED
    BY <1>4, <2>1, <2>2, <2>3 DEF BatchStep
<1>5. ASSUME NEW t \in SandboxTicks, SandboxStep(t) PROVE IInv'
  <2>0. t \in Ticks
    BY DEF Ticks
  <2>1. CASE StartSandbox(t)
    <3>1. todo' \in [Ticks -> SUBSET Orgs] /\ UNCHANGED <<balance, lock, plan, spender>>
      BY <2>0, <2>1 DEF StartSandbox, IInv, Shapes, sums, deals
    <3>2. QED
      BY <3>1 DEF IInv, Shapes, FloorKept, PlannedUnderLock, SpendUnderLock
  <2>2. ASSUME NEW o \in Orgs, PlanSandbox(t, o) PROVE IInv'
    <3>1. \/ plan' = plan
          \/ \E debit \in 1..Headroom(o) : plan' = [plan EXCEPT ![t][o] = debit]
      BY <2>2 DEF PlanSandbox
    <3>2. /\ Free(o) /\ lock' = [lock EXCEPT ![o] = t]
          /\ todo' = [todo EXCEPT ![t] = @ \ {o}]
          /\ UNCHANGED <<balance, spender>>
      BY <2>2 DEF PlanSandbox, LockOrg, sums, deals
    <3>3. QED
      BY <2>0, <3>1, <3>2, TakesLock
  <2>3. CASE CommitSandbox(t)
    BY <2>0, <2>3, Closes DEF CommitSandbox, deals
  <2>4. QED
    BY <1>5, <2>1, <2>2, <2>3 DEF SandboxStep
<1>6. ASSUME NEW t \in Ticks, Rollback(t) PROVE IInv'
  BY <1>6, Closes DEF Rollback, sums, deals
<1>7. ASSUME NEW s \in Spends, SpendStep(s) \/ SpendFails(s) PROVE IInv'
  <2>1. CASE SpendChecks(s)
    <3>1. UNCHANGED <<balance, plan, todo>>
      BY <2>1 DEF SpendChecks, sums, ticks
    <3>2. CASE UNCHANGED <<lock, spender>>
      BY <3>1, <3>2, Idle
    <3>3. CASE ~ UNCHANGED <<lock, spender>>
      BY <2>1, <3>1, <3>3, SpendLocks DEF SpendChecks
    <3>4. QED
      BY <3>2, <3>3
  <2>2. CASE SpendCommits(s)
    BY <2>2, SpendEnds DEF SpendCommits, ticks
  <2>3. CASE SpendFails(s)
    BY <2>3, SpendEnds DEF SpendFails, ticks, sums
  <2>4. QED
    BY <1>7, <2>1, <2>2, <2>3 DEF SpendStep
<1>8. ASSUME NEW p \in Purchases,
             Create(p) \/ Pay(p) \/ Created(p) \/ VerifyResolves(p) \/ VerifyCredits(p)
      PROVE  IInv'
  <2>1. UNCHANGED <<lock, plan, todo, spender>>
    BY <1>8 DEF Create, Pay, Created, VerifyResolves, VerifyCredits, ticks, deals
  <2>2. CASE VerifyCredits(p)
    <3>1. \/ balance' = balance
          \/ balance' = [balance EXCEPT ![OrgOf[p]] = @ + Amount[p]]
      BY <2>2 DEF VerifyCredits, Grant
    <3>2. QED
      BY <2>1, <3>1, Idle, Grants
  <2>3. CASE ~ VerifyCredits(p)
    <3>1. balance' = balance
      BY <1>8, <2>3 DEF Create, Pay, Created, VerifyResolves, sums
    <3>2. QED
      BY <2>1, <3>1, Idle
  <2>4. QED
    BY <2>2, <2>3
<1>9. QED
  BY <1>1, <1>2, <1>3, <1>4, <1>5, <1>6, <1>7, <1>8 DEF Next

\* No interleaving of batches, sandbox ticks, spends and purchases drives a
\* balance below the overdraft floor (pricing.go:15-18).
THEOREM FloorTheorem == Spec => []FloorKept
<1>1. IInv => FloorKept
  BY DEF IInv
<1>2. QED
  BY InitInv, Inductive, <1>1, PTL DEF Spec

\* Only a commit of Spend writes an entry with the reference of a spend.
LEMMA SpentStep == [Next]_vars => spent' = spent \/ \E s \in Spends : SpendCommits(s)
BY DEF Next, vars, sums, Generate, Compute, BatchStep, Select, PlanBatch, CommitBatch,
       SandboxStep, StartSandbox, PlanSandbox, CommitSandbox, Rollback, SpendStep,
       SpendChecks, SpendFails, Create, Pay, Created, VerifyResolves, VerifyCredits

SpentType == spent \in [Spends -> Nat]

\* A spend that commits leaves a balance that is not negative: what it checked
\* under the lock is still true (credits.go:107-109).
THEOREM SpendTheorem == Spec => SpendCovered
<1> DEFINE Step == \A s \in Spends : spent'[s] > spent[s] => balance'[OrgOf[s]] >= 0
<1>1. Init => SpentType
  BY DEF Init, SpentType
<1>2. SpentType /\ [Next]_vars => SpentType'
  <2>1. ASSUME SpentType, NEW s \in Spends, SpendCommits(s) PROVE SpentType'
    BY <2>1 DEF SpentType, SpendCommits
  <2>2. QED
    BY <2>1, SpentStep DEF SpentType
<1>3. IInv /\ SpentType /\ [Next]_vars => [Step]_vars
  <2> SUFFICES ASSUME IInv, SpentType, [Next]_vars PROVE Step
    OBVIOUS
  <2>1. CASE spent' = spent
    <3>1. \A r \in Spends : spent[r] \in Nat /\ spent'[r] = spent[r]
      BY <2>1 DEF SpentType
    <3>2. QED
      BY <3>1
  <2>2. ASSUME NEW s \in Spends, SpendCommits(s) PROVE Step
    <3>1. /\ \A r \in Spends : spent[r] \in Nat /\ (r # s => spent'[r] = spent[r])
          /\ balance'[OrgOf[s]] = balance[OrgOf[s]] - Amount[s]
      BY <2>2, Numbers DEF SpendCommits, SpentType, IInv, Shapes
    <3>2. /\ balance[OrgOf[s]] \in Int /\ Amount[s] \in Nat
          /\ balance[OrgOf[s]] >= Amount[s]
      BY <2>2, Numbers DEF SpendCommits, IInv, Shapes, SpendUnderLock
    <3>3. balance'[OrgOf[s]] >= 0
      BY <3>1, <3>2
    <3>4. QED
      BY <3>1, <3>3
  <2>3. QED
    BY <2>1, <2>2, SpentStep
<1>4. QED
  BY InitInv, Inductive, <1>1, <1>2, <1>3, PTL DEF Spec, SpendCovered
-----------------------------------------------------------------------------
(* Sums over finite sets. *)

\* Induction over the subsets of a finite set, from a smallest counterexample.
LEMMA SmallestSet ==
    ASSUME NEW S, IsFiniteSet(S), NEW B \in SUBSET (SUBSET S), B # {}
    PROVE  \E R \in B : \A x \in R : R \ {x} \notin B
<1> DEFINE O == StrictSubsetOrdering(S)
<1>1. IsWellFoundedOn(O, FiniteSubsetsOf(S)) /\ FiniteSubsetsOf(S) = SUBSET S
  BY FS_StrictSubsetOrderingWellFounded, FS_FiniteSubsetsOfFinite
<1>2. ASSUME NEW R \in SUBSET S, NEW x \in R PROVE <<R \ {x}, R>> \in O
  BY <1>2 DEF StrictSubsetOrdering
<1> HIDE DEF O
<1>3. PICK R \in B : \A Q \in B : <<Q, R>> \notin O
  BY <1>1, WFMin
<1>4. QED
  BY <1>2, <1>3

\* What MapThenFoldSet chooses first.
FirstOf(s) == CHOOSE x \in s : TRUE
Recursion(f, D, it) ==
    it = [s \in D |-> IF s = {} THEN 0 ELSE f[FirstOf(s)] + it[s \ {FirstOf(s)}]]

\* What is chosen first is an element.
LEMMA FirstIn == ASSUME NEW s, s # {} PROVE FirstOf(s) \in s
BY DEF FirstOf

\* Induction over the naturals.
LEMMA NatInductive ==
    ASSUME NEW T \in SUBSET Nat, 0 \in T, \A n \in T : n + 1 \in T
    PROVE  T = Nat
<1> DEFINE R == OpToRel(<, Nat)
<1>1. IsWellFoundedOn(R, Nat)
  BY NatLessThanWellFounded, Zenon
<1>2. ASSUME NEW x \in Nat, NEW y \in Nat, y < x PROVE <<y, x>> \in R
  BY <1>2, Zenon DEF OpToRel
<1> HIDE DEF R
<1>3. SUFFICES ASSUME Nat \ T # {} PROVE FALSE
  OBVIOUS
<1>4. PICK x \in Nat \ T : \A y \in Nat \ T : <<y, x>> \notin R
  BY <1>1, <1>3, WFMin
<1>5. x # 0 /\ x - 1 \in Nat /\ x - 1 < x
  BY <1>4
<1>6. <<x - 1, x>> \in R
  BY <1>2, <1>4, <1>5
<1>7. x - 1 \in T
  BY <1>4, <1>5, <1>6
<1>8. QED
  BY <1>4, <1>5, <1>7

\* The recursion of a sum has a solution on the subsets of a finite set, built for
\* one cardinality after the other.
LEMMA SumExists ==
    ASSUME NEW S, IsFiniteSet(S), NEW f
    PROVE  \E it : Recursion(f, SUBSET S, it)
<1> DEFINE Small(n) == {s \in SUBSET S : Cardinality(s) <= n}
           T == {n \in Nat : \E it : Recursion(f, Small(n), it)}
<1>0. \A s \in SUBSET S : IsFiniteSet(s) /\ Cardinality(s) \in Nat
  BY FS_Subset, FS_CardinalityType
<1>1. 0 \in T
  <2> DEFINE it == [s \in Small(0) |-> 0]
  <2>1. \A s \in Small(0) : s = {}
    BY <1>0, FS_EmptySet
  <2>2. Recursion(f, Small(0), it)
    BY <2>1 DEF Recursion
  <2>3. QED
    BY <2>2
<1>2. ASSUME NEW n \in T PROVE n + 1 \in T
  <2>1. n \in Nat
    OBVIOUS
  <2>2. PICK it : Recursion(f, Small(n), it)
    OBVIOUS
  <2> DEFINE jt == [s \in Small(n + 1) |->
                     IF Cardinality(s) <= n THEN it[s] ELSE f[FirstOf(s)] + it[s \ {FirstOf(s)}]]
  <2>3. ASSUME NEW s \in Small(n + 1), s # {}
        PROVE  s \ {FirstOf(s)} \in Small(n)
    <3>1. FirstOf(s) \in s
      BY <2>3, FirstIn
    <3>2. Cardinality(s \ {FirstOf(s)}) = Cardinality(s) - 1
      BY <1>0, <3>1, FS_RemoveElement
    <3>3. QED
      BY <1>0, <2>1, <3>2
  <2>4. ASSUME NEW s \in Small(n)
        PROVE  s \in Small(n + 1) /\ Cardinality(s) <= n /\ jt[s] = it[s]
               /\ it[s] = IF s = {} THEN 0 ELSE f[FirstOf(s)] + it[s \ {FirstOf(s)}]
    <3>1. Cardinality(s) \in Nat /\ s \in SUBSET S /\ Cardinality(s) <= n
      BY <1>0
    <3>2. s \in Small(n + 1)
      BY <2>1, <3>1
    <3>3. it[s] = IF s = {} THEN 0 ELSE f[FirstOf(s)] + it[s \ {FirstOf(s)}]
      BY <2>2, Zenon DEF Recursion
    <3>4. jt[s] = it[s]
      BY <3>1, <3>2
    <3>5. QED
      BY <3>1, <3>2, <3>3, <3>4
  <2>5. ASSUME NEW s \in Small(n + 1)
        PROVE  jt[s] = IF s = {} THEN 0 ELSE f[FirstOf(s)] + jt[s \ {FirstOf(s)}]
    <3>1. CASE s \in Small(n)
      BY <2>3, <2>4, <3>1
    <3>2. CASE s \notin Small(n)
      <4>1. s # {}
        BY <3>2, <2>1, FS_EmptySet
      <4>2. jt[s] = f[FirstOf(s)] + it[s \ {FirstOf(s)}]
        BY <3>2
      <4>3. QED
        BY <2>3, <2>4, <4>1, <4>2
    <3>3. QED
      BY <3>1, <3>2
  <2>6. Recursion(f, Small(n + 1), jt)
    BY <2>5 DEF Recursion
  <2> HIDE DEF jt, Small
  <2>7. \E g : Recursion(f, Small(n + 1), g)
    BY <2>6, Zenon
  <2>8. QED
    BY <2>1, <2>7
<1> HIDE DEF T
<1>3. Cardinality(S) \in T
  <2>1. T \in SUBSET Nat
    BY DEF T
  <2>2. T = Nat
    BY <1>1, <1>2, <2>1, NatInductive
  <2>3. QED
    BY <1>0, <2>2
<1>4. Small(Cardinality(S)) = SUBSET S
  BY FS_Subset
<1>5. QED
  BY <1>3, <1>4 DEF T

\* Solutions for a set and for its subset agree, so a sum is the value of any.
LEMMA SumIs ==
    ASSUME NEW S, IsFiniteSet(S), NEW f, NEW it, Recursion(f, SUBSET S, it),
           NEW R \in SUBSET S
    PROVE  SumFunctionOnSet(f, R) = it[R]
<1> DEFINE jt == CHOOSE g : Recursion(f, SUBSET R, g)
<1>1. IsFiniteSet(R)
  BY FS_Subset
<1>2. Recursion(f, SUBSET R, jt)
  BY <1>1, SumExists, Zenon
<1>3. SumFunctionOnSet(f, R) = jt[R]
  BY Zenon DEF SumFunctionOnSet, FoldFunctionOnSet, MapThenFoldSet, Recursion, FirstOf
<1> HIDE DEF jt
<1> DEFINE B == {s \in SUBSET R : it[s] # jt[s]}
<1>4. SUFFICES ASSUME B # {} PROVE FALSE
  BY <1>3
<1>5. PICK s \in B : \A x \in s : s \ {x} \notin B
  BY <1>1, <1>4, SmallestSet
<1>6. s # {}
  BY <1>2, <1>5 DEF Recursion
<1>7. FirstOf(s) \in s /\ s \ {FirstOf(s)} \in SUBSET R
  BY <1>5, <1>6, FirstIn
<1>8. it[s \ {FirstOf(s)}] = jt[s \ {FirstOf(s)}]
  BY <1>5, <1>7
<1>9. /\ it[s] = f[FirstOf(s)] + it[s \ {FirstOf(s)}]
      /\ jt[s] = f[FirstOf(s)] + jt[s \ {FirstOf(s)}]
  BY <1>2, <1>5, <1>6 DEF Recursion
<1>10. QED
  BY <1>5, <1>8, <1>9

\* The empty sum, and a sum by the element that is chosen first.
LEMMA SumEmpty == ASSUME NEW f PROVE SumFunctionOnSet(f, {}) = 0
<1>1. PICK it : Recursion(f, SUBSET {}, it)
  BY SumExists, FS_EmptySet
<1>2. SumFunctionOnSet(f, {}) = it[{}]
  BY <1>1, SumIs, FS_EmptySet
<1>3. QED
  BY <1>1, <1>2 DEF Recursion

LEMMA SumFirst ==
    ASSUME NEW f, NEW R, IsFiniteSet(R), R # {}
    PROVE  SumFunctionOnSet(f, R) = f[FirstOf(R)] + SumFunctionOnSet(f, R \ {FirstOf(R)})
<1>1. PICK it : Recursion(f, SUBSET R, it)
  BY SumExists
<1>2. /\ SumFunctionOnSet(f, R) = it[R]
      /\ SumFunctionOnSet(f, R \ {FirstOf(R)}) = it[R \ {FirstOf(R)}]
  BY <1>1, SumIs
<1>3. QED
  BY <1>1, <1>2 DEF Recursion

\* A sum of naturals is one.
LEMMA SumNat ==
    ASSUME NEW f, NEW R, IsFiniteSet(R), \A x \in R : f[x] \in Nat
    PROVE  SumFunctionOnSet(f, R) \in Nat
<1> DEFINE B == {s \in SUBSET R : SumFunctionOnSet(f, s) \notin Nat}
<1>1. SUFFICES ASSUME B # {} PROVE FALSE
  OBVIOUS
<1>2. PICK s \in B : \A x \in s : s \ {x} \notin B
  BY <1>1, SmallestSet
<1>3. s # {}
  BY <1>2, SumEmpty
<1>4. FirstOf(s) \in s
  BY <1>3, FirstIn
<1>5. SumFunctionOnSet(f, s \ {FirstOf(s)}) \in Nat
  BY <1>2, <1>4
<1>6. SumFunctionOnSet(f, s) = f[FirstOf(s)] + SumFunctionOnSet(f, s \ {FirstOf(s)})
  BY <1>2, <1>3, SumFirst, FS_Subset
<1>7. QED
  BY <1>2, <1>4, <1>5, <1>6

\* The order of a sum does not matter: any element can be counted last.
LEMMA SumRemove ==
    ASSUME NEW f, NEW R, IsFiniteSet(R), \A x \in R : f[x] \in Nat, NEW x \in R
    PROVE  SumFunctionOnSet(f, R) = f[x] + SumFunctionOnSet(f, R \ {x})
<1> DEFINE Sum(s) == SumFunctionOnSet(f, s)
           B == {s \in SUBSET R : \E y \in s : Sum(s) # f[y] + Sum(s \ {y})}
<1>1. SUFFICES ASSUME B # {} PROVE FALSE
  OBVIOUS
<1>2. PICK s \in B : \A y \in s : s \ {y} \notin B
  BY <1>1, SmallestSet
<1>3. PICK y \in s : Sum(s) # f[y] + Sum(s \ {y})
  BY <1>2
<1> DEFINE p == FirstOf(s)
<1>4. p \in s /\ IsFiniteSet(s)
  BY <1>3, FirstIn, FS_Subset
<1>5. Sum(s) = f[p] + Sum(s \ {p})
  BY <1>4, SumFirst
<1> HIDE DEF p
<1>6. y # p
  BY <1>3, <1>5
<1> DEFINE q == (s \ {p}) \ {y}
<1>7. q = (s \ {y}) \ {p} /\ y \in s \ {p} /\ p \in s \ {y}
  BY <1>4, <1>6
<1>8. Sum(s \ {p}) = f[y] + Sum(q)
  BY <1>2, <1>4, <1>7
<1>9. Sum(s \ {y}) = f[p] + Sum(q)
  BY <1>2, <1>3, <1>7
<1>10. f[p] \in Nat /\ f[y] \in Nat /\ Sum(q) \in Nat
  <2>1. IsFiniteSet(q) /\ q \subseteq R
    BY <1>2, FS_Subset
  <2>2. Sum(q) \in Nat
    BY <2>1, SumNat
  <2> QED
    BY <1>2, <1>4, <2>2
<1> HIDE DEF Sum, q
<1>11. QED
  BY <1>3, <1>5, <1>8, <1>9, <1>10

\* Two sets that share no element.
LEMMA SumUnion ==
    ASSUME NEW f, NEW R, NEW Q, IsFiniteSet(R), IsFiniteSet(Q), R \cap Q = {},
           \A x \in R \cup Q : f[x] \in Nat
    PROVE  SumFunctionOnSet(f, R \cup Q) = SumFunctionOnSet(f, R) + SumFunctionOnSet(f, Q)
<1> DEFINE Sum(s) == SumFunctionOnSet(f, s)
           B == {s \in SUBSET Q : Sum(R \cup s) # Sum(R) + Sum(s)}
<1>1. SUFFICES ASSUME B # {} PROVE FALSE
  OBVIOUS
<1>2. PICK s \in B : \A y \in s : s \ {y} \notin B
  BY <1>1, SmallestSet
<1>3. Sum(R) \in Nat
  BY SumNat
<1>4. s # {}
  BY <1>2, <1>3, SumEmpty
<1>5. PICK y \in s : TRUE
  BY <1>4
<1>6. y \in R \cup s /\ (R \cup s) \ {y} = R \cup (s \ {y}) /\ f[y] \in Nat
  BY <1>2, <1>5
<1>7. IsFiniteSet(s) /\ IsFiniteSet(R \cup s)
  BY <1>2, FS_Subset, FS_Union
<1>8. Sum(R \cup s) = f[y] + Sum(R \cup (s \ {y})) /\ Sum(s) = f[y] + Sum(s \ {y})
  BY <1>2, <1>5, <1>6, <1>7, SumRemove
<1>9. Sum(R \cup (s \ {y})) = Sum(R) + Sum(s \ {y})
  BY <1>2, <1>5
<1>10. Sum(s \ {y}) \in Nat
  <2>1. IsFiniteSet(s \ {y})
    BY <1>7, FS_RemoveElement
  <2> QED
    BY <1>2, <2>1, SumNat
<1> HIDE DEF Sum
<1>11. QED
  BY <1>2, <1>3, <1>6, <1>8, <1>9, <1>10

\* Functions that agree on a set have the same sum over it.
LEMMA SumSame ==
    ASSUME NEW f, NEW g, NEW R, IsFiniteSet(R), \A x \in R : f[x] = g[x]
    PROVE  SumFunctionOnSet(f, R) = SumFunctionOnSet(g, R)
<1> DEFINE B == {s \in SUBSET R : SumFunctionOnSet(f, s) # SumFunctionOnSet(g, s)}
<1>1. SUFFICES ASSUME B # {} PROVE FALSE
  OBVIOUS
<1>2. PICK s \in B : \A x \in s : s \ {x} \notin B
  BY <1>1, SmallestSet
<1>3. s # {}
  BY <1>2, SumEmpty
<1>4. FirstOf(s) \in s /\ IsFiniteSet(s)
  BY <1>2, <1>3, FirstIn, FS_Subset
<1>5. SumFunctionOnSet(f, s \ {FirstOf(s)}) = SumFunctionOnSet(g, s \ {FirstOf(s)})
  BY <1>2, <1>4
<1>6. QED
  BY <1>2, <1>3, <1>4, <1>5, SumFirst
\* Elements that count for nothing can be left out of a sum.
LEMMA SumZero ==
    ASSUME NEW f, NEW R, IsFiniteSet(R), \A x \in R : f[x] = 0
    PROVE  SumFunctionOnSet(f, R) = 0
<1> DEFINE B == {s \in SUBSET R : SumFunctionOnSet(f, s) # 0}
<1>1. SUFFICES ASSUME B # {} PROVE FALSE
  OBVIOUS
<1>2. PICK s \in B : \A x \in s : s \ {x} \notin B
  BY <1>1, SmallestSet
<1>3. s # {}
  BY <1>2, SumEmpty
<1>4. FirstOf(s) \in s /\ IsFiniteSet(s)
  BY <1>2, <1>3, FirstIn, FS_Subset
<1>5. SumFunctionOnSet(f, s \ {FirstOf(s)}) = 0 /\ f[FirstOf(s)] = 0
  BY <1>2, <1>4
<1>6. SumFunctionOnSet(f, s) = f[FirstOf(s)] + SumFunctionOnSet(f, s \ {FirstOf(s)})
  BY <1>3, <1>4, SumFirst
<1>7. QED
  BY <1>2, <1>5, <1>6

\* A sum over a set, split at a subset.
LEMMA SumSubset ==
    ASSUME NEW f, NEW R, IsFiniteSet(R), \A x \in R : f[x] \in Nat, NEW Q \in SUBSET R
    PROVE  /\ SumFunctionOnSet(f, Q) \in Nat
           /\ SumFunctionOnSet(f, R \ Q) \in Nat
           /\ SumFunctionOnSet(f, R) = SumFunctionOnSet(f, Q) + SumFunctionOnSet(f, R \ Q)
<1>1. IsFiniteSet(Q) /\ IsFiniteSet(R \ Q) /\ Q \cup (R \ Q) = R /\ Q \cap (R \ Q) = {}
  BY FS_Subset
<1>2. SumFunctionOnSet(f, Q \cup (R \ Q)) = SumFunctionOnSet(f, Q) + SumFunctionOnSet(f, R \ Q)
  BY <1>1, SumUnion
<1>3. SumFunctionOnSet(f, Q) \in Nat /\ SumFunctionOnSet(f, R \ Q) \in Nat
  BY <1>1, SumNat
<1>4. QED
  BY <1>1, <1>2, <1>3

\* One more for every element is the cardinality more.
LEMMA SumPlusOne ==
    ASSUME NEW f, NEW g, NEW R, IsFiniteSet(R),
           \A x \in R : g[x] \in Nat /\ f[x] = g[x] + 1
    PROVE  SumFunctionOnSet(f, R) = SumFunctionOnSet(g, R) + Cardinality(R)
<1> DEFINE F(s) == SumFunctionOnSet(f, s)
           G(s) == SumFunctionOnSet(g, s)
           B == {s \in SUBSET R : F(s) # G(s) + Cardinality(s)}
<1>1. SUFFICES ASSUME B # {} PROVE FALSE
  OBVIOUS
<1>2. PICK s \in B : \A x \in s : s \ {x} \notin B
  BY <1>1, SmallestSet
<1>3. s # {}
  BY <1>2, SumEmpty, FS_EmptySet
<1> DEFINE p == FirstOf(s)
<1>4. p \in s /\ IsFiniteSet(s) /\ p \in R
  BY <1>2, <1>3, FirstIn, FS_Subset
<1>5. F(s) = f[p] + F(s \ {p}) /\ G(s) = g[p] + G(s \ {p})
  BY <1>3, <1>4, SumFirst
<1> HIDE DEF p
<1>6. F(s \ {p}) = G(s \ {p}) + Cardinality(s \ {p})
  BY <1>2, <1>4
<1>7. Cardinality(s \ {p}) = Cardinality(s) - 1 /\ Cardinality(s) \in Nat
  BY <1>4, FS_RemoveElement, FS_CardinalityType
<1>8. G(s \ {p}) \in Nat
  <2>1. IsFiniteSet(s \ {p}) /\ s \ {p} \subseteq R
    BY <1>2, <1>4, FS_RemoveElement
  <2>2. QED
    BY <2>1, SumNat
<1>9. F(s) # G(s) + Cardinality(s) /\ f[p] = g[p] + 1 /\ g[p] \in Nat
  BY <1>2, <1>4
<1> HIDE DEF F, G
<1>10. QED
  BY <1>5, <1>6, <1>7, <1>8, <1>9
-----------------------------------------------------------------------------
(* Rounding. *)

\* The numbers of the constants, for the arithmetic below.
LEMMA Units == UnitsPerCredit \in Nat \ {0} /\ MaxAttempts \in Nat \ {0} /\ MaxCalls \in Nat
               /\ MaxUsage \in Nat
BY NumbersAssumption

\* A factor can be cancelled.
LEMMA MulLess ==
    ASSUME NEW a \in Int, NEW b \in Int, a * UnitsPerCredit < b * UnitsPerCredit
    PROVE  a < b
BY Units

\* A cost in whole credits and the rest.
LEMMA Division ==
    ASSUME NEW c \in Nat
    PROVE  /\ c \div UnitsPerCredit \in Nat
           /\ c % UnitsPerCredit \in Nat /\ c % UnitsPerCredit < UnitsPerCredit
           /\ c = UnitsPerCredit * (c \div UnitsPerCredit) + (c % UnitsPerCredit)
BY Units

\* CostToCredits is the least number of credits that covers the cost.
LEMMA RoundedUp ==
    ASSUME NEW c \in Nat
    PROVE  /\ CostToCredits(c) \in Nat
           /\ c <= CostToCredits(c) * UnitsPerCredit
           /\ CostToCredits(c) * UnitsPerCredit < c + UnitsPerCredit
<1>1. c + UnitsPerCredit - 1 \in Nat
  BY Units
<1>2. QED
  BY <1>1, Units, Division DEF CostToCredits

\* Nothing costs nothing.
LEMMA RoundedZero == CostToCredits(0) = 0
BY Units, RoundedUp, MulLess

\* More never costs less.
LEMMA RoundedMonotone ==
    ASSUME NEW c \in Nat, NEW d \in Nat, c <= d
    PROVE  CostToCredits(c) <= CostToCredits(d)
<1>1. CostToCredits(c) * UnitsPerCredit < (CostToCredits(d) + 1) * UnitsPerCredit
  BY RoundedUp, Units
<1>2. QED
  BY <1>1, RoundedUp, MulLess

\* What a further cost adds to the rounded total lies between its whole credits
\* and one more for each row that has a fraction.
LEMMA RoundedSum ==
    ASSUME NEW b \in Nat, NEW c \in Nat, NEW w \in Nat, NEW n \in Nat,
           w * UnitsPerCredit <= c, c <= (w + n) * UnitsPerCredit
    PROVE  /\ w <= CostToCredits(b + c) - CostToCredits(b)
           /\ CostToCredits(b + c) - CostToCredits(b) <= w + n
<1> DEFINE Up(k) == CostToCredits(k)
           U == UnitsPerCredit
<1>1. /\ Up(b) \in Nat /\ b <= Up(b) * U /\ Up(b) * U < b + U
      /\ Up(b + c) \in Nat /\ b + c <= Up(b + c) * U /\ Up(b + c) * U < b + c + U
  BY RoundedUp
<1>2. (w + Up(b)) * U < (Up(b + c) + 1) * U
  <2>1. (w + Up(b)) * U = w * U + Up(b) * U
    BY <1>1, Units
  <2>2. (Up(b + c) + 1) * U = Up(b + c) * U + U
    BY <1>1, Units
  <2>3. QED
    BY <1>1, <2>1, <2>2, Units
<1>3. Up(b + c) * U < (w + n + Up(b) + 1) * U
  <2>1. (w + n + Up(b) + 1) * U = (w + n) * U + Up(b) * U + U
    BY <1>1, Units
  <2>2. QED
    BY <1>1, <2>1, Units
<1>4. w + Up(b) < Up(b + c) + 1 /\ Up(b + c) < w + n + Up(b) + 1
  BY <1>1, <1>2, <1>3, MulLess
<1>5. QED
  BY <1>1, <1>4
-----------------------------------------------------------------------------
(* Allocation. *)

Wholes(R) == [g \in R |-> Whole(g)]
\* The order in which Allocate hands out credits.
InFront(h, g) == \/ Fraction(h) > Fraction(g)
                 \/ Fraction(h) = Fraction(g) /\ h < g
Ahead(R, g) == {h \in R : InFront(h, g)}

\* A generation's price, whole credits and fraction.
LEMMA Prices ==
    ASSUME NEW g \in Gens
    PROVE  /\ g \in Nat /\ OrgOf[g] \in Orgs /\ Amount[g] \in Nat
           /\ Whole(g) \in Nat /\ Fraction(g) \in Nat /\ Fraction(g) < UnitsPerCredit
           /\ Amount[g] = UnitsPerCredit * Whole(g) + Fraction(g)
<1>1. g \in Nat /\ OrgOf[g] \in Orgs /\ Amount[g] \in Nat
  BY GensAssumption, OrgOfAssumption, AmountAssumption
<1>2. QED
  BY <1>1, Division DEF Whole, Fraction

\* Sets of generations are finite and have a cost.
LEMMA SomeGens ==
    ASSUME NEW R \in SUBSET Gens
    PROVE  /\ IsFiniteSet(R) /\ Cardinality(R) \in Nat
           /\ Cost(R) \in Nat
           /\ SumFunctionOnSet(Wholes(R), R) \in Nat
           /\ \A Q \in SUBSET R : Cost(Q) \in Nat /\ Cost(R) = Cost(Q) + Cost(R \ Q)
<1>1. IsFiniteSet(R)
  BY GensAssumption, FS_Subset
<1>2. \A g \in R : Amount[g] \in Nat /\ Wholes(R)[g] \in Nat
  BY Prices DEF Wholes
<1>3. \A Q \in SUBSET R : Cost(Q) \in Nat /\ Cost(R) = Cost(Q) + Cost(R \ Q)
  <2> SUFFICES ASSUME NEW Q \in SUBSET R
               PROVE  Cost(Q) \in Nat /\ Cost(R) = Cost(Q) + Cost(R \ Q)
    OBVIOUS
  <2>1. \A x \in R : Amount[x] \in Nat
    BY <1>2
  <2>2. SumFunctionOnSet(Amount, Q) \in Nat
    BY <1>1, <2>1, SumSubset
  <2>3. SumFunctionOnSet(Amount, R)
          = SumFunctionOnSet(Amount, Q) + SumFunctionOnSet(Amount, R \ Q)
    BY <1>1, <2>1, SumSubset
  <2>4. QED
    BY <2>2, <2>3 DEF Cost
<1>4. QED
  BY <1>1, <1>2, <1>3, FS_CardinalityType, SumNat

\* The first k in that order, of at least k, are k.
LEMMA RanksCount ==
    ASSUME NEW R \in SUBSET Gens, NEW k \in Nat, k <= Cardinality(R)
    PROVE  Cardinality({g \in R : Cardinality(Ahead(R, g)) < k}) = k
<1> DEFINE n == Cardinality(R)
           rank == [g \in R |-> Cardinality(Ahead(R, g))]
           E == {g \in R : rank[g] < k}
<1>1. IsFiniteSet(R) /\ n \in Nat
  BY SomeGens
<1>2. ASSUME NEW g \in R
      PROVE  /\ IsFiniteSet(Ahead(R, g)) /\ Cardinality(Ahead(R, g)) \in Nat
             /\ g \notin Ahead(R, g) /\ Ahead(R, g) \subseteq R
  <2>1. g \notin Ahead(R, g) /\ Ahead(R, g) \subseteq R
    BY Prices DEF Ahead, InFront
  <2>2. QED
    BY <1>1, <2>1, FS_Subset, FS_CardinalityType
<1>3. ASSUME NEW g \in R PROVE rank[g] \in 0..(n - 1)
  <2>1. Ahead(R, g) # R
    BY <1>2
  <2>2. Cardinality(Ahead(R, g)) <= n /\ Cardinality(Ahead(R, g)) # n
    BY <1>1, <1>2, <2>1, FS_Subset
  <2>3. QED
    BY <1>1, <1>2, <2>2
<1>4. ASSUME NEW g \in R, NEW h \in R, InFront(g, h) PROVE rank[g] < rank[h]
  <2>1. Ahead(R, g) \subseteq Ahead(R, h)
    BY <1>4, Prices DEF Ahead, InFront
  <2>2. g \in Ahead(R, h) /\ g \notin Ahead(R, g)
    BY <1>2, <1>4 DEF Ahead
  <2>3. Cardinality(Ahead(R, g)) <= Cardinality(Ahead(R, h))
        /\ Cardinality(Ahead(R, g)) # Cardinality(Ahead(R, h))
    BY <1>2, <2>1, <2>2, FS_Subset
  <2>4. QED
    BY <1>2, <2>3
<1>5. ASSUME NEW g \in R, NEW h \in R, rank[g] = rank[h] PROVE g = h
  <2>1. InFront(g, h) \/ InFront(h, g) \/ g = h
    <3>1. g \in Nat /\ h \in Nat /\ Fraction(g) \in Nat /\ Fraction(h) \in Nat
      BY Prices
    <3>2. QED
      BY <3>1 DEF InFront
  <2>2. rank[g] \in Nat
    BY <1>2
  <2>3. QED
    BY <1>4, <1>5, <2>1, <2>2
<1> HIDE DEF rank
<1>6. rank \in Injection(R, 0..(n - 1))
  <2>1. rank \in [R -> 0..(n - 1)]
    BY <1>3 DEF rank
  <2>2. QED
    BY <1>5, <2>1 DEF Injection, IsInjective
<1>7. IsFiniteSet(0..(n - 1)) /\ Cardinality(0..(n - 1)) = n
  <2>1. 0 \in Int /\ n - 1 \in Int
    BY <1>1
  <2>2. IsFiniteSet(0..(n - 1)) /\ Cardinality(0..(n - 1)) = IF 0 > n - 1 THEN 0 ELSE (n - 1) - 0 + 1
    BY <2>1, FS_Interval
  <2> HIDE DEF n
  <2>3. QED
    BY <1>1, <2>2
<1>8. rank \in Surjection(R, 0..(n - 1))
  BY <1>6, <1>7, FS_Injection
<1> DEFINE cut == [g \in E |-> rank[g]]
<1>9. cut \in Bijection(E, 0..(k - 1))
  <2>1. cut \in [E -> 0..(k - 1)]
    BY <1>3
  <2>2. \A g, h \in E : cut[g] = cut[h] => g = h
    BY <1>5
  <2>3. \A j \in 0..(k - 1) : \E g \in E : cut[g] = j
    <3> SUFFICES ASSUME NEW j \in 0..(k - 1) PROVE \E g \in E : cut[g] = j
      OBVIOUS
    <3>1. j \in 0..(n - 1)
      BY <1>1
    <3>2. PICK g \in R : rank[g] = j
      BY <1>8, <3>1 DEF Surjection
    <3>3. QED
      BY <3>2
  <2> HIDE DEF cut, E
  <2>4. cut \in Injection(E, 0..(k - 1))
    BY <2>1, <2>2 DEF Injection, IsInjective
  <2>5. cut \in Surjection(E, 0..(k - 1))
    BY <2>1, <2>3 DEF Surjection
  <2>6. QED
    BY <2>4, <2>5 DEF Bijection
<1>10. IsFiniteSet(E)
  BY <1>1, FS_Subset
<1>11. Cardinality(0..(k - 1)) = Cardinality(E)
  BY <1>9, <1>10, FS_Bijection DEF ExistsBijection
<1>12. Cardinality(0..(k - 1)) = k
  BY FS_Interval
<1>13. E = {g \in R : Cardinality(Ahead(R, g)) < k}
  BY DEF rank
<1>14. QED
  BY <1>11, <1>12, <1>13

\* Allocate, with the credits of the rows in front named.
LEMMA AllocateIs ==
    ASSUME NEW R \in SUBSET Gens, NEW debit, NEW had
    PROVE  Allocate(R, debit, had) =
             [g \in R |->
                IF debit - SumFunctionOnSet(Wholes(R), Ahead(R, g)) <= 0 THEN had[g]
                ELSE LowerOf(Whole(g), debit - SumFunctionOnSet(Wholes(R), Ahead(R, g)))
                     + (IF Cardinality(Ahead(R, g)) < debit - SumFunctionOnSet(Wholes(R), R)
                        THEN 1 ELSE 0)]
BY DEF Allocate, Wholes, Ahead, InFront

\* Allocate gives every row a natural number of credits.
LEMMA AllocateType ==
    ASSUME NEW R \in SUBSET Gens, NEW debit \in Int, NEW had, \A g \in R : had[g] \in Nat
    PROVE  Allocate(R, debit, had) \in [R -> Nat]
<1> DEFINE Got(g) == Allocate(R, debit, had)[g]
<1>0. Allocate(R, debit, had) = [g \in R |-> Got(g)]
  BY AllocateIs
<1> HIDE DEF Got
<1> SUFFICES ASSUME NEW g \in R PROVE Got(g) \in Nat
  BY <1>0
<1> USE DEF Got
<1> DEFINE before == SumFunctionOnSet(Wholes(R), Ahead(R, g))
           left == debit - before
           one == IF Cardinality(Ahead(R, g)) < debit - SumFunctionOnSet(Wholes(R), R)
                  THEN 1 ELSE 0
<1>1. Whole(g) \in Nat /\ before \in Nat
  <2>1. Ahead(R, g) \in SUBSET R
    BY DEF Ahead
  <2>2. IsFiniteSet(Ahead(R, g)) /\ \A h \in Ahead(R, g) : Wholes(R)[h] \in Nat
    BY <2>1, SomeGens, FS_Subset, Prices DEF Wholes
  <2>3. QED
    BY <2>2, Prices, SumNat
<1>2. one \in Nat /\ left \in Int
  BY <1>1
<1>3. Allocate(R, debit, had)[g] = IF left <= 0 THEN had[g] ELSE LowerOf(Whole(g), left) + one
  BY AllocateIs
<1> HIDE DEF left, one
<1>4. QED
  BY <1>1, <1>2, <1>3 DEF LowerOf

\* allocateCurrentRowCredits hands out exactly the debit, when it lies between the
\* whole credits of the rows and one more for each of them (which DueBounds shows of
\* every debit that is taken whole).
THEOREM AllocateExact ==
    ASSUME NEW R \in SUBSET Gens, NEW debit \in Nat, NEW had,
           \A g \in R : had[g] = Whole(g),
           SumFunctionOnSet(Wholes(R), R) <= debit,
           debit <= SumFunctionOnSet(Wholes(R), R) + Cardinality(R)
    PROVE  SumFunctionOnSet(Allocate(R, debit, had), R) = debit
<1> DEFINE w == SumFunctionOnSet(Wholes(R), R)
           k == debit - w
           E == {g \in R : Cardinality(Ahead(R, g)) < k}
           a == Allocate(R, debit, had)
<1>1. w \in Nat /\ Cardinality(R) \in Nat /\ IsFiniteSet(R) /\ k \in Nat /\ k <= Cardinality(R)
  BY SomeGens
<1>2. \A g \in R : Wholes(R)[g] = Whole(g) /\ Whole(g) \in Nat
  BY Prices DEF Wholes
<1>3. ASSUME NEW g \in R
      PROVE  a[g] = Whole(g) + (IF Cardinality(Ahead(R, g)) < k THEN 1 ELSE 0)
  <2> DEFINE before == SumFunctionOnSet(Wholes(R), Ahead(R, g))
             rest == SumFunctionOnSet(Wholes(R), R \ Ahead(R, g))
  <2>1. Ahead(R, g) \in SUBSET R /\ g \in R \ Ahead(R, g)
    BY Prices DEF Ahead, InFront
  <2>2. before \in Nat /\ rest \in Nat
    BY <1>1, <1>2, <2>1, SumSubset
  <2>3. w = before + rest
    BY <1>1, <1>2, <2>1, SumSubset
  <2>4. Whole(g) <= rest
    <3>1. IsFiniteSet(R \ Ahead(R, g)) /\ IsFiniteSet((R \ Ahead(R, g)) \ {g})
      BY <1>1, FS_Subset
    <3>2. rest = Wholes(R)[g] + SumFunctionOnSet(Wholes(R), (R \ Ahead(R, g)) \ {g})
      BY <1>2, <2>1, <3>1, SumRemove
    <3>3. SumFunctionOnSet(Wholes(R), (R \ Ahead(R, g)) \ {g}) \in Nat
      BY <1>2, <3>1, SumNat
    <3>4. QED
      BY <1>2, <3>2, <3>3
  <2>5. a[g] = IF debit - before <= 0 THEN had[g]
               ELSE LowerOf(Whole(g), debit - before)
                    + (IF Cardinality(Ahead(R, g)) < k THEN 1 ELSE 0)
    BY AllocateIs
  <2>6. Cardinality(Ahead(R, g)) \in Nat /\ Whole(g) \in Nat /\ had[g] = Whole(g)
    BY <1>2, <2>1, SomeGens, FS_Subset, FS_CardinalityType
  <2>7. before + rest <= debit /\ k = debit - (before + rest)
    BY <2>3
  <2> HIDE DEF before, rest, a, k, w
  <2>8. CASE debit - before <= 0
    BY <1>1, <2>2, <2>4, <2>5, <2>6, <2>7, <2>8
  <2>9. CASE ~ (debit - before <= 0)
    <3>1. LowerOf(Whole(g), debit - before) = Whole(g)
      BY <2>2, <2>4, <2>6, <2>7 DEF LowerOf
    <3>2. QED
      BY <2>5, <2>9, <3>1
  <2>10. QED
    BY <2>8, <2>9
<1>4. E \in SUBSET R /\ IsFiniteSet(E) /\ IsFiniteSet(R \ E) /\ Cardinality(E) = k
  BY <1>1, FS_Subset, RanksCount
<1> HIDE DEF k, a
<1>5. \A g \in E : Wholes(R)[g] \in Nat /\ a[g] = Wholes(R)[g] + 1
  BY <1>2, <1>3
<1>6. \A g \in R \ E : Wholes(R)[g] \in Nat /\ a[g] = Wholes(R)[g]
  BY <1>2, <1>3
<1>7. SumFunctionOnSet(a, E) = SumFunctionOnSet(Wholes(R), E) + k
  BY <1>4, <1>5, SumPlusOne
<1>8. SumFunctionOnSet(a, R \ E) = SumFunctionOnSet(Wholes(R), R \ E)
  BY <1>4, <1>6, SumSame
<1>9. \A g \in R : a[g] \in Nat /\ Wholes(R)[g] \in Nat
  BY <1>2, <1>3
<1>10. SumFunctionOnSet(a, R) = SumFunctionOnSet(a, E) + SumFunctionOnSet(a, R \ E)
  BY <1>1, <1>4, <1>9, SumSubset
<1>11. w = SumFunctionOnSet(Wholes(R), E) + SumFunctionOnSet(Wholes(R), R \ E)
  <2> HIDE DEF E
  <2>1. \A g \in R : Wholes(R)[g] \in Nat
    BY <1>9
  <2>2. QED
    BY <1>1, <1>4, <2>1, SumSubset
<1>12. /\ SumFunctionOnSet(Wholes(R), E) \in Nat
       /\ SumFunctionOnSet(Wholes(R), R \ E) \in Nat
  BY <1>1, <1>4, <1>9, SumSubset
<1>13. k = debit - w
  BY DEF k
<1> HIDE DEF w, E
<1>14. SumFunctionOnSet(a, R) = debit
  BY <1>1, <1>7, <1>8, <1>10, <1>11, <1>12, <1>13
<1>15. QED
  BY <1>14 DEF a

\* The cost of rows, between their whole credits and one more for each.
LEMMA CostBounds ==
    ASSUME NEW R \in SUBSET Gens
    PROVE  /\ SumFunctionOnSet(Wholes(R), R) * UnitsPerCredit <= Cost(R)
           /\ Cost(R) <= (SumFunctionOnSet(Wholes(R), R) + Cardinality(R)) * UnitsPerCredit
<1> DEFINE U == UnitsPerCredit
           W(s) == SumFunctionOnSet(Wholes(R), s)
           C(s) == Cost(s)
           Good(s) == W(s) * U <= C(s) /\ C(s) <= (W(s) + Cardinality(s)) * U
           B == {s \in SUBSET R : ~ Good(s)}
<1>1. SUFFICES ASSUME B # {} PROVE FALSE
  OBVIOUS
<1>2. IsFiniteSet(R)
  BY SomeGens
<1>3. PICK s \in B : \A x \in s : s \ {x} \notin B
  BY <1>1, <1>2, SmallestSet
<1>4. s \in SUBSET R /\ IsFiniteSet(s) /\ Cardinality(s) \in Nat
  BY <1>2, <1>3, FS_Subset, FS_CardinalityType
<1>5. s # {}
  <2>1. W({}) = 0 /\ C({}) = 0 /\ Cardinality({}) = 0
    BY SumEmpty, FS_EmptySet DEF Cost
  <2>2. Good({})
    BY <2>1, Units
  <2>3. QED
    BY <1>3, <2>2
<1> DEFINE p == FirstOf(s)
<1>6. p \in s
  BY <1>5, FirstIn
<1>7. W(s) = Wholes(R)[p] + W(s \ {p}) /\ C(s) = Amount[p] + C(s \ {p})
  BY <1>4, <1>5, SumFirst DEF Cost
<1> HIDE DEF p
<1>8. Good(s \ {p})
  BY <1>3, <1>6
<1>9. Cardinality(s \ {p}) = Cardinality(s) - 1
  BY <1>4, <1>6, FS_RemoveElement
<1>10. W(s \ {p}) \in Nat /\ C(s \ {p}) \in Nat
  <2>1. IsFiniteSet(s \ {p}) /\ s \ {p} \in SUBSET R /\ s \ {p} \in SUBSET Gens
    BY <1>4, FS_RemoveElement
  <2>2. \A x \in s \ {p} : Wholes(R)[x] \in Nat
    BY <2>1, Prices DEF Wholes
  <2>3. QED
    BY <2>1, <2>2, SumNat, SomeGens
<1>11. /\ Wholes(R)[p] \in Nat /\ Fraction(p) \in Nat /\ Fraction(p) < U
       /\ Amount[p] = U * Wholes(R)[p] + Fraction(p)
  BY <1>4, <1>6, Prices DEF Wholes
<1>12. ~ Good(s)
  BY <1>3
<1> DEFINE a == Wholes(R)[p]
           w == W(s \ {p})
           c == C(s \ {p})
           n == Cardinality(s)
<1>13. /\ a \in Nat /\ w \in Nat /\ c \in Nat /\ n \in Nat /\ U \in Nat
       /\ Fraction(p) \in Nat /\ Fraction(p) < U
       /\ w * U <= c /\ c <= (w + (n - 1)) * U
  BY <1>4, <1>8, <1>9, <1>10, <1>11, Units
<1>14. W(s) = a + w /\ C(s) = U * a + Fraction(p) + c
  BY <1>7, <1>11
<1> HIDE DEF a, w, c, n, U, W, C
<1>15. (a + w) * U = U * a + w * U /\ (a + w + n) * U = U * a + U + (w + (n - 1)) * U
  BY <1>13
<1>16. (a + w) * U <= U * a + Fraction(p) + c /\ U * a + Fraction(p) + c <= (a + w + n) * U
  BY <1>13, <1>15
<1>17. Good(s)
  BY <1>14, <1>16 DEF n
<1>18. QED
  BY <1>12, <1>17

\* What rows add to the rounded total can be handed out among them.
LEMMA DueBounds ==
    ASSUME NEW R \in SUBSET Gens, NEW b \in Nat
    PROVE  /\ CostToCredits(b + Cost(R)) \in Nat /\ CostToCredits(b) \in Nat
           /\ SumFunctionOnSet(Wholes(R), R) <= CostToCredits(b + Cost(R)) - CostToCredits(b)
           /\ CostToCredits(b + Cost(R)) - CostToCredits(b)
                <= SumFunctionOnSet(Wholes(R), R) + Cardinality(R)
<1>1. Cost(R) \in Nat /\ Cardinality(R) \in Nat /\ SumFunctionOnSet(Wholes(R), R) \in Nat
  BY SomeGens
<1>2. b + Cost(R) \in Nat
  BY <1>1
<1>3. QED
  BY <1>1, <1>2, CostBounds, RoundedSum, RoundedUp

\* Rows without a price cost nothing.
Positive(R) == {g \in R : Amount[g] > 0}

\* So the rows that have one carry the whole cost.
LEMMA CostPositive ==
    ASSUME NEW R \in SUBSET Gens
    PROVE  Cost(R) = Cost(Positive(R))
<1>1. Positive(R) \in SUBSET R
  BY DEF Positive
<1>2. Cost(R) = Cost(Positive(R)) + Cost(R \ Positive(R))
  BY <1>1, SomeGens
<1>3. Cost(R \ Positive(R)) = 0
  <2>1. IsFiniteSet(R \ Positive(R))
    BY SomeGens, FS_Subset
  <2>2. \A g \in R \ Positive(R) : Amount[g] = 0
    BY Prices DEF Positive
  <2>3. QED
    BY <2>1, <2>2, SumZero DEF Cost
<1>4. Cost(Positive(R)) \in Nat
  BY <1>1, SomeGens
<1>5. QED
  BY <1>2, <1>3, <1>4

-----------------------------------------------------------------------------
(* Types, rows and purchases. *)

\* A row belongs to one batch at most and stays in the queue until that batch
\* commits; it is short only for want of its organisation's credits.
RowsHeld ==
    /\ \A b \in Batches : rows[b] # {} => phase[b] = "open"
    /\ \A b \in Batches : \A g \in rows[b] : row[g] = "unbilled"
    /\ \A b, c \in Batches : b # c => rows[b] \cap rows[c] = {}
    /\ \A b \in Batches : \A g \in short[b] :
          g \in rows[b] /\ Amount[g] > 0 /\ OrgOf[g] \in capped
    /\ \A g \in Gens : row[g] \in {"absent", "unbilled"} => attempts[g] < MaxAttempts

\* A Spend between its checks and its commit has no entry yet.
SpendOnce == \A s \in Spends : spender[s] = "write" => spent[s] = 0

\* A Verify at work is one of the calls.
CallsCounted == \A p \in Purchases : verifying[p] <= calls[p]

TInv == TypeOK /\ RowsHeld /\ SpendOnce /\ CallsCounted /\ GrantedOnce

\* The start: nothing sold, charged or held.
LEMMA InitTInv == Init => TInv
<1> SUFFICES ASSUME Init PROVE TInv
  OBVIOUS
<1>1. TypeOK
  <2>1. Welcome \in [Orgs -> Int]
    BY AmountAssumption
  <2>2. QED
    BY <2>1, Units DEF Init, TypeOK, Ticks
<1>2. RowsHeld
  BY Units DEF Init, RowsHeld
<1>3. SpendOnce /\ CallsCounted /\ GrantedOnce
  BY DEF Init, SpendOnce, CallsCounted, GrantedOnce
<1>4. QED
  BY <1>1, <1>2, <1>3 DEF TInv

\* One lemma for each step, that it keeps TInv.
LEMMA GenerateTInv == ASSUME TInv, NEW g \in Gens, Generate(g) PROVE TInv'
<1> USE DEF TInv, Generate, sums, ticks, deals, shop
<1>1. TypeOK'
  BY DEF TypeOK
<1>2. RowsHeld'
  <2>1. /\ row \in [Gens -> {"absent", "unbilled", "billed", "written off"}]
        /\ row[g] = "absent" /\ row' = [row EXCEPT ![g] = "unbilled"]
        /\ UNCHANGED <<rows, short, capped, attempts, phase>>
        /\ rows \in [Batches -> SUBSET Gens] /\ RowsHeld
    BY DEF TypeOK
  <2> HIDE DEF TInv, Generate
  <2>2. QED
    BY <2>1 DEF RowsHeld
<1>3. SpendOnce' /\ CallsCounted' /\ GrantedOnce'
  BY DEF SpendOnce, CallsCounted, GrantedOnce
<1>4. QED
  BY <1>1, <1>2, <1>3

\* Usage of compute is bounded.
LEMMA ComputeTInv == ASSUME TInv, NEW o \in Orgs, Compute(o) PROVE TInv'
<1> USE DEF TInv, Compute, sums, ticks, deals, shop
<1>0. usage' \in [Orgs -> 0..MaxUsage]
  <2>1. /\ usage \in [Orgs -> 0..MaxUsage] /\ usage[o] < MaxUsage
        /\ usage' = [usage EXCEPT ![o] = @ + 1]
    BY DEF TypeOK
  <2> HIDE DEF TInv, Compute
  <2>2. QED
    BY <2>1, Units
<1>1. TypeOK'
  BY <1>0 DEF TypeOK
<1>2. RowsHeld'
  BY DEF RowsHeld
<1>3. SpendOnce' /\ CallsCounted' /\ GrantedOnce'
  BY DEF SpendOnce, CallsCounted, GrantedOnce
<1>4. QED
  BY <1>1, <1>2, <1>3

\* FOR UPDATE SKIP LOCKED: the rows are nobody else's.
LEMMA SelectTInv == ASSUME TInv, NEW b \in Batches, Select(b) PROVE TInv'
<1> USE DEF TInv
<1> DEFINE R == Oldest(Unbilled \ Locked)
           orgs == {OrgOf[g] : g \in {h \in R : Amount[h] > 0}}
           whole == [g \in Gens |-> IF g \in R THEN Whole(g) ELSE 0]
<1>1. /\ R \in SUBSET Gens
      /\ \A g \in R : row[g] = "unbilled" /\ \A c \in Batches : g \notin rows[c]
  BY DEF Oldest, Unbilled, Locked
<1>2. orgs \in SUBSET Orgs /\ whole \in [Gens -> Nat]
  BY <1>1, Prices
<1>3. /\ rows' = [rows EXCEPT ![b] = R] /\ todo' = [todo EXCEPT ![b] = orgs]
      /\ alloc' = [alloc EXCEPT ![b] = whole] /\ phase' = [phase EXCEPT ![b] = "open"]
      /\ UNCHANGED <<sums, work, lock, plan, short, capped, deals, shop>>
      /\ b \in Ticks
  BY DEF Select, Ticks
<1> HIDE DEF R, orgs, whole
<1> USE DEF sums, work, deals, shop
<1>4. TypeOK'
  BY <1>1, <1>2, <1>3 DEF TypeOK
<1>5. RowsHeld'
  <2>1. short[b] = {}
    BY DEF RowsHeld, Select
  <2>2. rows \in [Batches -> SUBSET Gens] /\ phase \in [Ticks -> {"idle", "open", "done"}]
    BY DEF TypeOK
  <2>3. RowsHeld
    OBVIOUS
  <2> HIDE DEF TInv
  <2>4. \A c \in Batches : rows'[c] = IF c = b THEN R ELSE rows[c]
    BY <1>3, <2>2
  <2>5. \A c \in Batches : rows'[c] # {} => phase'[c] = "open"
    BY <1>3, <2>2, <2>3, <2>4 DEF RowsHeld, Ticks
  <2>6. QED
    BY <1>1, <1>3, <2>1, <2>3, <2>4, <2>5 DEF RowsHeld
<1>6. SpendOnce' /\ CallsCounted' /\ GrantedOnce'
  BY <1>3 DEF SpendOnce, CallsCounted, GrantedOnce
<1>7. QED
  BY <1>4, <1>5, <1>6

\* The rows of an organisation that a batch has to charge.
Mine(b, o) == Of(o, Positive(rows[b]))

\* What planCumulativeDebits does to a batch: nothing is due, or the debit is taken
\* whole and handed out, or the organisation is found short of it.
PlanNothing(b, o) ==
    /\ Due(o, Mine(b, o)) <= 0
    /\ UNCHANGED <<plan, alloc, short, capped>>
PlanWhole(b, o) ==
    LET due == Due(o, Mine(b, o)) IN
    /\ due > 0 /\ due <= Headroom(o)
    /\ plan' = [plan EXCEPT ![b][o] = due]
    /\ Give(b, Allocate(Mine(b, o), due, alloc[b]))
    /\ UNCHANGED <<short, capped>>
PlanShort(b, o) ==
    /\ Due(o, Mine(b, o)) > 0
    /\ \/ plan' = plan
       \/ \E debit \in 1..Headroom(o) :
             debit < Due(o, Mine(b, o)) /\ plan' = [plan EXCEPT ![b][o] = debit]
    /\ \E a \in [Mine(b, o) -> Nat] : Give(b, a)
    /\ \E Q \in SUBSET Mine(b, o) : short' = [short EXCEPT ![b] = @ \cup Q]
    /\ capped' = capped \cup {o}

\* What is due and what is left are numbers, whatever their sign.
LEMMA DueType ==
    ASSUME TypeOK, NEW o \in Orgs, NEW R \in SUBSET Gens
    PROVE  Due(o, R) \in Int /\ Headroom(o) \in Int /\ Overdraft \in Nat
<1>1. billedCost[o] \in Nat /\ llmDebited[o] \in Nat /\ balance[o] \in Int
  BY DEF TypeOK
<1>2. billedCost[o] + Cost(R) \in Nat
  BY <1>1, SomeGens
<1>3. QED
  BY <1>1, <1>2, RoundedUp, Numbers DEF Due, Headroom

\* planCumulativeDebits does one of the three.
LEMMA PlanEffect ==
    ASSUME TypeOK, NEW b \in Batches, NEW o \in Orgs, PlanBatch(b, o)
    PROVE  /\ Mine(b, o) \in SUBSET Gens
           /\ PlanNothing(b, o) \/ PlanWhole(b, o) \/ PlanShort(b, o)
<1> DEFINE R == Mine(b, o)
           Nothing == [g \in R |-> 0]
           Partial(debit) == Allocate(R, debit, Nothing)
<1>1. R \in SUBSET Gens /\ R = Of(o, {g \in rows[b] : Amount[g] > 0})
  BY DEF Mine, Of, Positive, TypeOK
<1>2. Due(o, R) \in Int /\ Headroom(o) \in Int
  BY <1>1, DueType
<1>3. Nothing \in [R -> Nat] /\ \A debit \in Int : Partial(debit) \in [R -> Nat]
  BY <1>1, AllocateType
<1>4. Plan(b, o)
  BY DEF PlanBatch
<1>5. \/ /\ Due(o, R) <= 0
         /\ UNCHANGED <<plan, alloc, short, capped>>
      \/ /\ Due(o, R) > 0 /\ Headroom(o) <= 0
         /\ Give(b, Nothing)
         /\ short' = [short EXCEPT ![b] = @ \cup R]
         /\ capped' = capped \cup {o}
         /\ UNCHANGED plan
      \/ /\ Due(o, R) > 0
         /\ \E debit \in 1..Headroom(o) :
               /\ debit = LowerOf(Due(o, R), Headroom(o))
               /\ plan' = [plan EXCEPT ![b][o] = debit]
               /\ capped' = IF debit < Due(o, R) THEN capped \cup {o} ELSE capped
               /\ IF debit < Due(o, R)
                  THEN /\ Give(b, Partial(debit))
                       /\ short' = [short EXCEPT ![b] = @ \cup {g \in R : Partial(debit)[g] = 0}]
                  ELSE /\ Give(b, Allocate(R, debit, alloc[b]))
                       /\ UNCHANGED short
  BY <1>4, Zenon DEF Plan, Mine, Positive
<1> HIDE DEF R
<1>6. CASE Due(o, R) <= 0 /\ UNCHANGED <<plan, alloc, short, capped>>
  BY <1>1, <1>6, Zenon DEF PlanNothing, R
<1>7. CASE /\ Due(o, R) > 0 /\ Headroom(o) <= 0
           /\ Give(b, Nothing)
           /\ short' = [short EXCEPT ![b] = @ \cup R]
           /\ capped' = capped \cup {o}
           /\ UNCHANGED plan
  <2>1. \E a \in [R -> Nat] : Give(b, a)
    BY <1>3, <1>7
  <2>2. \E Q \in SUBSET R : short' = [short EXCEPT ![b] = @ \cup Q]
    BY <1>7
  <2>3. PlanShort(b, o)
    BY <1>7, <2>1, <2>2 DEF PlanShort, R
  <2>4. QED
    BY <1>1, <2>3 DEF R
<1>8. ASSUME Due(o, R) > 0, NEW debit \in 1..Headroom(o),
             debit = LowerOf(Due(o, R), Headroom(o)),
             plan' = [plan EXCEPT ![b][o] = debit],
             capped' = IF debit < Due(o, R) THEN capped \cup {o} ELSE capped,
             IF debit < Due(o, R)
             THEN /\ Give(b, Partial(debit))
                  /\ short' = [short EXCEPT ![b] = @ \cup {g \in R : Partial(debit)[g] = 0}]
             ELSE /\ Give(b, Allocate(R, debit, alloc[b]))
                  /\ UNCHANGED short
      PROVE  PlanWhole(b, o) \/ PlanShort(b, o)
  <2>0. debit \in Int
    OBVIOUS
  <2>1. CASE debit < Due(o, R)
    <3>1. \E a \in [R -> Nat] : Give(b, a)
      BY <1>3, <1>8, <2>0, <2>1
    <3>2. \E Q \in SUBSET R : short' = [short EXCEPT ![b] = @ \cup Q]
      <4> DEFINE Q == {g \in R : Partial(debit)[g] = 0}
      <4>1. Q \in SUBSET R /\ short' = [short EXCEPT ![b] = @ \cup Q]
        BY <1>8, <2>1
      <4> HIDE DEF Q
      <4>2. QED
        BY <4>1
    <3>3. QED
      BY <1>8, <2>1, <3>1, <3>2 DEF PlanShort, R
  <2>2. CASE ~ (debit < Due(o, R))
    <3>1. debit = Due(o, R) /\ Due(o, R) <= Headroom(o)
      BY <1>2, <1>8, <2>2 DEF LowerOf
    <3>2. QED
      BY <1>8, <2>2, <3>1 DEF PlanWhole, R
  <2>3. QED
    BY <2>1, <2>2
<1>9. QED
  BY <1>1, <1>5, <1>6, <1>7, <1>8 DEF R

\* Planning gives credits to rows the batch holds.
LEMMA PlanBatchTInv ==
    ASSUME TInv, NEW b \in Batches, NEW o \in Orgs, PlanBatch(b, o) PROVE TInv'
<1> DEFINE R == Mine(b, o)
<1>1. TypeOK /\ RowsHeld /\ b \in Ticks
  BY DEF TInv, Ticks
<1>2. /\ PlanNothing(b, o) \/ PlanWhole(b, o) \/ PlanShort(b, o)
      /\ R \in SUBSET Gens
      /\ \A g \in R : g \in rows[b] /\ OrgOf[g] = o /\ Amount[g] > 0
  BY <1>1, PlanEffect DEF Mine, Of, Positive
<1>3. /\ lock' = [lock EXCEPT ![o] = b] /\ todo' = [todo EXCEPT ![b] = @ \ {o}]
      /\ UNCHANGED <<sums, work, phase, rows, deals, shop>>
  BY DEF PlanBatch, LockOrg
<1>4. alloc \in [Batches -> [Gens -> Nat]] /\ plan \in [Ticks -> [Orgs -> Nat]]
      /\ short \in [Batches -> SUBSET Gens] /\ capped \in SUBSET Orgs
      /\ rows \in [Batches -> SUBSET Gens]
  BY <1>1 DEF TypeOK
<1>5. ASSUME NEW a \in [R -> Nat], Give(b, a)
      PROVE  alloc' \in [Batches -> [Gens -> Nat]]
  BY <1>2, <1>4, <1>5 DEF Give
<1>6. /\ alloc' \in [Batches -> [Gens -> Nat]] /\ plan' \in [Ticks -> [Orgs -> Nat]]
      /\ short' \in [Batches -> SUBSET Gens] /\ capped' \in SUBSET Orgs
      /\ capped \subseteq capped'
      /\ \A c \in Batches : \A g \in short'[c] :
            g \in short[c] \/ (c = b /\ g \in R /\ o \in capped')
  <2>1. CASE PlanNothing(b, o)
    BY <1>4, <2>1 DEF PlanNothing
  <2>2. CASE PlanWhole(b, o)
    <3>1. Due(o, R) \in Nat
      BY <1>1, <1>2, <2>2, DueType DEF PlanWhole
    <3>2. Allocate(R, Due(o, R), alloc[b]) \in [R -> Nat]
      <4>1. \A g \in R : alloc[b][g] \in Nat
        BY <1>2, <1>4
      <4>2. Due(o, R) \in Int
        BY <3>1
      <4> HIDE DEF R
      <4>3. QED
        BY <1>2, <4>1, <4>2, AllocateType
    <3>3. alloc' \in [Batches -> [Gens -> Nat]]
      BY <1>5, <2>2, <3>2 DEF PlanWhole
    <3>4. plan' \in [Ticks -> [Orgs -> Nat]]
      BY <1>1, <1>4, <2>2, <3>1 DEF PlanWhole
    <3>5. QED
      BY <1>4, <2>2, <3>3, <3>4 DEF PlanWhole
  <2>3. CASE PlanShort(b, o)
    <3>1. alloc' \in [Batches -> [Gens -> Nat]]
      BY <1>5, <2>3 DEF PlanShort
    <3>2. plan' \in [Ticks -> [Orgs -> Nat]]
      <4>1. Headroom(o) \in Int
        BY <1>1, <1>2, DueType
      <4>2. \A debit \in 1..Headroom(o) : debit \in Nat
        BY <4>1
      <4>3. \/ plan' = plan
            \/ \E debit \in 1..Headroom(o) : plan' = [plan EXCEPT ![b][o] = debit]
        BY <2>3 DEF PlanShort
      <4>4. ASSUME NEW debit \in Nat PROVE [plan EXCEPT ![b][o] = debit] \in [Ticks -> [Orgs -> Nat]]
        BY <1>1, <1>4
      <4>5. CASE plan' = plan
        BY <1>4, <4>5
      <4>6. ASSUME NEW debit \in 1..Headroom(o), plan' = [plan EXCEPT ![b][o] = debit]
            PROVE  plan' \in [Ticks -> [Orgs -> Nat]]
        BY <4>2, <4>4, <4>6
      <4>7. QED
        BY <4>3, <4>5, <4>6
    <3>3. PICK Q \in SUBSET R : short' = [short EXCEPT ![b] = @ \cup Q]
      BY <2>3 DEF PlanShort
    <3>4. capped' = capped \cup {o}
      BY <2>3 DEF PlanShort
    <3>5. QED
      BY <1>2, <1>4, <3>1, <3>2, <3>3, <3>4
  <2>4. QED
    BY <1>2, <2>1, <2>2, <2>3
<1> HIDE DEF R
<1>7. TypeOK'
  <2>1. /\ lock' \in [Orgs -> Ticks \cup Spends \cup {None}]
        /\ todo' \in [Ticks -> SUBSET Orgs]
    BY <1>1, <1>3 DEF TypeOK
  <2>2. QED
    BY <1>1, <1>3, <1>6, <2>1 DEF TypeOK, sums, work, deals, shop
<1>8. RowsHeld'
  BY <1>1, <1>2, <1>3, <1>6 DEF RowsHeld, work
<1>9. SpendOnce' /\ CallsCounted' /\ GrantedOnce'
  BY <1>3 DEF TInv, SpendOnce, CallsCounted, GrantedOnce, sums, deals, shop
<1>10. QED
  BY <1>7, <1>8, <1>9 DEF TInv

\* The transactions of the ticks end with their rows and plans cleared.
LEMMA CloseKeeps ==
    ASSUME TInv, NEW t \in Ticks, Close(t)
    PROVE  /\ phase' \in [Ticks -> {"idle", "open", "done"}]
           /\ todo' \in [Ticks -> SUBSET Orgs] /\ plan' \in [Ticks -> [Orgs -> Nat]]
           /\ rows' \in [Batches -> SUBSET Gens] /\ short' \in [Batches -> SUBSET Gens]
           /\ alloc' \in [Batches -> [Gens -> Nat]] /\ capped' \subseteq Orgs
           /\ lock' \in [Orgs -> Ticks \cup Spends \cup {None}]
<1>1. TypeOK
  BY DEF TInv
<1>2. QED
  BY <1>1 DEF Close, Unlock, TypeOK

\* A transaction that ends gives its rows back.
LEMMA CloseRows ==
    ASSUME TInv, NEW t \in Ticks, Close(t), UNCHANGED <<row, attempts>>
    PROVE  RowsHeld'
<1>1. RowsHeld /\ rows \in [Batches -> SUBSET Gens]
      /\ phase \in [Ticks -> {"idle", "open", "done"}]
  BY DEF TInv, TypeOK
<1>2. /\ \A b \in Batches : rows'[b] = (IF b = t THEN {} ELSE rows[b])
                            /\ short'[b] = (IF b = t THEN {} ELSE short[b])
      /\ \A b \in Batches : b # t => phase'[b] = phase[b]
      /\ capped' = capped
  BY <1>1 DEF Close, Ticks
<1>3. QED
  BY <1>1, <1>2 DEF RowsHeld

\* The rows a batch commits leave the queue or are tried once more.
LEMMA CommitBatchTInv == ASSUME TInv, NEW b \in Batches, CommitBatch(b) PROVE TInv'
<1> DEFINE paidFor == rows[b] \ short[b]
<1>1. TypeOK /\ RowsHeld /\ b \in Ticks
  BY DEF TInv, Ticks
<1>2. Close(b) /\ UNCHANGED <<sandDebited, spent, topups, usage, deals, shop>>
  BY DEF CommitBatch
<1>3. /\ balance' \in [Orgs -> Int] /\ llmDebited' \in [Orgs -> Nat]
  <2>1. /\ balance' = [o \in Orgs |-> balance[o] - plan[b][o]]
        /\ llmDebited' = [o \in Orgs |-> llmDebited[o] + plan[b][o]]
    BY DEF CommitBatch
  <2>2. \A o \in Orgs : balance[o] \in Int /\ llmDebited[o] \in Nat /\ plan[b][o] \in Nat
    BY <1>1 DEF TypeOK
  <2>3. QED
    BY <2>1, <2>2
<1>4. billedCost' \in [Orgs -> Nat]
  <2>1. \A o \in Orgs : Of(o, paidFor) \in SUBSET Gens
    BY <1>1 DEF Of, TypeOK
  <2>2. \A o \in Orgs : Cost(Of(o, paidFor)) \in Nat
    BY <2>1, SomeGens
  <2>3. billedCost' = [o \in Orgs |-> billedCost[o] + Cost(Of(o, paidFor))]
    BY DEF CommitBatch
  <2>4. \A o \in Orgs : billedCost[o] \in Nat
    BY <1>1 DEF TypeOK
  <2> HIDE DEF paidFor
  <2>5. QED
    BY <2>2, <2>3, <2>4
<1>5. /\ row \in [Gens -> {"absent", "unbilled", "billed", "written off"}]
      /\ attempts \in [Gens -> 0..MaxAttempts]
      /\ \A g \in short[b] : row[g] = "unbilled" /\ attempts[g] < MaxAttempts
      /\ short[b] \subseteq rows[b] /\ rows[b] \subseteq Gens
  BY <1>1 DEF TypeOK, RowsHeld
<1>6. /\ row' \in [Gens -> {"absent", "unbilled", "billed", "written off"}]
      /\ \A g \in Gens : row'[g] = IF g \in paidFor THEN "billed"
                                   ELSE IF g \in short[b] /\ Exhausted(g) THEN "written off"
                                   ELSE row[g]
  BY <1>5 DEF CommitBatch
<1>7. \A g \in Gens :
          attempts'[g] = IF g \in short[b] THEN attempts[g] + 1 ELSE attempts[g]
  BY DEF CommitBatch
<1>8. attempts' \in [Gens -> 0..MaxAttempts]
  <2>1. attempts' = [g \in Gens |-> IF g \in short[b] THEN attempts[g] + 1 ELSE attempts[g]]
    BY DEF CommitBatch
  <2>2. \A g \in Gens : attempts[g] \in 0..MaxAttempts
                         /\ (g \in short[b] => attempts[g] + 1 \in 0..MaxAttempts)
    <3>1. MaxAttempts \in Nat
      BY Units
    <3>2. ASSUME NEW g \in Gens PROVE attempts[g] \in 0..MaxAttempts
      BY <1>5
    <3>3. ASSUME NEW g \in short[b] PROVE attempts[g] + 1 \in 0..MaxAttempts
      <4>1. attempts[g] \in 0..MaxAttempts /\ attempts[g] < MaxAttempts
        BY <1>5, <3>2
      <4>2. QED
        BY <3>1, <4>1
    <3>4. QED
      BY <3>2, <3>3
  <2>3. QED
    BY <2>1, <2>2
<1>9. credits' \in [Gens -> Nat]
  <2>1. credits' = [g \in Gens |-> IF g \in rows[b] THEN alloc[b][g] ELSE credits[g]]
    BY DEF CommitBatch
  <2>2. \A g \in Gens : credits[g] \in Nat /\ alloc[b][g] \in Nat
    BY <1>1 DEF TypeOK
  <2>3. QED
    BY <2>1, <2>2
<1>10. TypeOK'
  BY <1>1, <1>2, <1>3, <1>4, <1>6, <1>8, <1>9, CloseKeeps DEF TypeOK, deals, shop
<1>11. RowsHeld'
  <2>1. /\ \A c \in Batches : rows'[c] = (IF c = b THEN {} ELSE rows[c])
                              /\ short'[c] = (IF c = b THEN {} ELSE short[c])
        /\ \A c \in Batches : c # b => phase'[c] = phase[c]
        /\ capped' = capped
    BY <1>1, <1>2 DEF Close, TypeOK, Ticks
  <2>2. \A c \in Batches : c # b => \A g \in rows[c] : row'[g] = row[g]
    <3>1. \A c \in Batches : c # b => \A g \in rows[c] : g \notin rows[b] /\ g \in Gens
      BY <1>1 DEF RowsHeld, TypeOK
    <3>2. QED
      BY <1>5, <1>6, <3>1
  <2>3. \A g \in Gens : row'[g] \in {"absent", "unbilled"} => attempts'[g] < MaxAttempts
    <3> SUFFICES ASSUME NEW g \in Gens, row'[g] \in {"absent", "unbilled"}
                 PROVE  attempts'[g] < MaxAttempts
      OBVIOUS
    <3>1. g \notin paidFor /\ ~ (g \in short[b] /\ Exhausted(g)) /\ row'[g] = row[g]
      BY <1>6
    <3>2. attempts[g] \in Nat /\ (row[g] \in {"absent", "unbilled"} => attempts[g] < MaxAttempts)
      <4>1. attempts[g] \in 0..MaxAttempts
        BY <1>5
      <4>2. row[g] \in {"absent", "unbilled"} => attempts[g] < MaxAttempts
        BY <1>1 DEF RowsHeld
      <4>3. QED
        BY <4>1, <4>2, Units
    <3>3. CASE g \in short[b]
      BY <1>7, <3>1, <3>2, <3>3, Units DEF Exhausted
    <3>4. CASE g \notin short[b]
      BY <1>7, <3>1, <3>2, <3>4
    <3>5. QED
      BY <3>3, <3>4
  <2>4. QED
    BY <1>1, <2>1, <2>2, <2>3 DEF RowsHeld
<1>12. SpendOnce' /\ CallsCounted' /\ GrantedOnce'
  BY <1>2 DEF TInv, SpendOnce, CallsCounted, GrantedOnce, deals, shop
<1>13. QED
  BY <1>10, <1>11, <1>12 DEF TInv

\* A rollback leaves the rows as they were.
LEMMA RollbackTInv == ASSUME TInv, NEW t \in Ticks, Rollback(t) PROVE TInv'
<1>1. Close(t) /\ UNCHANGED <<sums, work, deals, shop>>
  BY DEF Rollback
<1>2. TypeOK'
  BY <1>1, CloseKeeps DEF TInv, TypeOK, sums, work, deals, shop
<1>3. RowsHeld'
  BY <1>1, CloseRows DEF work
<1>4. SpendOnce' /\ CallsCounted' /\ GrantedOnce'
  BY <1>1 DEF TInv, SpendOnce, CallsCounted, GrantedOnce, sums, deals, shop
<1>5. QED
  BY <1>2, <1>3, <1>4 DEF TInv

\* A sandbox tick holds no rows.
LEMMA SandboxTInv == ASSUME TInv, NEW t \in SandboxTicks, SandboxStep(t) PROVE TInv'
<1>1. t \in Ticks /\ t \notin Batches /\ TypeOK /\ RowsHeld
  BY NamesAssumption DEF TInv, Ticks
<1>2. CASE StartSandbox(t)
  <2>1. /\ todo' = [todo EXCEPT ![t] = {o \in Orgs : usage[o] > 0}]
        /\ phase' = [phase EXCEPT ![t] = "open"]
        /\ UNCHANGED <<sums, work, lock, plan, rows, alloc, short, capped, deals, shop>>
    BY <1>2 DEF StartSandbox
  <2>2. TypeOK'
    BY <1>1, <2>1 DEF TypeOK, sums, work, deals, shop
  <2>3. RowsHeld'
    BY <1>1, <2>1 DEF RowsHeld, TypeOK, work, Ticks
  <2>4. SpendOnce' /\ CallsCounted' /\ GrantedOnce'
    BY <2>1 DEF TInv, SpendOnce, CallsCounted, GrantedOnce, sums, deals, shop
  <2>5. QED
    BY <2>2, <2>3, <2>4 DEF TInv
<1>3. ASSUME NEW o \in Orgs, PlanSandbox(t, o) PROVE TInv'
  <2>1. /\ lock' = [lock EXCEPT ![o] = t] /\ todo' = [todo EXCEPT ![t] = @ \ {o}]
        /\ UNCHANGED <<sums, work, phase, rows, alloc, short, capped, deals, shop>>
    BY <1>3 DEF PlanSandbox, LockOrg
  <2>2. plan' \in [Ticks -> [Orgs -> Nat]]
    <3>1. Headroom(o) \in Int /\ plan \in [Ticks -> [Orgs -> Nat]]
      BY <1>1, DueType DEF TypeOK
    <3>2. \/ plan' = plan
          \/ \E debit \in 1..Headroom(o) : plan' = [plan EXCEPT ![t][o] = debit]
      BY <1>3 DEF PlanSandbox
    <3>3. ASSUME NEW debit \in 1..Headroom(o), plan' = [plan EXCEPT ![t][o] = debit]
          PROVE  plan' \in [Ticks -> [Orgs -> Nat]]
      <4>1. debit \in Nat
        BY <3>1
      <4>2. QED
        BY <1>1, <3>1, <3>3, <4>1
    <3>4. QED
      BY <3>1, <3>2, <3>3
  <2>3. TypeOK'
    BY <1>1, <2>1, <2>2 DEF TypeOK, sums, work, deals, shop
  <2>4. RowsHeld'
    BY <1>1, <2>1 DEF RowsHeld, work
  <2>5. SpendOnce' /\ CallsCounted' /\ GrantedOnce'
    BY <2>1 DEF TInv, SpendOnce, CallsCounted, GrantedOnce, sums, deals, shop
  <2>6. QED
    BY <2>3, <2>4, <2>5 DEF TInv
<1>4. CASE CommitSandbox(t)
  <2>1. /\ balance' = [o \in Orgs |-> balance[o] - plan[t][o]]
        /\ sandDebited' = [o \in Orgs |-> sandDebited[o] + plan[t][o]]
        /\ Close(t)
        /\ UNCHANGED <<llmDebited, billedCost, spent, topups, work, deals, shop>>
    BY <1>4 DEF CommitSandbox
  <2>2. balance' \in [Orgs -> Int] /\ sandDebited' \in [Orgs -> Nat]
    <3>1. \A o \in Orgs : balance[o] \in Int /\ sandDebited[o] \in Nat /\ plan[t][o] \in Nat
      BY <1>1 DEF TypeOK
    <3>2. QED
      BY <2>1, <3>1
  <2>3. TypeOK'
    BY <1>1, <2>1, <2>2, CloseKeeps DEF TypeOK, work, deals, shop
  <2>4. RowsHeld'
    BY <1>1, <2>1, CloseRows DEF work
  <2>5. SpendOnce' /\ CallsCounted' /\ GrantedOnce'
    BY <2>1 DEF TInv, SpendOnce, CallsCounted, GrantedOnce, deals, shop
  <2>6. QED
    BY <2>3, <2>4, <2>5 DEF TInv
<1>5. QED
  BY <1>2, <1>3, <1>4 DEF SandboxStep

\* A Spend that commits had found no entry.
LEMMA SpendTInv == ASSUME TInv, NEW s \in Spends, SpendStep(s) \/ SpendFails(s) PROVE TInv'
<1>1. TypeOK /\ RowsHeld /\ SpendOnce /\ CallsCounted /\ GrantedOnce /\ MaxCalls \in Nat
      /\ OrgOf[s] \in Orgs /\ Amount[s] \in Nat
  BY Units, Numbers DEF TInv
<1>2. /\ spent \in [Spends -> 0..1] /\ spender \in [Spends -> {"idle", "write"}]
      /\ calls \in [Spends \cup Purchases -> 0..MaxCalls] /\ balance \in [Orgs -> Int]
      /\ lock \in [Orgs -> Ticks \cup Spends \cup {None}]
  BY <1>1 DEF TypeOK
<1>3. CASE SpendChecks(s)
  <2>1. UNCHANGED <<sums, work, ticks, shop>> /\ calls[s] < MaxCalls
        /\ calls' = [calls EXCEPT ![s] = @ + 1]
    BY <1>3 DEF SpendChecks
  <2>2. /\ \/ UNCHANGED <<lock, spender>>
           \/ /\ spent[s] = 0
              /\ lock' = [lock EXCEPT ![OrgOf[s]] = s]
              /\ spender' = [spender EXCEPT ![s] = "write"]
    BY <1>3 DEF SpendChecks
  <2>3. calls' \in [Spends \cup Purchases -> 0..MaxCalls]
        /\ \A p \in Purchases : calls'[p] >= calls[p]
    <3>1. calls[s] \in 0..MaxCalls /\ calls[s] + 1 \in 0..MaxCalls
      BY <1>1, <1>2, <2>1
    <3>2. \A p \in Purchases : calls[p] \in Nat
      BY <1>2
    <3>3. QED
      BY <1>2, <2>1, <3>1, <3>2
  <2>4. /\ lock' \in [Orgs -> Ticks \cup Spends \cup {None}]
        /\ spender' \in [Spends -> {"idle", "write"}]
    BY <1>1, <1>2, <2>2
  <2>5. TypeOK'
    BY <1>1, <2>1, <2>3, <2>4 DEF TypeOK, sums, work, ticks, shop
  <2>6. RowsHeld'
    BY <1>1, <2>1 DEF RowsHeld, work, ticks
  <2>7. SpendOnce'
    BY <1>1, <1>2, <2>1, <2>2 DEF SpendOnce, sums
  <2>8. CallsCounted'
    <3>1. \A p \in Purchases : verifying[p] \in Int /\ calls[p] \in Int /\ calls'[p] \in Int
      <4>1. verifying \in [Purchases -> 0..MaxCalls]
        BY <1>1 DEF TypeOK
      <4>2. QED
        BY <1>1, <1>2, <2>3, <4>1
    <3>2. QED
      BY <1>1, <2>1, <2>3, <3>1 DEF CallsCounted, shop
  <2>9. GrantedOnce'
    BY <1>1, <2>1 DEF GrantedOnce, sums, shop
  <2>10. QED
    BY <2>5, <2>6, <2>7, <2>8, <2>9 DEF TInv
<1>4. CASE SpendCommits(s) \/ SpendFails(s)
  <2>1. /\ spender[s] = "write" /\ spender' = [spender EXCEPT ![s] = "idle"]
        /\ Unlock(s)
        /\ UNCHANGED <<llmDebited, sandDebited, billedCost, topups, work, ticks, calls, shop>>
        /\ \/ UNCHANGED <<spent, balance>>
           \/ /\ spent' = [spent EXCEPT ![s] = @ + 1]
              /\ balance' = [balance EXCEPT ![OrgOf[s]] = @ - Amount[s]]
    BY <1>4 DEF SpendCommits, SpendFails, sums
  <2>2. spent[s] = 0
    BY <1>1, <2>1 DEF SpendOnce
  <2>3. /\ spent' \in [Spends -> 0..1] /\ balance' \in [Orgs -> Int]
        /\ spender' \in [Spends -> {"idle", "write"}]
        /\ lock' \in [Orgs -> Ticks \cup Spends \cup {None}]
    BY <1>1, <1>2, <2>1, <2>2 DEF Unlock
  <2>4. TypeOK'
    BY <1>1, <2>1, <2>3 DEF TypeOK, work, ticks, shop
  <2>5. RowsHeld'
    BY <1>1, <2>1 DEF RowsHeld, work, ticks
  <2>6. SpendOnce'
    BY <1>1, <1>2, <2>1 DEF SpendOnce
  <2>7. CallsCounted' /\ GrantedOnce'
    BY <1>1, <2>1 DEF CallsCounted, GrantedOnce, shop
  <2>8. QED
    BY <2>4, <2>5, <2>6, <2>7 DEF TInv
<1>5. QED
  BY <1>3, <1>4 DEF SpendStep

\* A shop step leaves the ticks and the rows alone.
LEMMA ShopTInv ==
    ASSUME TInv, NEW p \in Purchases,
           Create(p) \/ Pay(p) \/ Created(p) \/ VerifyResolves(p) \/ VerifyCredits(p)
    PROVE  TInv'
<1>1. TypeOK /\ RowsHeld /\ SpendOnce /\ CallsCounted /\ GrantedOnce /\ MaxCalls \in Nat
      /\ OrgOf[p] \in Orgs /\ Amount[p] \in Nat
  BY Units, Numbers DEF TInv
<1>2. /\ purchase \in [Purchases -> {"none", "pending", "failed", "credited"}]
      /\ creating \in [Purchases -> BOOLEAN] /\ paid \in [Purchases -> BOOLEAN]
      /\ verifying \in [Purchases -> 0..MaxCalls]
      /\ calls \in [Spends \cup Purchases -> 0..MaxCalls]
      /\ topups \in [Purchases -> 0..1] /\ balance \in [Orgs -> Int]
  BY <1>1 DEF TypeOK
<1>3. UNCHANGED <<llmDebited, sandDebited, billedCost, spent, work, lock, ticks, spender>>
  BY DEF Create, Pay, Created, VerifyResolves, VerifyCredits, sums, deals
<1>4. RowsHeld' /\ SpendOnce'
  BY <1>1, <1>3 DEF RowsHeld, SpendOnce, work, ticks
<1>5. /\ purchase' \in [Purchases -> {"none", "pending", "failed", "credited"}]
      /\ creating' \in [Purchases -> BOOLEAN] /\ paid' \in [Purchases -> BOOLEAN]
      /\ verifying' \in [Purchases -> 0..MaxCalls]
      /\ calls' \in [Spends \cup Purchases -> 0..MaxCalls]
      /\ topups' \in [Purchases -> 0..1] /\ balance' \in [Orgs -> Int]
      /\ CallsCounted' /\ GrantedOnce'
      => TInv'
  <2>1. SUFFICES ASSUME /\ purchase' \in [Purchases -> {"none", "pending", "failed", "credited"}]
                        /\ creating' \in [Purchases -> BOOLEAN] /\ paid' \in [Purchases -> BOOLEAN]
                        /\ verifying' \in [Purchases -> 0..MaxCalls]
                        /\ calls' \in [Spends \cup Purchases -> 0..MaxCalls]
                        /\ topups' \in [Purchases -> 0..1] /\ balance' \in [Orgs -> Int]
                        /\ CallsCounted' /\ GrantedOnce'
                 PROVE  TInv'
    OBVIOUS
  <2>2. TypeOK'
    BY <1>1, <1>3, <2>1 DEF TypeOK, work, ticks
  <2>3. QED
    BY <1>4, <2>1, <2>2 DEF TInv
<1>6. CASE Create(p)
  <2>1. UNCHANGED <<sums, deals, paid, verifying>> /\ purchase[p] = "none"
        /\ purchase' = [purchase EXCEPT ![p] = "pending"]
        /\ creating' = [creating EXCEPT ![p] = TRUE]
    BY <1>6 DEF Create
  <2>2. purchase' \in [Purchases -> {"none", "pending", "failed", "credited"}]
    BY <1>2, <2>1
  <2>3. creating' \in [Purchases -> BOOLEAN]
    BY <1>2, <2>1
  <2>4. CallsCounted'
    BY <1>1, <2>1 DEF CallsCounted, deals
  <2>5. GrantedOnce'
    BY <1>1, <1>2, <2>1 DEF GrantedOnce, sums
  <2>6. QED
    BY <1>2, <1>5, <2>1, <2>2, <2>3, <2>4, <2>5 DEF sums, deals
<1>7. CASE Pay(p)
  <2>1. UNCHANGED <<sums, deals, purchase, creating, verifying>>
        /\ paid' = [paid EXCEPT ![p] = TRUE]
    BY <1>7 DEF Pay
  <2>2. paid' \in [Purchases -> BOOLEAN]
    BY <1>2, <2>1
  <2>3. CallsCounted' /\ GrantedOnce'
    BY <1>1, <2>1 DEF CallsCounted, GrantedOnce, deals, sums
  <2>4. QED
    BY <1>2, <1>5, <2>1, <2>2, <2>3 DEF sums, deals
<1>8. CASE Created(p)
  <2>1. UNCHANGED <<sums, deals, paid, verifying>>
        /\ creating' = [creating EXCEPT ![p] = FALSE]
        /\ (purchase' = purchase \/ purchase' = [purchase EXCEPT ![p] = "failed"])
    BY <1>8 DEF Created
  <2>2. creating' \in [Purchases -> BOOLEAN]
    BY <1>2, <2>1
  <2>3. purchase' \in [Purchases -> {"none", "pending", "failed", "credited"}]
        /\ \A q \in Purchases : purchase'[q] = "credited" => purchase[q] = "credited"
    BY <1>2, <2>1
  <2>4. CallsCounted'
    BY <1>1, <2>1 DEF CallsCounted, deals
  <2>5. GrantedOnce'
    BY <1>1, <2>1, <2>3 DEF GrantedOnce, sums
  <2>6. QED
    BY <1>2, <1>5, <2>1, <2>2, <2>3, <2>4, <2>5 DEF sums, deals
<1>9. CASE VerifyResolves(p)
  <2>1. UNCHANGED <<sums, purchase, creating, paid>> /\ calls[p] < MaxCalls
        /\ calls' = [calls EXCEPT ![p] = @ + 1]
        /\ verifying' = [verifying EXCEPT ![p] = @ + 1]
    BY <1>9 DEF VerifyResolves
  <2>2. verifying[p] \in Int /\ calls[p] \in Int /\ verifying[p] >= 0 /\ calls[p] >= 0
        /\ verifying[p] <= calls[p]
    BY <1>1, <1>2 DEF CallsCounted
  <2>3. verifying[p] + 1 \in 0..MaxCalls /\ calls[p] + 1 \in 0..MaxCalls
    BY <1>1, <2>1, <2>2
  <2>4. calls' \in [Spends \cup Purchases -> 0..MaxCalls]
    BY <1>2, <2>1, <2>3
  <2>5. verifying' \in [Purchases -> 0..MaxCalls]
    BY <1>2, <2>1, <2>3
  <2>6. CallsCounted'
    <3> SUFFICES ASSUME NEW q \in Purchases PROVE verifying'[q] <= calls'[q]
      BY DEF CallsCounted
    <3>1. verifying[q] <= calls[q]
      BY <1>1 DEF CallsCounted
    <3>2. CASE q = p
      BY <1>2, <2>1, <2>2, <3>2
    <3>3. CASE q # p
      BY <1>2, <2>1, <3>1, <3>3
    <3>4. QED
      BY <3>2, <3>3
  <2>7. GrantedOnce'
    BY <1>1, <2>1 DEF GrantedOnce, sums
  <2>8. QED
    BY <1>2, <1>5, <2>1, <2>4, <2>5, <2>6, <2>7 DEF sums
<1>10. CASE VerifyCredits(p)
  <2>1. UNCHANGED <<deals, creating, paid>> /\ verifying[p] > 0
        /\ verifying' = [verifying EXCEPT ![p] = @ - 1]
        /\ \/ UNCHANGED <<purchase, topups, balance>>
           \/ /\ Grant(p)
              /\ purchase' = [purchase EXCEPT ![p] = "credited"]
    BY <1>10 DEF VerifyCredits
  <2>2. verifying[p] \in Int /\ verifying[p] - 1 \in 0..MaxCalls
    BY <1>1, <1>2, <2>1
  <2>3. verifying' \in [Purchases -> 0..MaxCalls]
        /\ \A q \in Purchases : verifying'[q] <= verifying[q]
    BY <1>2, <2>1, <2>2
  <2>4. CallsCounted'
    <3> SUFFICES ASSUME NEW q \in Purchases PROVE verifying'[q] <= calls[q]
      BY <2>1 DEF CallsCounted, deals
    <3>1. verifying[q] <= calls[q] /\ verifying[q] \in Int /\ verifying'[q] \in Int
          /\ calls[q] \in Int
      BY <1>1, <1>2, <2>3 DEF CallsCounted
    <3>2. QED
      BY <2>3, <3>1
  <2>5. /\ topups' \in [Purchases -> 0..1] /\ balance' \in [Orgs -> Int]
        /\ purchase' \in [Purchases -> {"none", "pending", "failed", "credited"}]
        /\ GrantedOnce'
    <3>1. CASE UNCHANGED <<purchase, topups, balance>>
      BY <1>1, <1>2, <3>1 DEF GrantedOnce
    <3>2. CASE Grant(p) /\ purchase' = [purchase EXCEPT ![p] = "credited"]
      <4>1. \A q \in Purchases : topups[q] = 0 \/ topups[q] = 1
        BY <1>2
      <4>2. /\ topups' \in [Purchases -> 0..1] /\ topups'[p] = 1
            /\ \A q \in Purchases : q # p => topups'[q] = topups[q]
        BY <1>2, <3>2, <4>1 DEF Grant
      <4>3. balance' \in [Orgs -> Int]
        BY <1>1, <1>2, <3>2 DEF Grant
      <4>4. /\ purchase' \in [Purchases -> {"none", "pending", "failed", "credited"}]
            /\ \A q \in Purchases : q # p => purchase'[q] = purchase[q]
        BY <1>2, <3>2
      <4>5. GrantedOnce'
        <5> SUFFICES ASSUME NEW q \in Purchases
                     PROVE  topups'[q] <= 1 /\ (purchase'[q] = "credited" => topups'[q] = 1)
          BY DEF GrantedOnce
        <5>1. CASE q = p
          BY <4>2, <5>1
        <5>2. CASE q # p
          BY <1>1, <4>2, <4>4, <5>2 DEF GrantedOnce
        <5>3. QED
          BY <5>1, <5>2
      <4>6. QED
        BY <4>2, <4>3, <4>4, <4>5
    <3>3. QED
      BY <2>1, <3>1, <3>2
  <2>6. QED
    BY <1>2, <1>5, <2>1, <2>3, <2>4, <2>5 DEF deals
<1>11. QED
  BY <1>6, <1>7, <1>8, <1>9, <1>10

\* Every step keeps TInv.
LEMMA NextTInv == TInv /\ [Next]_vars => TInv'
<1> SUFFICES ASSUME TInv, [Next]_vars PROVE TInv'
  OBVIOUS
<1>1. CASE UNCHANGED vars
  BY <1>1 DEF TInv, TypeOK, RowsHeld, SpendOnce, CallsCounted, GrantedOnce,
       vars, sums, work, ticks, deals, shop
<1>2. CASE \E b \in Batches : BatchStep(b)
  BY <1>2, SelectTInv, PlanBatchTInv, CommitBatchTInv DEF BatchStep
<1>3. CASE Next /\ ~\E b \in Batches : BatchStep(b)
  BY <1>3, GenerateTInv, ComputeTInv, RollbackTInv, SandboxTInv, SpendTInv, ShopTInv DEF Next
<1>4. QED
  BY <1>1, <1>2, <1>3

\* TypeOK holds in every state: the batches, ticks, spends and purchases keep the
\* ledger, the rows and the locks in their types; a Spend and a purchase have at
\* most one entry, and no row is tried more often than maxInsufficientCreditAttempts.
THEOREM TypeCorrect == Spec => []TypeOK
<1>1. TInv => TypeOK
  BY DEF TInv
<1>2. QED
  BY <1>1, InitTInv, NextTInv, PTL DEF Spec

\* GrantedOnce holds in every state: a purchase is granted once, although a late
\* markFailed takes the credited status back and lets Verify in again.
THEOREM GrantedTheorem == Spec => []GrantedOnce
<1>1. TInv => GrantedOnce
  BY DEF TInv
<1>2. QED
  BY <1>1, InitTInv, NextTInv, PTL DEF Spec

-----------------------------------------------------------------------------
(* The ledger and the rows.  A batch plans an organisation's debit under its *)
(* lock, and what the debit was computed from stays as it was until the      *)
(* batch commits, because whoever changes it needs the same lock.            *)

Billed(o) == Of(o, {g \in Gens : row[g] = "billed"})

\* A batch has locked the organisations of its rows or still has to; until then
\* the rows have their whole credits.
BatchHeld(b) ==
    /\ \A o \in Orgs : lock[o] = b => phase[b] = "open"
    /\ \A g \in rows[b] : Amount[g] > 0 => OrgOf[g] \in todo[b] \/ lock[OrgOf[g]] = b
    /\ \A o \in todo[b] : lock[o] # b /\ \A g \in Mine(b, o) : alloc[b][g] = Whole(g)
    /\ \A g \in rows[b] : Amount[g] = 0 => alloc[b][g] = 0

\* What it plans is at most what is due now; taken whole it is that, and the
\* rows have it.
BatchPlans(b) ==
    \A o \in Orgs : lock[o] = b =>
        /\ plan[b][o] # 0 => plan[b][o] <= Due(o, Mine(b, o))
        /\ o \notin capped =>
              /\ plan[b][o] = Due(o, Mine(b, o))
              /\ SumFunctionOnSet(alloc[b], Mine(b, o)) = plan[b][o]

Books ==
    \A o \in Orgs :
        /\ billedCost[o] = Cost(Billed(o))
        /\ o \notin capped => llmDebited[o] = CostToCredits(billedCost[o])

\* A row that was given credits by a batch that found it short has a capped
\* organisation.
Uncredited ==
    \A g \in Gens :
        row[g] \in {"absent", "unbilled"} /\ OrgOf[g] \notin capped => credits[g] = 0

Ledger == Books /\ Uncredited /\ NeverOvercharged /\ RowsMatchEntries
Held == \A b \in Batches : BatchHeld(b) /\ BatchPlans(b)
LInv == Held /\ Ledger

\* The sets the sums range over are sets of generations.
LEMMA SetsOfGens ==
    ASSUME NEW R \in SUBSET Gens, NEW o
    PROVE  Of(o, R) \in SUBSET R /\ Of(o, R) \in SUBSET Gens /\ Positive(R) \in SUBSET Gens
BY DEF Of, Positive

\* The books are empty at the start.
LEMMA InitLInv == Init => LInv
<1> SUFFICES ASSUME Init PROVE LInv
  OBVIOUS
<1>1. /\ \A g \in Gens : row[g] = "absent" /\ credits[g] = 0
      /\ \A o \in Orgs : llmDebited[o] = 0 /\ billedCost[o] = 0 /\ lock[o] = None
      /\ \A b \in Batches : rows[b] = {} /\ todo[b] = {}
  BY DEF Init, Ticks
<1>2. Held
  <2>1. \A b \in Batches : b # None
    BY NamesAssumption DEF Ticks
  <2>2. QED
    BY <1>1, <2>1 DEF Held, BatchHeld, BatchPlans
<1>3. Books
  <2> SUFFICES ASSUME NEW o \in Orgs
               PROVE  billedCost[o] = Cost(Billed(o)) /\ llmDebited[o] = CostToCredits(billedCost[o])
    BY DEF Books
  <2>1. Billed(o) = {}
    BY <1>1 DEF Billed, Of
  <2>2. Cost(Billed(o)) = 0
    BY <2>1, SumEmpty DEF Cost
  <2>3. QED
    BY <1>1, <2>2, RoundedZero
<1>4. Uncredited
  BY <1>1 DEF Uncredited
<1>5. NeverOvercharged
  <2> SUFFICES ASSUME NEW o \in Orgs PROVE llmDebited[o] <= CostToCredits(Cost(Generated(o)))
    BY DEF NeverOvercharged
  <2>1. Generated(o) = {}
    BY <1>1 DEF Generated, Of
  <2>2. Cost(Generated(o)) = 0
    BY <2>1, SumEmpty DEF Cost
  <2>3. QED
    BY <1>1, <2>2, RoundedZero
<1>6. RowsMatchEntries
  <2> SUFFICES ASSUME NEW o \in Orgs PROVE SumFunctionOnSet(credits, Of(o, Gens)) = llmDebited[o]
    BY DEF RowsMatchEntries
  <2>1. Of(o, Gens) \in SUBSET Gens
    BY SetsOfGens
  <2>2. IsFiniteSet(Of(o, Gens)) /\ \A g \in Of(o, Gens) : credits[g] = 0
    BY <1>1, <2>1, SomeGens
  <2>3. SumFunctionOnSet(credits, Of(o, Gens)) = 0
    BY <2>2, SumZero
  <2>4. QED
    BY <1>1, <2>3
<1>7. QED
  BY <1>2, <1>3, <1>4, <1>5, <1>6 DEF LInv, Ledger

\* A step that does nothing to a batch or to the books of its organisations.
LEMMA BatchAlone ==
    ASSUME TypeOK, NEW b \in Batches, BatchHeld(b), BatchPlans(b),
           \A o \in Orgs : lock'[o] = b <=> lock[o] = b,
           phase'[b] = phase[b], rows'[b] = rows[b], todo'[b] = todo[b],
           alloc'[b] = alloc[b], plan'[b] = plan[b], capped \subseteq capped',
           \A o \in Orgs : lock[o] = b =>
               billedCost'[o] = billedCost[o] /\ llmDebited'[o] = llmDebited[o]
    PROVE  BatchHeld(b)' /\ BatchPlans(b)'
<1>1. /\ \A g \in rows[b] : OrgOf[g] \in Orgs
      /\ todo[b] \in SUBSET Orgs
  <2>1. rows[b] \in SUBSET Gens /\ b \in Ticks /\ todo \in [Ticks -> SUBSET Orgs]
    BY DEF TypeOK, Ticks
  <2>2. QED
    BY <2>1, Prices
<1>2. \A o \in Orgs : Mine(b, o)' = Mine(b, o)
  BY DEF Mine
<1>3. \A o \in Orgs : lock[o] = b => Due(o, Mine(b, o))' = Due(o, Mine(b, o))
  BY <1>2 DEF Due
<1>4. BatchHeld(b)'
  <2>1. \A o \in Orgs : lock'[o] = b => phase'[b] = "open"
    BY DEF BatchHeld
  <2>2. \A g \in rows'[b] : Amount[g] > 0 => OrgOf[g] \in todo'[b] \/ lock'[OrgOf[g]] = b
    BY <1>1 DEF BatchHeld
  <2>3. \A o \in todo'[b] : lock'[o] # b /\ \A g \in Mine(b, o)' : alloc'[b][g] = Whole(g)
    BY <1>1, <1>2 DEF BatchHeld
  <2>4. \A g \in rows'[b] : Amount[g] = 0 => alloc'[b][g] = 0
    BY DEF BatchHeld
  <2>5. QED
    BY <2>1, <2>2, <2>3, <2>4 DEF BatchHeld
<1>5. BatchPlans(b)'
  <2> SUFFICES ASSUME NEW o \in Orgs, lock'[o] = b
               PROVE  /\ plan'[b][o] # 0 => plan'[b][o] <= Due(o, Mine(b, o))'
                      /\ o \notin capped' =>
                            /\ plan'[b][o] = Due(o, Mine(b, o))'
                            /\ SumFunctionOnSet(alloc'[b], Mine(b, o)') = plan'[b][o]
    BY DEF BatchPlans
  <2>1. /\ plan[b][o] # 0 => plan[b][o] <= Due(o, Mine(b, o))
        /\ o \notin capped =>
              /\ plan[b][o] = Due(o, Mine(b, o))
              /\ SumFunctionOnSet(alloc[b], Mine(b, o)) = plan[b][o]
    BY DEF BatchPlans
  <2>2. QED
    BY <1>2, <1>3, <2>1
<1>6. QED
  BY <1>4, <1>5

\* A step that writes neither entries nor rows.
LEMMA LedgerAlone ==
    ASSUME Ledger, UNCHANGED <<billedCost, llmDebited, credits, row>>, capped \subseteq capped'
    PROVE  Ledger'
BY DEF Ledger, Books, Uncredited, NeverOvercharged, RowsMatchEntries, Billed, Generated

\* A transaction that takes a free lock or gives its own back, and is no batch,
\* concerns no batch.
LEMMA OthersLInv ==
    ASSUME TypeOK, LInv, NEW t, t \notin Batches,
           \A o \in Orgs : lock'[o] = lock[o] \/ (lock[o] \in {t, None} /\ lock'[o] \in {t, None}),
           UNCHANGED <<rows, alloc, capped, billedCost, llmDebited, credits, row>>,
           \A b \in Batches : phase'[b] = phase[b] /\ todo'[b] = todo[b] /\ plan'[b] = plan[b]
    PROVE  LInv'
<1>1. \A b \in Batches : b # None /\ b # t
  BY NamesAssumption DEF Ticks
<1>2. ASSUME NEW b \in Batches PROVE BatchHeld(b)' /\ BatchPlans(b)'
  <2>1. BatchHeld(b) /\ BatchPlans(b) /\ \A o \in Orgs : lock'[o] = b <=> lock[o] = b
    BY <1>1 DEF LInv, Held
  <2>2. QED
    BY <2>1, BatchAlone
<1>3. Ledger'
  BY LedgerAlone DEF LInv
<1>4. QED
  BY <1>2, <1>3 DEF LInv, Held

\* A generation raises what may be charged and nothing else.
LEMMA GenerateLInv == ASSUME TInv, LInv, NEW g \in Gens, Generate(g) PROVE LInv'
<1>1. TypeOK /\ row[g] = "absent" /\ row' = [row EXCEPT ![g] = "unbilled"]
      /\ UNCHANGED <<sums, attempts, credits, usage, lock, ticks, deals, shop>>
  BY DEF TInv, Generate
<1>2. row \in [Gens -> {"absent", "unbilled", "billed", "written off"}]
  BY <1>1 DEF TypeOK
<1>3. \A h \in Gens : /\ row'[h] = "billed" <=> row[h] = "billed"
                      /\ row[h] # "absent" => row'[h] # "absent"
                      /\ row'[h] \in {"absent", "unbilled"} => row[h] \in {"absent", "unbilled"}
  BY <1>1, <1>2
<1>4. Held'
  BY <1>1 DEF LInv, Held, BatchHeld, BatchPlans, Mine, Due, sums, ticks
<1>5. Books'
  <2>1. \A o \in Orgs : Billed(o)' = Billed(o)
    BY <1>3 DEF Billed, Of
  <2>2. QED
    BY <1>1, <2>1 DEF LInv, Ledger, Books, sums, ticks
<1>6. Uncredited'
  BY <1>1, <1>3 DEF LInv, Ledger, Uncredited, ticks
<1>7. NeverOvercharged'
  <2> SUFFICES ASSUME NEW o \in Orgs PROVE llmDebited[o] <= CostToCredits(Cost(Generated(o)'))
    BY <1>1 DEF NeverOvercharged, sums
  <2>1. Generated(o) \in SUBSET Generated(o)' /\ Generated(o)' \in SUBSET Gens
    BY <1>3 DEF Generated, Of
  <2>2. /\ Cost(Generated(o)) \in Nat /\ Cost(Generated(o)') \in Nat
        /\ Cost(Generated(o)' \ Generated(o)) \in Nat
        /\ Cost(Generated(o)') = Cost(Generated(o)) + Cost(Generated(o)' \ Generated(o))
    BY <2>1, SomeGens
  <2>3. /\ CostToCredits(Cost(Generated(o))) <= CostToCredits(Cost(Generated(o)'))
        /\ CostToCredits(Cost(Generated(o))) \in Nat /\ CostToCredits(Cost(Generated(o)')) \in Nat
    BY <2>2, RoundedMonotone, RoundedUp
  <2>4. llmDebited[o] <= CostToCredits(Cost(Generated(o))) /\ llmDebited[o] \in Nat
    BY <1>1 DEF LInv, Ledger, NeverOvercharged, TypeOK
  <2>5. QED
    BY <2>3, <2>4
<1>8. RowsMatchEntries'
  BY <1>1 DEF LInv, Ledger, RowsMatchEntries, sums, ticks
<1>9. QED
  BY <1>4, <1>5, <1>6, <1>7, <1>8 DEF LInv, Ledger

\* A batch selects before it has a lock.
LEMMA SelectLInv == ASSUME TInv, LInv, NEW b \in Batches, Select(b) PROVE LInv'
<1> DEFINE R == Oldest(Unbilled \ Locked)
<1>1. TypeOK /\ b \in Ticks
  BY DEF TInv, Ticks
<1>2. /\ phase[b] = "idle" /\ phase' = [phase EXCEPT ![b] = "open"]
      /\ rows' = [rows EXCEPT ![b] = R]
      /\ todo' = [todo EXCEPT ![b] = {OrgOf[g] : g \in {h \in R : Amount[h] > 0}}]
      /\ alloc' = [alloc EXCEPT ![b] = [g \in Gens |-> IF g \in R THEN Whole(g) ELSE 0]]
      /\ UNCHANGED <<sums, work, lock, plan, short, capped, deals, shop>>
  BY DEF Select
<1>3. R \in SUBSET Gens
  BY DEF Oldest, Unbilled
<1> HIDE DEF R
<1>4. \A o \in Orgs : lock[o] # b
  BY <1>2 DEF LInv, Held, BatchHeld
<1>5. /\ rows'[b] = R /\ todo'[b] = {OrgOf[g] : g \in {h \in R : Amount[h] > 0}}
      /\ \A g \in Gens : alloc'[b][g] = IF g \in R THEN Whole(g) ELSE 0
      /\ \A c \in Batches : c # b =>
            /\ phase'[c] = phase[c] /\ rows'[c] = rows[c]
            /\ todo'[c] = todo[c] /\ alloc'[c] = alloc[c]
  BY <1>1, <1>2 DEF TypeOK, Ticks
<1>6. ASSUME NEW c \in Batches PROVE BatchHeld(c)' /\ BatchPlans(c)'
  <2>1. CASE c # b
    BY <1>1, <1>2, <1>5, <2>1, BatchAlone DEF LInv, Held, sums
  <2>2. CASE c = b
    <3>1. \A o \in Orgs : lock'[o] # b
      BY <1>2, <1>4
    <3>2. \A g \in R : OrgOf[g] \in Orgs /\ g \in Gens
      BY <1>3, Prices
    <3>3. \A g \in R : Amount[g] > 0 => OrgOf[g] \in todo'[b]
      BY <1>5
    <3>4. todo'[b] \in SUBSET Orgs
      BY <1>5, <3>2
    <3>5. \A g \in R : Amount[g] = 0 => Whole(g) = 0
      BY <3>2, Units DEF Whole
    <3>6. \A o : Mine(b, o)' \in SUBSET R
      BY <1>5 DEF Mine, Of, Positive
    <3>7. BatchHeld(b)'
      <4>1. \A g \in rows'[b] : Amount[g] > 0 => OrgOf[g] \in todo'[b]
        BY <1>5, <3>3
      <4>2. \A o \in todo'[b] : lock'[o] # b /\ \A g \in Mine(b, o)' : alloc'[b][g] = Whole(g)
        BY <1>5, <3>1, <3>2, <3>4, <3>6
      <4>3. \A g \in rows'[b] : Amount[g] = 0 => alloc'[b][g] = 0
        BY <1>5, <3>2, <3>5
      <4>4. QED
        BY <3>1, <4>1, <4>2, <4>3 DEF BatchHeld
    <3>8. BatchPlans(b)'
      BY <3>1 DEF BatchPlans
    <3>9. QED
      BY <2>2, <3>7, <3>8
  <2>3. QED
    BY <2>1, <2>2
<1>7. Ledger'
  BY <1>2, LedgerAlone DEF LInv, sums, work
<1>8. QED
  BY <1>6, <1>7 DEF LInv, Held

\* Give changes the credits of the rows it is given.
LEMMA Gives ==
    ASSUME TypeOK, NEW b \in Batches, NEW a, Give(b, a)
    PROVE  /\ \A c \in Batches : c # b => alloc'[c] = alloc[c]
           /\ \A g \in Gens : alloc'[b][g] = IF g \in DOMAIN a THEN a[g] ELSE alloc[b][g]
BY DEF Give, TypeOK

\* What a batch that plans an organisation leaves alone.
LEMMA PlanOthers ==
    ASSUME TypeOK, NEW b \in Batches, NEW o \in Orgs,
           PlanNothing(b, o) \/ PlanWhole(b, o) \/ PlanShort(b, o)
    PROVE  /\ \A c \in Batches : c # b => alloc'[c] = alloc[c] /\ plan'[c] = plan[c]
           /\ \A p \in Orgs : p # o => plan'[b][p] = plan[b][p]
           /\ \A g \in Gens : g \notin Mine(b, o) => alloc'[b][g] = alloc[b][g]
           /\ capped' = capped \/ capped' = capped \cup {o}
<1>1. plan \in [Ticks -> [Orgs -> Nat]] /\ b \in Ticks /\ Batches \subseteq Ticks
  BY DEF TypeOK, Ticks
<1>2. CASE PlanNothing(b, o)
  BY <1>2 DEF PlanNothing
<1>3. CASE PlanWhole(b, o)
  <2> DEFINE A == Allocate(Mine(b, o), Due(o, Mine(b, o)), alloc[b])
             due == Due(o, Mine(b, o))
  <2>1. Give(b, A) /\ plan' = [plan EXCEPT ![b][o] = due] /\ capped' = capped
    BY <1>3 DEF PlanWhole
  <2>2. DOMAIN A = Mine(b, o)
    <3>1. Mine(b, o) \in SUBSET Gens
      BY DEF Mine, Of, Positive, TypeOK
    <3>2. QED
      BY <3>1, AllocateIs
  <2> HIDE DEF A, due
  <2>3. QED
    BY <1>1, <2>1, <2>2, Gives
<1>4. CASE PlanShort(b, o)
  <2>1. PICK a \in [Mine(b, o) -> Nat] : Give(b, a)
    BY <1>4 DEF PlanShort
  <2>2. /\ plan' = plan \/ \E debit \in 1..Headroom(o) : plan' = [plan EXCEPT ![b][o] = debit]
        /\ capped' = capped \cup {o}
    BY <1>4 DEF PlanShort
  <2>3. /\ \A c \in Batches : c # b => plan'[c] = plan[c]
        /\ \A p \in Orgs : p # o => plan'[b][p] = plan[b][p]
    BY <1>1, <2>2
  <2>4. QED
    BY <2>1, <2>2, <2>3, Gives
<1>5. QED
  BY <1>2, <1>3, <1>4

\* The debit of an organisation whose debits were taken whole: what its rows add to
\* the rounded total.
LEMMA DueAdds ==
    ASSUME TypeOK, Books, NEW o \in Orgs, o \notin capped, NEW R \in SUBSET Gens
    PROVE  /\ Due(o, R) \in Nat
           /\ SumFunctionOnSet(Wholes(R), R) \in Nat
           /\ SumFunctionOnSet(Wholes(R), R) <= Due(o, R)
           /\ Due(o, R) <= SumFunctionOnSet(Wholes(R), R) + Cardinality(R)
<1>1. billedCost[o] \in Nat /\ llmDebited[o] = CostToCredits(billedCost[o])
  BY DEF TypeOK, Books
<1>2. Due(o, R) = CostToCredits(billedCost[o] + Cost(R)) - CostToCredits(billedCost[o])
  BY <1>1 DEF Due
<1>3. SumFunctionOnSet(Wholes(R), R) \in Nat
  BY SomeGens
<1>4. QED
  BY <1>1, <1>2, <1>3, DueBounds

\* The plan of an organisation, with nothing owed to rounding so far: nothing, or
\* the whole debit, and the rows have it.
LEMMA PlannedWhole ==
    ASSUME TypeOK, Books, NEW b \in Batches, NEW o \in Orgs,
           PlanNothing(b, o) \/ PlanWhole(b, o), o \notin capped, plan[b][o] = 0,
           \A g \in Mine(b, o) : alloc[b][g] = Whole(g)
    PROVE  /\ plan'[b][o] = Due(o, Mine(b, o))
           /\ SumFunctionOnSet(alloc'[b], Mine(b, o)) = plan'[b][o]
<1> DEFINE R == Mine(b, o)
           due == Due(o, R)
           W == SumFunctionOnSet(Wholes(R), R)
<1>1. R \in SUBSET Gens /\ IsFiniteSet(R)
  <2>1. R \in SUBSET Gens
    BY DEF Mine, Of, Positive, TypeOK
  <2>2. QED
    BY <2>1, SomeGens
<1>2. due \in Nat /\ W \in Nat /\ W <= due /\ due <= W + Cardinality(R)
  BY <1>1, DueAdds
<1>3. CASE PlanNothing(b, o)
  <2>1. due <= 0 /\ plan' = plan /\ alloc' = alloc
    BY <1>3 DEF PlanNothing
  <2>2. due = 0 /\ W = 0
    BY <1>2, <2>1
  <2>3. \A g \in R : alloc[b][g] = Wholes(R)[g]
    BY DEF Wholes
  <2>4. SumFunctionOnSet(alloc[b], R) = W
    BY <1>1, <2>3, SumSame
  <2>5. QED
    BY <2>1, <2>2, <2>4
<1>4. CASE PlanWhole(b, o)
  <2> DEFINE A == Allocate(R, due, alloc[b])
  <2>1. plan' = [plan EXCEPT ![b][o] = due] /\ Give(b, A)
    BY <1>4 DEF PlanWhole
  <2>2. DOMAIN A = R
    BY <1>1, AllocateIs
  <2>3. SumFunctionOnSet(A, R) = due
    BY <1>1, <1>2, AllocateExact
  <2> HIDE DEF A, R, due
  <2>4. \A g \in R : alloc'[b][g] = A[g]
    BY <1>1, <2>1, <2>2, Gives
  <2>5. SumFunctionOnSet(alloc'[b], R) = SumFunctionOnSet(A, R)
    BY <1>1, <2>4, SumSame
  <2>6. plan'[b][o] = due
    BY <2>1 DEF TypeOK, Ticks
  <2>7. QED
    BY <2>3, <2>5, <2>6 DEF R, due
<1>5. QED
  BY <1>3, <1>4

\* A batch that plans an organisation keeps its own books and the others'.
LEMMA PlanBatchLInv ==
    ASSUME IInv, TInv, LInv, NEW b \in Batches, NEW o \in Orgs, PlanBatch(b, o) PROVE LInv'
<1>1. TypeOK /\ b \in Ticks /\ b # None
  BY NamesAssumption DEF TInv, Ticks
<1>2. /\ o \in todo[b] /\ lock[o] = None /\ lock' = [lock EXCEPT ![o] = b]
      /\ phase[b] = "open"
      /\ todo' = [todo EXCEPT ![b] = @ \ {o}]
      /\ UNCHANGED <<sums, work, phase, rows, deals, shop>>
  BY DEF PlanBatch, LockOrg, Free
<1>3. PlanNothing(b, o) \/ PlanWhole(b, o) \/ PlanShort(b, o)
  BY <1>1, PlanEffect
<1>4. /\ \A c \in Batches : c # b => alloc'[c] = alloc[c] /\ plan'[c] = plan[c]
      /\ \A p \in Orgs : p # o => plan'[b][p] = plan[b][p]
      /\ \A g \in Gens : g \notin Mine(b, o) => alloc'[b][g] = alloc[b][g]
      /\ capped' = capped \/ capped' = capped \cup {o}
  BY <1>1, <1>3, PlanOthers
<1>5. /\ \A p \in Orgs : p # o => lock'[p] = lock[p]
      /\ lock'[o] = b
      /\ todo'[b] = todo[b] \ {o} /\ \A c \in Batches : c # b => todo'[c] = todo[c]
  BY <1>1, <1>2 DEF TypeOK, Ticks
<1>6. plan[b][o] = 0
  BY <1>1, <1>2 DEF IInv, PlannedUnderLock
<1>7. BatchHeld(b) /\ BatchPlans(b) /\ Books
  BY DEF LInv, Held, Ledger
<1>8. /\ rows[b] \in SUBSET Gens /\ todo[b] \in SUBSET Orgs
      /\ \A p : Mine(b, p) \in SUBSET rows[b] /\ Mine(b, p)' = Mine(b, p)
      /\ \A p : \A g \in Mine(b, p) : OrgOf[g] = p /\ Amount[g] > 0
  BY <1>1, <1>2 DEF TypeOK, Mine, Of, Positive
<1>9. \A p \in Orgs : Due(p, Mine(b, p))' = Due(p, Mine(b, p))
  BY <1>2, <1>8 DEF Due, sums
<1>10. BatchHeld(b)'
  <2>1. \A p \in Orgs : lock'[p] = b => phase'[b] = "open"
    BY <1>2
  <2>2. \A g \in rows'[b] : Amount[g] > 0 => OrgOf[g] \in todo'[b] \/ lock'[OrgOf[g]] = b
    <3>1. \A g \in rows[b] : OrgOf[g] \in Orgs
      BY <1>8, Prices
    <3>2. QED
      BY <1>2, <1>5, <1>7, <3>1 DEF BatchHeld
  <2>3. \A p \in todo'[b] : lock'[p] # b /\ \A g \in Mine(b, p)' : alloc'[b][g] = Whole(g)
    <3> SUFFICES ASSUME NEW p \in todo'[b]
                 PROVE  lock'[p] # b /\ \A g \in Mine(b, p) : alloc'[b][g] = Whole(g)
      BY <1>8
    <3>1. p \in todo[b] /\ p # o /\ p \in Orgs
      BY <1>5, <1>8
    <3>2. lock[p] # b /\ \A g \in Mine(b, p) : alloc[b][g] = Whole(g)
      BY <1>7, <3>1 DEF BatchHeld
    <3>3. \A g \in Mine(b, p) : g \in Gens /\ g \notin Mine(b, o)
      BY <1>8, <3>1
    <3>4. QED
      BY <1>4, <1>5, <3>1, <3>2, <3>3
  <2>4. \A g \in rows'[b] : Amount[g] = 0 => alloc'[b][g] = 0
    <3>1. \A g \in rows[b] : Amount[g] = 0 => g \in Gens /\ g \notin Mine(b, o)
      BY <1>8
    <3>2. QED
      BY <1>2, <1>4, <1>7, <3>1 DEF BatchHeld
  <2>5. QED
    BY <2>1, <2>2, <2>3, <2>4 DEF BatchHeld
<1>11. BatchPlans(b)'
  <2> SUFFICES ASSUME NEW p \in Orgs, lock'[p] = b
               PROVE  /\ plan'[b][p] # 0 => plan'[b][p] <= Due(p, Mine(b, p))
                      /\ p \notin capped' =>
                            /\ plan'[b][p] = Due(p, Mine(b, p))
                            /\ SumFunctionOnSet(alloc'[b], Mine(b, p)) = plan'[b][p]
    BY <1>8, <1>9 DEF BatchPlans
  <2>1. CASE p # o
    <3>1. lock[p] = b
      BY <1>5, <2>1
    <3>2. /\ plan[b][p] # 0 => plan[b][p] <= Due(p, Mine(b, p))
          /\ p \notin capped =>
                /\ plan[b][p] = Due(p, Mine(b, p))
                /\ SumFunctionOnSet(alloc[b], Mine(b, p)) = plan[b][p]
      BY <1>7, <3>1 DEF BatchPlans
    <3>3. \A g \in Mine(b, p) : alloc'[b][g] = alloc[b][g]
      <4>1. \A g \in Mine(b, p) : g \in Gens /\ g \notin Mine(b, o)
        BY <1>8, <2>1
      <4>2. QED
        BY <1>4, <4>1
    <3>4. SumFunctionOnSet(alloc'[b], Mine(b, p)) = SumFunctionOnSet(alloc[b], Mine(b, p))
      <4>1. IsFiniteSet(Mine(b, p))
        BY <1>8, SomeGens
      <4>2. QED
        BY <3>3, <4>1, SumSame
    <3>5. plan'[b][p] = plan[b][p] /\ capped \subseteq capped'
      BY <1>4, <2>1
    <3>6. QED
      BY <3>2, <3>4, <3>5
  <2>2. CASE p = o
    <3>1. \A g \in Mine(b, o) : alloc[b][g] = Whole(g)
      BY <1>2, <1>7 DEF BatchHeld
    <3>2. CASE PlanNothing(b, o) \/ PlanWhole(b, o)
      <4>1. CASE o \notin capped
        <5>1. /\ plan'[b][o] = Due(o, Mine(b, o))
              /\ SumFunctionOnSet(alloc'[b], Mine(b, o)) = plan'[b][o]
          BY <1>1, <1>6, <1>7, <3>1, <3>2, <4>1, PlannedWhole
        <5>2. Mine(b, o) \in SUBSET Gens
          BY <1>8
        <5>3. Due(o, Mine(b, o)) \in Int
          BY <1>1, <5>2, DueType
        <5>4. QED
          BY <2>2, <5>1, <5>3
      <4>2. CASE o \in capped
        <5>1. plan'[b][o] = 0 \/ plan'[b][o] = Due(o, Mine(b, o))
          <6> DEFINE due == Due(o, Mine(b, o))
          <6>1. plan' = plan \/ plan' = [plan EXCEPT ![b][o] = due]
            BY <3>2 DEF PlanNothing, PlanWhole
          <6>2. plan \in [Ticks -> [Orgs -> Nat]]
            BY <1>1 DEF TypeOK
          <6> HIDE DEF due
          <6>3. plan'[b][o] = 0 \/ plan'[b][o] = due
            BY <1>1, <1>6, <6>1, <6>2
          <6>4. QED
            BY <6>3 DEF due
        <5>2. Mine(b, o) \in SUBSET Gens
          BY <1>8
        <5>3. Due(o, Mine(b, o)) \in Int
          BY <1>1, <5>2, DueType
        <5>4. QED
          BY <1>4, <2>2, <4>2, <5>1, <5>3
      <4>3. QED
        BY <4>1, <4>2
    <3>3. CASE PlanShort(b, o)
      <4>1. Mine(b, o) \in SUBSET Gens
        BY <1>8
      <4>2. Due(o, Mine(b, o)) \in Int /\ Headroom(o) \in Int
        BY <1>1, <4>1, DueType
      <4>3. \/ plan' = plan
            \/ \E debit \in 1..Headroom(o) :
                  debit < Due(o, Mine(b, o)) /\ plan' = [plan EXCEPT ![b][o] = debit]
        BY <3>3 DEF PlanShort
      <4>4. plan'[b][o] # 0 => plan'[b][o] <= Due(o, Mine(b, o))
        <5> DEFINE due == Due(o, Mine(b, o))
        <5>1. plan \in [Ticks -> [Orgs -> Nat]]
          BY <1>1 DEF TypeOK
        <5>2. ASSUME NEW debit \in 1..Headroom(o), debit < due,
                     plan' = [plan EXCEPT ![b][o] = debit]
              PROVE  plan'[b][o] <= due
          <6> HIDE DEF due
          <6>1. debit \in Int /\ due \in Int
            BY <4>2 DEF due
          <6>2. plan'[b][o] = debit
            BY <1>1, <5>1, <5>2
          <6>3. QED
            BY <5>2, <6>1, <6>2
        <5>3. QED
          BY <1>6, <4>3, <5>2
      <4>5. o \in capped'
        BY <3>3 DEF PlanShort
      <4>6. QED
        BY <2>2, <4>4, <4>5
    <3>4. QED
      BY <1>3, <3>2, <3>3
  <2>3. QED
    BY <2>1, <2>2
<1>12. ASSUME NEW c \in Batches, c # b PROVE BatchHeld(c)' /\ BatchPlans(c)'
  <2>1. \A p \in Orgs : lock'[p] = c <=> lock[p] = c
    <3>1. c # None
      BY NamesAssumption DEF Ticks
    <3>2. QED
      BY <1>2, <1>5, <1>12, <3>1
  <2>2. /\ phase'[c] = phase[c] /\ rows'[c] = rows[c] /\ todo'[c] = todo[c]
        /\ alloc'[c] = alloc[c] /\ plan'[c] = plan[c] /\ capped \subseteq capped'
        /\ billedCost' = billedCost /\ llmDebited' = llmDebited
    BY <1>2, <1>4, <1>5, <1>12 DEF sums
  <2>3. QED
    BY <1>1, <2>1, <2>2, BatchAlone DEF LInv, Held
<1>13. Ledger'
  <2>1. UNCHANGED <<billedCost, llmDebited, credits, row>> /\ capped \subseteq capped'
    BY <1>2, <1>4 DEF sums, work
  <2>2. QED
    BY <2>1, LedgerAlone DEF LInv
<1>14. QED
  BY <1>10, <1>11, <1>12, <1>13 DEF LInv, Held

\* Disjoint rows cost what they cost apart.
LEMMA CostUnion ==
    ASSUME NEW R \in SUBSET Gens, NEW Q \in SUBSET Gens, R \cap Q = {}
    PROVE  Cost(R \cup Q) = Cost(R) + Cost(Q)
<1>1. IsFiniteSet(R) /\ IsFiniteSet(Q)
  BY SomeGens
<1>2. \A g \in R \cup Q : Amount[g] \in Nat
  BY Prices
<1>3. QED
  BY <1>1, <1>2, SumUnion DEF Cost

\* Fewer rows cost no more, rounded or not.
LEMMA CostMonotone ==
    ASSUME NEW Q \in SUBSET Gens, NEW R \in SUBSET Q
    PROVE  /\ Cost(R) \in Nat /\ Cost(Q) \in Nat /\ Cost(R) <= Cost(Q)
           /\ CostToCredits(Cost(R)) \in Nat /\ CostToCredits(Cost(Q)) \in Nat
           /\ CostToCredits(Cost(R)) <= CostToCredits(Cost(Q))
<1>1. /\ Cost(R) \in Nat /\ Cost(Q) \in Nat /\ Cost(Q \ R) \in Nat
      /\ Cost(Q) = Cost(R) + Cost(Q \ R)
  BY SomeGens
<1>2. Cost(R) <= Cost(Q)
  BY <1>1
<1>3. QED
  BY <1>1, <1>2, RoundedMonotone, RoundedUp

\* What a batch that commits has of an organisation: nothing it pays or planned,
\* unless it has the lock.
LEMMA CommitRows ==
    ASSUME IInv, TInv, LInv, NEW b \in Batches, todo[b] = {}, NEW o \in Orgs
    PROVE  /\ Of(o, rows[b]) \in SUBSET Gens /\ Of(o, rows[b] \ short[b]) \in SUBSET Of(o, rows[b])
           /\ Mine(b, o) \in SUBSET Of(o, rows[b])
           /\ Cost(Of(o, rows[b])) = Cost(Mine(b, o))
           /\ lock[o] # b => plan[b][o] = 0 /\ Mine(b, o) = {}
                             /\ Cost(Of(o, rows[b] \ short[b])) = 0
           /\ o \notin capped => Of(o, rows[b] \ short[b]) = Of(o, rows[b])
<1>1. TypeOK /\ RowsHeld /\ BatchHeld(b) /\ b \in Ticks
  BY DEF TInv, LInv, Held, Ticks
<1>2. /\ Of(o, rows[b]) \in SUBSET Gens /\ Of(o, rows[b] \ short[b]) \in SUBSET Of(o, rows[b])
      /\ Mine(b, o) = Positive(Of(o, rows[b]))
      /\ Mine(b, o) \in SUBSET Of(o, rows[b])
  BY <1>1 DEF Mine, Of, Positive, TypeOK
<1>3. Cost(Of(o, rows[b])) = Cost(Mine(b, o))
  BY <1>2, CostPositive
<1>4. ASSUME lock[o] # b
      PROVE  plan[b][o] = 0 /\ Mine(b, o) = {} /\ Cost(Of(o, rows[b] \ short[b])) = 0
  <2>1. plan[b][o] = 0
    BY <1>1, <1>4 DEF IInv, PlannedUnderLock
  <2>2. Mine(b, o) = {}
    BY <1>1, <1>4 DEF BatchHeld, Mine, Of, Positive
  <2>3. Cost(Of(o, rows[b])) = 0
    BY <1>3, <2>2, SumEmpty DEF Cost
  <2>4. /\ Cost(Of(o, rows[b] \ short[b])) \in Nat
        /\ Cost(Of(o, rows[b] \ short[b])) <= Cost(Of(o, rows[b]))
    BY <1>2, CostMonotone
  <2>5. QED
    BY <2>1, <2>2, <2>3, <2>4
<1>5. ASSUME o \notin capped PROVE Of(o, rows[b] \ short[b]) = Of(o, rows[b])
  BY <1>1, <1>5 DEF RowsHeld, Of
<1>6. QED
  BY <1>2, <1>3, <1>4, <1>5

\* What CommitBatch writes on the rows and in the books.
LEMMA CommitWrites ==
    ASSUME TInv, NEW b \in Batches, CommitBatch(b)
    PROVE  /\ \A g \in Gens :
                 /\ row'[g] = "billed" <=> row[g] = "billed" \/ g \in rows[b] \ short[b]
                 /\ row'[g] = "absent" <=> row[g] = "absent"
                 /\ row'[g] \in {"absent", "unbilled"} =>
                       row[g] \in {"absent", "unbilled"} /\ (g \in rows[b] => g \in short[b])
                 /\ credits'[g] = IF g \in rows[b] THEN alloc[b][g] ELSE credits[g]
           /\ \A o \in Orgs :
                 /\ llmDebited'[o] = llmDebited[o] + plan[b][o]
                 /\ billedCost'[o] = billedCost[o] + Cost(Of(o, rows[b] \ short[b]))
           /\ capped' = capped
           /\ todo[b] = {}
<1>1. TypeOK /\ RowsHeld
  BY DEF TInv
<1>2. \A g \in Gens : row'[g] = IF g \in rows[b] \ short[b] THEN "billed"
                                ELSE IF g \in short[b] /\ Exhausted(g) THEN "written off"
                                ELSE row[g]
  BY DEF CommitBatch
<1>3. \A g \in rows[b] : row[g] = "unbilled"
  BY <1>1 DEF RowsHeld
<1>4. short[b] \subseteq rows[b]
  BY <1>1 DEF RowsHeld
<1>5. ASSUME NEW g \in Gens
      PROVE  /\ row'[g] = "billed" <=> row[g] = "billed" \/ g \in rows[b] \ short[b]
             /\ row'[g] = "absent" <=> row[g] = "absent"
             /\ row'[g] \in {"absent", "unbilled"} =>
                   row[g] \in {"absent", "unbilled"} /\ (g \in rows[b] => g \in short[b])
  BY <1>2, <1>3, <1>4
<1>6. /\ \A g \in Gens : credits'[g] = IF g \in rows[b] THEN alloc[b][g] ELSE credits[g]
      /\ \A o \in Orgs :
            /\ llmDebited'[o] = llmDebited[o] + plan[b][o]
            /\ billedCost'[o] = billedCost[o] + Cost(Of(o, rows[b] \ short[b]))
      /\ capped' = capped /\ todo[b] = {}
  BY DEF CommitBatch, Close
<1>7. QED
  BY <1>5, <1>6

\* The commit takes the plan into the books.
LEMMA CommitBooks ==
    ASSUME IInv, TInv, LInv, NEW b \in Batches, CommitBatch(b)
    PROVE  Books' /\ Uncredited' /\ NeverOvercharged' /\ RowsMatchEntries'
<1>1. TypeOK /\ RowsHeld /\ BatchHeld(b) /\ BatchPlans(b)
      /\ Books /\ Uncredited /\ NeverOvercharged /\ RowsMatchEntries
  BY DEF TInv, LInv, Held, Ledger
<1>2. todo[b] = {} /\ capped' = capped
  BY CommitWrites
<1>3. ASSUME NEW o \in Orgs
      PROVE  /\ billedCost'[o] = Cost(Billed(o)')
             /\ o \notin capped => llmDebited'[o] = CostToCredits(billedCost'[o])
             /\ llmDebited'[o] <= CostToCredits(Cost(Generated(o)'))
             /\ o \notin capped => SumFunctionOnSet(credits', Of(o, Gens)) = llmDebited'[o]
  <2> DEFINE M == Mine(b, o)
             A == Of(o, rows[b])
             P == Of(o, rows[b] \ short[b])
             B == Billed(o)
  <2>1. /\ A \in SUBSET Gens /\ P \in SUBSET A /\ M \in SUBSET A /\ Cost(A) = Cost(M)
        /\ lock[o] # b => plan[b][o] = 0 /\ M = {} /\ Cost(P) = 0
        /\ o \notin capped => P = A
    BY <1>2, CommitRows
  <2>2. /\ llmDebited'[o] = llmDebited[o] + plan[b][o]
        /\ billedCost'[o] = billedCost[o] + Cost(P)
    BY CommitWrites
  <2>3. /\ billedCost[o] \in Nat /\ llmDebited[o] \in Nat /\ plan[b][o] \in Nat
        /\ billedCost[o] = Cost(B)
        /\ o \notin capped => llmDebited[o] = CostToCredits(billedCost[o])
    BY <1>1 DEF TypeOK, Ticks, Books
  <2>4. B \in SUBSET Gens /\ A \cap B = {} /\ Billed(o)' = B \cup P
    <3>1. \A g \in A : g \in rows[b] /\ row[g] = "unbilled"
      BY <1>1 DEF RowsHeld, Of
    <3>2. \A g \in Gens : row'[g] = "billed" <=> row[g] = "billed" \/ g \in rows[b] \ short[b]
      BY CommitWrites
    <3>3. P = {g \in rows[b] \ short[b] : OrgOf[g] = o} /\ rows[b] \in SUBSET Gens
      BY <1>1 DEF Of, TypeOK
    <3>4. Billed(o)' = B \cup P
      BY <3>2, <3>3 DEF Billed, Of
    <3>5. B \in SUBSET Gens /\ \A g \in B : row[g] = "billed"
      BY DEF Billed, Of
    <3>6. QED
      BY <3>1, <3>4, <3>5
  <2>5. Generated(o)' = Generated(o) /\ Generated(o) \in SUBSET Gens
        /\ B \cup A \in SUBSET Generated(o)
    <3>1. \A g \in Gens : row'[g] = "absent" <=> row[g] = "absent"
      BY CommitWrites
    <3>2. Generated(o)' = Generated(o) /\ Generated(o) \in SUBSET Gens
      BY <3>1 DEF Generated, Of
    <3>3. B \in SUBSET Generated(o)
      BY DEF Billed, Generated, Of
    <3>4. \A g \in A : row[g] = "unbilled" /\ OrgOf[g] = o
      BY <1>1 DEF RowsHeld, Of
    <3>5. A \in SUBSET Generated(o)
      BY <2>1, <3>4 DEF Generated, Of
    <3>6. QED
      BY <3>2, <3>3, <3>5
  <2>6. M \in SUBSET Gens /\ P \in SUBSET Gens /\ Cost(M) \in Nat /\ Cost(P) \in Nat
    BY <2>1, SomeGens
  <2>7. /\ lock[o] = b /\ plan[b][o] # 0 => plan[b][o] <= Due(o, M)
        /\ lock[o] = b /\ o \notin capped =>
              /\ plan[b][o] = Due(o, M)
              /\ SumFunctionOnSet(alloc[b], M) = plan[b][o]
    BY <1>1 DEF BatchPlans
  <2>8. Due(o, M) = CostToCredits(billedCost[o] + Cost(M)) - llmDebited[o]
    BY DEF Due
  <2>9. llmDebited[o] <= CostToCredits(Cost(Generated(o)))
    BY <1>1 DEF NeverOvercharged
  <2>10. o \notin capped => SumFunctionOnSet(credits, Of(o, Gens)) = llmDebited[o]
    BY <1>1 DEF RowsMatchEntries
  <2> HIDE DEF M, A, P, B
  <2>11. billedCost'[o] = Cost(Billed(o)')
    <3>1. B \cap P = {}
      BY <2>1, <2>4
    <3>2. Cost(B \cup P) = Cost(B) + Cost(P)
      BY <2>4, <2>6, <3>1, CostUnion
    <3>3. QED
      BY <2>2, <2>3, <2>4, <3>2
  <2>12. CostToCredits(billedCost[o] + Cost(M)) \in Nat
    BY <2>3, <2>6, RoundedUp
  <2>13. ASSUME o \notin capped PROVE llmDebited'[o] = CostToCredits(billedCost'[o])
    <3>1. CASE lock[o] = b
      <4>1. llmDebited'[o] = CostToCredits(billedCost[o] + Cost(M))
        BY <2>2, <2>3, <2>7, <2>8, <2>12, <2>13, <3>1
      <4>2. Cost(P) = Cost(M)
        BY <2>1, <2>13
      <4>3. QED
        BY <2>2, <4>1, <4>2
    <3>2. CASE lock[o] # b
      BY <2>1, <2>2, <2>3, <2>13, <3>2
    <3>3. QED
      BY <3>1, <3>2
  <2>14. llmDebited'[o] <= CostToCredits(Cost(Generated(o)'))
    <3>1. CASE plan[b][o] = 0
      BY <2>2, <2>3, <2>5, <2>9, <3>1
    <3>2. CASE plan[b][o] # 0
      <4>1. plan[b][o] <= CostToCredits(billedCost[o] + Cost(M)) - llmDebited[o]
        BY <2>1, <2>7, <2>8, <3>2
      <4>2. llmDebited'[o] <= CostToCredits(billedCost[o] + Cost(M))
        BY <2>2, <2>3, <2>12, <4>1
      <4>3. B \cap M = {} /\ B \cup M \in SUBSET Generated(o)
        BY <2>1, <2>4, <2>5
      <4>4. Cost(B \cup M) = billedCost[o] + Cost(M)
        BY <2>3, <2>4, <2>6, <4>3, CostUnion
      <4>5. /\ CostToCredits(Cost(B \cup M)) <= CostToCredits(Cost(Generated(o)))
            /\ CostToCredits(Cost(Generated(o))) \in Nat
        BY <2>5, <4>3, CostMonotone
      <4>6. QED
        BY <2>2, <2>3, <2>5, <2>12, <4>2, <4>4, <4>5
    <3>3. QED
      BY <3>1, <3>2
  <2>15. ASSUME o \notin capped
         PROVE  SumFunctionOnSet(credits', Of(o, Gens)) = llmDebited'[o]
    <3> DEFINE G == Of(o, Gens)
    <3>1. /\ G \in SUBSET Gens /\ IsFiniteSet(G) /\ A \in SUBSET G /\ M \in SUBSET A
          /\ IsFiniteSet(A) /\ IsFiniteSet(G \ A)
      <4>1. G \in SUBSET Gens
        BY SetsOfGens
      <4>2. A \in SUBSET G
        BY <1>1 DEF A, Of, TypeOK
      <4>3. IsFiniteSet(G) /\ IsFiniteSet(A) /\ G \ A \in SUBSET Gens
        BY <2>1, <4>1, SomeGens
      <4>4. IsFiniteSet(G \ A)
        BY <4>3, SomeGens
      <4>5. QED
        BY <2>1, <4>1, <4>2, <4>3, <4>4
    <3>2. \A g \in Gens : credits[g] \in Nat /\ alloc[b][g] \in Nat
      BY <1>1 DEF TypeOK
    <3>3. \A g \in Gens : credits'[g] = IF g \in rows[b] THEN alloc[b][g] ELSE credits[g]
      BY CommitWrites
    <3>4. \A g \in G : g \in A <=> g \in rows[b]
      BY DEF A, Of
    <3>5. /\ \A g \in A : credits'[g] = alloc[b][g]
          /\ \A g \in G \ A : credits'[g] = credits[g]
          /\ \A g \in G : credits'[g] \in Nat /\ credits[g] \in Nat
      BY <3>1, <3>2, <3>3, <3>4
    <3>6. \A g \in A : credits[g] = 0
      <4>1. \A g \in A : g \in Gens /\ row[g] = "unbilled" /\ OrgOf[g] = o
        BY <1>1, <2>1 DEF A, Of, RowsHeld
      <4>2. QED
        BY <1>1, <2>15, <4>1 DEF Uncredited
    <3>7. \A g \in A \ M : alloc[b][g] = 0
      <4>1. \A g \in A \ M : g \in rows[b] /\ ~ (Amount[g] > 0) /\ g \in Gens
        BY <2>1 DEF A, M, Mine, Of, Positive
      <4>2. \A g \in A \ M : g \in rows[b] /\ Amount[g] = 0
        BY <4>1, Prices
      <4>3. QED
        BY <1>1, <4>2 DEF BatchHeld
    <3> HIDE DEF G
    <3>8. /\ SumFunctionOnSet(credits', G)
               = SumFunctionOnSet(credits', A) + SumFunctionOnSet(credits', G \ A)
          /\ SumFunctionOnSet(credits, G)
               = SumFunctionOnSet(credits, A) + SumFunctionOnSet(credits, G \ A)
          /\ SumFunctionOnSet(credits, G \ A) \in Nat
      <4>1. SumFunctionOnSet(credits', G)
               = SumFunctionOnSet(credits', A) + SumFunctionOnSet(credits', G \ A)
        BY <3>1, <3>5, SumSubset
      <4>2. /\ SumFunctionOnSet(credits, G)
                 = SumFunctionOnSet(credits, A) + SumFunctionOnSet(credits, G \ A)
            /\ SumFunctionOnSet(credits, G \ A) \in Nat
        BY <3>1, <3>5, SumSubset
      <4>3. QED
        BY <4>1, <4>2
    <3>9. /\ SumFunctionOnSet(credits, A) = 0
          /\ SumFunctionOnSet(credits', A) = SumFunctionOnSet(alloc[b], A)
          /\ SumFunctionOnSet(credits', G \ A) = SumFunctionOnSet(credits, G \ A)
      <4>1. SumFunctionOnSet(credits, A) = 0
        BY <3>1, <3>6, SumZero
      <4>2. SumFunctionOnSet(credits', A) = SumFunctionOnSet(alloc[b], A)
        BY <3>1, <3>5, SumSame
      <4>3. SumFunctionOnSet(credits', G \ A) = SumFunctionOnSet(credits, G \ A)
        BY <3>1, <3>5, SumSame
      <4>4. QED
        BY <4>1, <4>2, <4>3
    <3>10. SumFunctionOnSet(alloc[b], A) = SumFunctionOnSet(alloc[b], M)
      <4>1. \A g \in A : alloc[b][g] \in Nat
        BY <2>1, <3>2
      <4>2. /\ SumFunctionOnSet(alloc[b], A)
                 = SumFunctionOnSet(alloc[b], M) + SumFunctionOnSet(alloc[b], A \ M)
            /\ SumFunctionOnSet(alloc[b], M) \in Nat
        BY <3>1, <4>1, SumSubset
      <4>3. IsFiniteSet(A \ M)
        BY <3>1, FS_Subset
      <4>4. SumFunctionOnSet(alloc[b], A \ M) = 0
        BY <3>7, <4>3, SumZero
      <4>5. QED
        BY <4>2, <4>4
    <3>11. SumFunctionOnSet(alloc[b], M) = plan[b][o]
      <4>1. CASE lock[o] = b
        BY <2>7, <2>15, <4>1
      <4>2. CASE lock[o] # b
        BY <2>1, <4>2, SumEmpty
      <4>3. QED
        BY <4>1, <4>2
    <3>12. SumFunctionOnSet(credits, G) = llmDebited[o]
      BY <2>10, <2>15 DEF G
    <3>13. SumFunctionOnSet(credits', G) = llmDebited[o] + plan[b][o]
      BY <2>3, <3>8, <3>9, <3>10, <3>11, <3>12
    <3>14. QED
      BY <2>2, <3>13 DEF G
  <2>16. QED
    BY <2>11, <2>13, <2>14, <2>15
<1>4. Books'
  BY <1>2, <1>3 DEF Books
<1>5. NeverOvercharged'
  BY <1>3 DEF NeverOvercharged
<1>6. RowsMatchEntries'
  BY <1>2, <1>3 DEF RowsMatchEntries
<1>7. Uncredited'
  <2> SUFFICES ASSUME NEW g \in Gens, row'[g] \in {"absent", "unbilled"}, OrgOf[g] \notin capped
               PROVE  credits'[g] = 0
    BY <1>2 DEF Uncredited
  <2>1. /\ row[g] \in {"absent", "unbilled"} /\ (g \in rows[b] => g \in short[b])
        /\ credits'[g] = IF g \in rows[b] THEN alloc[b][g] ELSE credits[g]
    BY CommitWrites
  <2>2. g \notin short[b]
    BY <1>1 DEF RowsHeld
  <2>3. QED
    BY <1>1, <2>1, <2>2 DEF Uncredited
<1>8. QED
  BY <1>4, <1>5, <1>6, <1>7

\* The end of a transaction leaves the other batches with what they hold, provided
\* the books of their organisations stay, and the batch it was with nothing.
LEMMA CloseHeld ==
    ASSUME TInv, Held, NEW t \in Ticks, Close(t),
           \A o \in Orgs : lock[o] # t \/ t \notin Batches =>
               billedCost'[o] = billedCost[o] /\ llmDebited'[o] = llmDebited[o]
    PROVE  Held'
<1>1. TypeOK
  BY DEF TInv
<1>2. /\ \A c \in Ticks : c # t => phase'[c] = phase[c] /\ todo'[c] = todo[c] /\ plan'[c] = plan[c]
      /\ todo'[t] = {}
      /\ \A c \in Batches : c # t => rows'[c] = rows[c] /\ alloc'[c] = alloc[c]
      /\ \A c \in Batches : c = t => rows'[c] = {}
      /\ \A o \in Orgs : lock'[o] = IF lock[o] = t THEN None ELSE lock[o]
      /\ capped' = capped
  BY <1>1 DEF Close, Unlock, TypeOK
<1>3. \A c \in Batches : c \in Ticks /\ c # None
  BY NamesAssumption DEF Ticks
<1>4. ASSUME NEW c \in Batches PROVE BatchHeld(c)' /\ BatchPlans(c)'
  <2>1. CASE c # t
    <3>1. BatchHeld(c) /\ BatchPlans(c)
      BY DEF Held
    <3>2. \A o \in Orgs : lock'[o] = c <=> lock[o] = c
      BY <1>2, <1>3, <2>1
    <3>3. \A o \in Orgs : lock[o] = c =>
              billedCost'[o] = billedCost[o] /\ llmDebited'[o] = llmDebited[o]
      BY <2>1
    <3>4. QED
      BY <1>1, <1>2, <1>3, <2>1, <3>1, <3>2, <3>3, BatchAlone
  <2>2. CASE c = t
    <3>1. \A o \in Orgs : lock'[o] # c
      BY <1>2, <1>3, <2>2
    <3>2. rows'[c] = {} /\ todo'[c] = {}
      BY <1>2, <2>2
    <3>3. QED
      BY <3>1, <3>2 DEF BatchHeld, BatchPlans
  <2>3. QED
    BY <2>1, <2>2
<1>5. QED
  BY <1>4 DEF Held

\* An organisation the batch did not lock is not touched by its commit.
LEMMA CommitBatchLInv ==
    ASSUME IInv, TInv, LInv, NEW b \in Batches, CommitBatch(b) PROVE LInv'
<1>1. Close(b) /\ b \in Ticks
  BY DEF CommitBatch, Ticks
<1>2. ASSUME NEW o \in Orgs, lock[o] # b
      PROVE  billedCost'[o] = billedCost[o] /\ llmDebited'[o] = llmDebited[o]
  <2>1. plan[b][o] = 0 /\ Cost(Of(o, rows[b] \ short[b])) = 0
    BY <1>2, CommitRows, CommitWrites
  <2>2. /\ llmDebited'[o] = llmDebited[o] + plan[b][o]
        /\ billedCost'[o] = billedCost[o] + Cost(Of(o, rows[b] \ short[b]))
    BY CommitWrites
  <2>3. billedCost[o] \in Nat /\ llmDebited[o] \in Nat
    BY DEF TInv, TypeOK
  <2>4. QED
    BY <2>1, <2>2, <2>3
<1>3. Held'
  BY <1>1, <1>2, CloseHeld DEF LInv
<1>4. QED
  BY <1>3, CommitBooks DEF LInv, Ledger

\* A rollback writes nothing.
LEMMA RollbackLInv ==
    ASSUME TInv, LInv, NEW t \in Ticks, Rollback(t) PROVE LInv'
<1>1. Close(t) /\ UNCHANGED <<sums, work, deals, shop>>
  BY DEF Rollback
<1>2. Held'
  BY <1>1, CloseHeld DEF LInv, sums
<1>3. Ledger'
  BY <1>1, LedgerAlone DEF LInv, sums, work, Close
<1>4. QED
  BY <1>2, <1>3 DEF LInv

\* The sandbox tick debits other entries.
LEMMA SandboxLInv ==
    ASSUME TInv, LInv, NEW t \in SandboxTicks, SandboxStep(t) PROVE LInv'
<1>1. TypeOK /\ t \in Ticks /\ t \notin Batches /\ \A b \in Batches : b \in Ticks /\ b # t
  BY NamesAssumption DEF TInv, Ticks
<1>2. CASE StartSandbox(t)
  <2>1. /\ todo' = [todo EXCEPT ![t] = {o \in Orgs : usage[o] > 0}]
        /\ phase' = [phase EXCEPT ![t] = "open"]
        /\ UNCHANGED <<sums, work, lock, plan, rows, alloc, short, capped, deals, shop>>
    BY <1>2 DEF StartSandbox
  <2>2. \A b \in Batches : phase'[b] = phase[b] /\ todo'[b] = todo[b]
    BY <1>1, <2>1 DEF TypeOK
  <2>3. QED
    BY <1>1, <2>1, <2>2, OthersLInv DEF sums, work
<1>3. CASE \E o \in Orgs : PlanSandbox(t, o)
  <2> PICK o \in Orgs : PlanSandbox(t, o)
    BY <1>3
  <2>1. /\ lock[o] = None /\ lock' = [lock EXCEPT ![o] = t]
        /\ plan' = plan \/ \E debit \in 1..Headroom(o) : plan' = [plan EXCEPT ![t][o] = debit]
        /\ todo' = [todo EXCEPT ![t] = @ \ {o}]
        /\ UNCHANGED <<sums, work, phase, rows, alloc, short, capped, deals, shop>>
    BY DEF PlanSandbox, LockOrg, Free
  <2>2. \A b \in Batches : todo'[b] = todo[b] /\ plan'[b] = plan[b]
    BY <1>1, <2>1 DEF TypeOK
  <2>3. \A p \in Orgs : lock'[p] = lock[p] \/ (lock[p] \in {t, None} /\ lock'[p] \in {t, None})
    BY <1>1, <2>1 DEF TypeOK
  <2>4. QED
    BY <1>1, <2>1, <2>2, <2>3, OthersLInv DEF sums, work
<1>4. CASE CommitSandbox(t)
  <2>1. Close(t) /\ UNCHANGED <<llmDebited, billedCost, work>>
    BY <1>4 DEF CommitSandbox
  <2>2. Held'
    BY <1>1, <2>1, CloseHeld DEF LInv
  <2>3. Ledger'
    BY <2>1, LedgerAlone DEF LInv, work, Close
  <2>4. QED
    BY <2>2, <2>3 DEF LInv
<1>5. QED
  BY <1>2, <1>3, <1>4 DEF SandboxStep

\* A Spend writes other entries.
LEMMA SpendLInv ==
    ASSUME TInv, LInv, NEW s \in Spends, SpendStep(s) \/ SpendFails(s) PROVE LInv'
<1>1. TypeOK /\ s \notin Batches /\ OrgOf[s] \in Orgs
  BY NamesAssumption, Numbers DEF TInv, Ticks
<1>2. UNCHANGED <<llmDebited, billedCost, work, ticks>>
  BY DEF SpendStep, SpendChecks, SpendCommits, SpendFails, sums
<1>3. \/ UNCHANGED lock
      \/ lock[OrgOf[s]] = None /\ lock' = [lock EXCEPT ![OrgOf[s]] = s]
      \/ Unlock(s)
  BY DEF SpendStep, SpendChecks, SpendCommits, SpendFails, Free
<1>4. \A p \in Orgs : lock'[p] = lock[p] \/ (lock[p] \in {s, None} /\ lock'[p] \in {s, None})
  BY <1>1, <1>3 DEF TypeOK, Unlock
<1>5. QED
  BY <1>1, <1>2, <1>4, OthersLInv DEF work, ticks

\* Nothing of what a batch computes with: usage of sandboxes and purchases.
LEMMA ElsewhereLInv ==
    ASSUME LInv, UNCHANGED <<llmDebited, billedCost, row, credits, lock, ticks>>
    PROVE  LInv'
<1>1. Held'
  BY DEF LInv, Held, BatchHeld, BatchPlans, Mine, Due, ticks
<1>2. Ledger'
  BY LedgerAlone DEF LInv, ticks
<1>3. QED
  BY <1>1, <1>2 DEF LInv

\* Every step keeps LInv.
LEMMA NextLInv == IInv /\ TInv /\ LInv /\ [Next]_vars => LInv'
<1> SUFFICES ASSUME IInv, TInv, LInv, [Next]_vars PROVE LInv'
  OBVIOUS
<1>1. CASE UNCHANGED vars
  BY <1>1, ElsewhereLInv DEF vars, sums, work
<1>2. CASE \E g \in Gens : Generate(g)
  BY <1>2, GenerateLInv
<1>3. CASE \E o \in Orgs : Compute(o)
  BY <1>3, ElsewhereLInv DEF Compute, sums
<1>4. CASE \E b \in Batches : BatchStep(b)
  BY <1>4, SelectLInv, PlanBatchLInv, CommitBatchLInv DEF BatchStep
<1>5. CASE \E t \in SandboxTicks : SandboxStep(t)
  BY <1>5, SandboxLInv
<1>6. CASE \E t \in Ticks : Rollback(t)
  BY <1>6, RollbackLInv
<1>7. CASE \E s \in Spends : SpendStep(s) \/ SpendFails(s)
  BY <1>7, SpendLInv
<1>8. CASE \E p \in Purchases :
             Create(p) \/ Pay(p) \/ Created(p) \/ VerifyResolves(p) \/ VerifyCredits(p)
  <2>1. UNCHANGED <<llmDebited, billedCost, row, credits, lock, ticks>>
    BY <1>8 DEF Create, Pay, Created, VerifyResolves, VerifyCredits, sums, work
  <2>2. QED
    BY <2>1, ElsewhereLInv
<1>9. QED
  BY <1>1, <1>2, <1>3, <1>4, <1>5, <1>6, <1>7, <1>8 DEF Next

\* The three invariants of the ledger hold together.
LEMMA LedgerAlways == Spec => [](IInv /\ TInv /\ LInv)
<1>1. Init => IInv /\ TInv /\ LInv
  BY InitInv, InitTInv, InitLInv
<1>2. IInv /\ TInv /\ LInv /\ [Next]_vars => (IInv /\ TInv /\ LInv)'
  BY Inductive, NextTInv, NextLInv
<1>3. QED
  BY <1>1, <1>2, PTL DEF Spec

\* SplitTicksAgree holds in every state: as long as the debits of an organisation
\* were taken whole, what planCumulativeDebits and commits made of it, in however
\* many batches, is the cost of all its billed rows rounded up once.
THEOREM SplitTicksTheorem == Spec => []SplitTicksAgree
<1>1. LInv => SplitTicksAgree
  BY DEF LInv, Ledger, Books, Billed, SplitTicksAgree
<1>2. QED
  BY <1>1, LedgerAlways, PTL

\* NeverOvercharged holds in every state: no interleaving of batches debits an
\* organisation more than what its generations cost.
THEOREM NeverOverchargedTheorem == Spec => []NeverOvercharged
<1>1. LInv => NeverOvercharged
  BY DEF LInv, Ledger
<1>2. QED
  BY <1>1, LedgerAlways, PTL

\* RowsMatchEntries holds in every state: allocateCurrentRowCredits hands out the
\* debit to the last credit, whatever the fractions of the rows and of the rows
\* billed before them.
THEOREM RowsMatchTheorem == Spec => []RowsMatchEntries
<1>1. LInv => RowsMatchEntries
  BY DEF LInv, Ledger
<1>2. QED
  BY <1>1, LedgerAlways, PTL

-----------------------------------------------------------------------------
(* The ledger implements Accounts.  A commit of a tick is a charge, an insert *)
(* of a Spend is a spend and a grant is a grant; every other step changes no  *)
(* entry.                                                                     *)

AccountVars == <<balance, Charged, Booked>>

LEMMA InitAccounts == Init => Account!Init
<1> SUFFICES ASSUME Init PROVE Account!Init
  OBVIOUS
<1>1. Booked = {} /\ balance = Welcome
  BY DEF Init, Booked
<1>2. Charged = [o \in Orgs |-> 0]
  BY DEF Init, Charged
<1>3. QED
  BY <1>1, <1>2 DEF Account!Init

LEMMA SameAccounts ==
    ASSUME UNCHANGED <<balance, llmDebited, sandDebited, spent, topups>>
    PROVE  UNCHANGED AccountVars
BY DEF AccountVars, Charged, Booked

\* The debits that a tick commits were planned under its locks.
LEMMA CommitCharges ==
    ASSUME IInv, TInv, NEW t \in Ticks,
           balance' = [o \in Orgs |-> balance[o] - plan[t][o]],
           \/ /\ llmDebited' = [o \in Orgs |-> llmDebited[o] + plan[t][o]]
              /\ sandDebited' = sandDebited
           \/ /\ sandDebited' = [o \in Orgs |-> sandDebited[o] + plan[t][o]]
              /\ llmDebited' = llmDebited,
           spent' = spent, topups' = topups
    PROVE  Account!Charge
<1>1. \A o \in Orgs : /\ plan[t][o] \in Nat /\ balance[o] \in Int
                      /\ llmDebited[o] \in Nat /\ sandDebited[o] \in Nat
                      /\ plan[t][o] # 0 => plan[t][o] <= balance[o] + Overdraft
  <2>1. /\ plan \in [Ticks -> [Orgs -> Nat]] /\ balance \in [Orgs -> Int]
        /\ llmDebited \in [Orgs -> Nat] /\ sandDebited \in [Orgs -> Nat]
    BY DEF TInv, TypeOK
  <2>2. \A o \in Orgs : plan[t][o] # 0 => plan[t][o] <= balance[o] + Overdraft
    BY DEF IInv, PlannedUnderLock
  <2>3. QED
    BY <2>1, <2>2
<1>2. /\ Charged = [o \in Orgs |-> llmDebited[o] + sandDebited[o]]
      /\ Charged' = [o \in Orgs |-> llmDebited'[o] + sandDebited'[o]]
      /\ Booked' = Booked
  BY DEF Charged, Booked
<1>3. \A o \in Orgs : Charged[o] \in Nat /\ Charged'[o] = Charged[o] + plan[t][o]
  BY <1>1, <1>2
<1>4. Charged' \in [Orgs -> Nat]
  <2>1. \A o \in Orgs : llmDebited'[o] + sandDebited'[o] \in Nat
    BY <1>1
  <2>2. QED
    BY <1>2, <2>1
<1>5. \A o \in Orgs :
         \/ Charged'[o] = Charged[o]
         \/ /\ Charged[o] < Charged'[o]
            /\ Charged'[o] - Charged[o] <= balance[o] + Overdraft
  BY <1>1, <1>3, NumbersAssumption
<1>6. \A o \in Orgs : balance[o] - plan[t][o] = balance[o] - (Charged'[o] - Charged[o])
  BY <1>1, <1>3
<1>7. balance' = [o \in Orgs |-> balance[o] - (Charged'[o] - Charged[o])]
  BY <1>6
<1>8. QED
  BY <1>2, <1>4, <1>5, <1>7 DEF Account!Charge

\* A Spend that inserts its entry has checked that there is none, and has the
\* credits.
LEMMA SpendBooks ==
    ASSUME IInv, TInv, NEW s \in Spends, SpendCommits(s) PROVE Account!Spend(s)
<1>1. /\ spent[s] = 0 /\ spender[s] = "write" /\ balance[OrgOf[s]] >= Amount[s]
      /\ spent \in [Spends -> 0..1] /\ balance \in [Orgs -> Int]
      /\ OrgOf[s] \in Orgs /\ Amount[s] \in Nat
  BY Numbers DEF SpendCommits, TInv, SpendOnce, TypeOK, IInv, SpendUnderLock
<1>2. /\ spent' = [spent EXCEPT ![s] = @ + 1] /\ topups' = topups
      /\ balance' = [balance EXCEPT ![OrgOf[s]] = @ - Amount[s]]
      /\ UNCHANGED <<llmDebited, sandDebited>>
  BY DEF SpendCommits
<1>3. s \notin Booked
  BY <1>1, NamesAssumption DEF Booked
<1>4. Booked' = Booked \cup {s}
  <2>1. {x \in Spends : spent'[x] > 0} = {x \in Spends : spent[x] > 0} \cup {s}
    BY <1>1, <1>2
  <2>2. QED
    BY <1>2, <2>1 DEF Booked
<1>5. balance' = [balance EXCEPT ![OrgOf[s]] = @ + (- Amount[s])]
  BY <1>1, <1>2
<1>6. Charged' = Charged
  BY <1>2 DEF Charged
<1>7. QED
  BY <1>1, <1>3, <1>4, <1>5, <1>6 DEF Account!Spend, Account!Book

LEMMA GrantBooks ==
    ASSUME TInv, NEW p \in Purchases, VerifyCredits(p)
    PROVE  Account!Grant(p) \/ UNCHANGED AccountVars
<1>1. UNCHANGED <<llmDebited, sandDebited, spent>>
  BY DEF VerifyCredits
<1>2. CASE UNCHANGED <<topups, balance>>
  BY <1>1, <1>2, SameAccounts
<1>3. CASE ~ UNCHANGED <<topups, balance>>
  <2>1. /\ ~(topups[p] > 0) /\ topups' = [topups EXCEPT ![p] = @ + 1]
        /\ balance' = [balance EXCEPT ![OrgOf[p]] = @ + Amount[p]]
    BY <1>3 DEF VerifyCredits, Grant
  <2>2. topups \in [Purchases -> 0..1]
    BY DEF TInv, TypeOK
  <2>3. {x \in Purchases : topups'[x] > 0} = {x \in Purchases : topups[x] > 0} \cup {p}
    BY <2>1, <2>2
  <2>4. Booked' = Booked \cup {p}
    BY <1>1, <2>3 DEF Booked
  <2>5. p \notin Booked
    BY <2>1, NamesAssumption DEF Booked
  <2>6. Charged' = Charged
    BY <1>1 DEF Charged
  <2>7. QED
    BY <2>1, <2>4, <2>5, <2>6 DEF Account!Grant, Account!Book
<1>4. QED
  BY <1>2, <1>3

LEMMA StepAccounts == IInv /\ TInv /\ [Next]_vars => [Account!Next]_AccountVars
<1> SUFFICES ASSUME IInv, TInv, [Next]_vars
             PROVE  Account!Next \/ UNCHANGED AccountVars
  OBVIOUS
<1>1. CASE UNCHANGED vars
  BY <1>1, SameAccounts DEF vars, sums
<1>2. ASSUME NEW g \in Gens, Generate(g) PROVE UNCHANGED AccountVars
  BY <1>2, SameAccounts DEF Generate, sums
<1>3. ASSUME NEW o \in Orgs, Compute(o) PROVE UNCHANGED AccountVars
  BY <1>3, SameAccounts DEF Compute, sums
<1>4. ASSUME NEW b \in Batches, BatchStep(b) PROVE Account!Next \/ UNCHANGED AccountVars
  <2>1. CASE Select(b) \/ \E o \in Orgs : PlanBatch(b, o)
    BY <2>1, SameAccounts DEF Select, PlanBatch, sums
  <2>2. CASE CommitBatch(b)
    <3>1. /\ balance' = [o \in Orgs |-> balance[o] - plan[b][o]]
          /\ llmDebited' = [o \in Orgs |-> llmDebited[o] + plan[b][o]]
          /\ UNCHANGED <<sandDebited, spent, topups>>
      BY <2>2 DEF CommitBatch
    <3>2. b \in Ticks
      BY DEF Ticks
    <3>3. QED
      BY <3>1, <3>2, CommitCharges DEF Account!Next
  <2>3. QED
    BY <1>4, <2>1, <2>2 DEF BatchStep
<1>5. ASSUME NEW t \in SandboxTicks, SandboxStep(t) PROVE Account!Next \/ UNCHANGED AccountVars
  <2>1. CASE StartSandbox(t) \/ \E o \in Orgs : PlanSandbox(t, o)
    BY <2>1, SameAccounts DEF StartSandbox, PlanSandbox, sums
  <2>2. CASE CommitSandbox(t)
    <3>1. /\ balance' = [o \in Orgs |-> balance[o] - plan[t][o]]
          /\ sandDebited' = [o \in Orgs |-> sandDebited[o] + plan[t][o]]
          /\ UNCHANGED <<llmDebited, spent, topups>>
      BY <2>2 DEF CommitSandbox
    <3>2. t \in Ticks
      BY DEF Ticks
    <3>3. QED
      BY <3>1, <3>2, CommitCharges DEF Account!Next
  <2>3. QED
    BY <1>5, <2>1, <2>2 DEF SandboxStep
<1>6. ASSUME NEW t \in Ticks, Rollback(t) PROVE UNCHANGED AccountVars
  BY <1>6, SameAccounts DEF Rollback, sums
<1>7. ASSUME NEW s \in Spends, SpendStep(s) \/ SpendFails(s)
      PROVE  Account!Next \/ UNCHANGED AccountVars
  <2>1. CASE SpendChecks(s) \/ SpendFails(s)
    BY <2>1, SameAccounts DEF SpendChecks, SpendFails, sums
  <2>2. CASE SpendCommits(s)
    BY <2>2, SpendBooks DEF Account!Next
  <2>3. QED
    BY <1>7, <2>1, <2>2 DEF SpendStep
<1>8. ASSUME NEW p \in Purchases, Create(p) \/ Pay(p) \/ Created(p) \/ VerifyResolves(p)
      PROVE  UNCHANGED AccountVars
  BY <1>8, SameAccounts DEF Create, Pay, Created, VerifyResolves, sums
<1>9. ASSUME NEW p \in Purchases, VerifyCredits(p)
      PROVE  Account!Next \/ UNCHANGED AccountVars
  BY <1>9, GrantBooks DEF Account!Next
<1>10. QED
  BY <1>1, <1>2, <1>3, <1>4, <1>5, <1>6, <1>7, <1>8, <1>9 DEF Next

\* The ledger keeps the promise of Accounts to every organisation (credits.go:
\* 64-135, pricing.go:15-18): one entry for a reference, a spend only with its
\* credits, a debit only down to the floor, and a balance that is the sum of its
\* entries, whatever transactions interleave, fail or are tried again.
THEOREM AccountsTheorem == Spec => ImplementsAccounts
<1>1. IInv /\ TInv /\ [Next]_vars => [Account!Next]_<<balance, Charged, Booked>>
  BY StepAccounts DEF AccountVars
<1>2. QED
  BY InitAccounts, LedgerAlways, <1>1, PTL DEF Spec, ImplementsAccounts, Account!Spec
=============================================================================
