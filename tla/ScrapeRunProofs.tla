--------------------------- MODULE ScrapeRunProofs ---------------------------
(***************************************************************************)
(* Proofs about ScrapeRun, and about the account pool it runs on, for any  *)
(* number of runs, accounts, administrators, configurations and jobs.      *)
(***************************************************************************)
EXTENDS ScrapeRun, TLAPS

(***************************************************************************)
(* The inductive invariant of the pool: what a run has locked is there and *)
(* locked by it alone, its credit is what was spent, and within the budget *)
(* up to one cost if the run has charged it.                               *)
(***************************************************************************)
HeldIsThere == \A r \in Runs, a \in Accounts : Holds(r, a) => There(a)

UnusedYet == \A a \in Accounts : accts[a] = Absent => spent[a] = 0

Overdrawable(row) == \E cost \in Costs : row.credit + Reserve <= row.monthly + cost

ChargedWithinBudget ==
    \A r \in Runs, a \in Accounts :
        Holds(r, a) /\ hold[r][a].credit > accts[a].credit => Overdrawable(hold[r][a])

PoolInv ==
    /\ PoolTypeOK
    /\ ExclusiveUse
    /\ HeldIsThere
    /\ UnusedYet
    /\ UsageIsKept
    /\ ChargedWithinBudget

(***************************************************************************)
(* A run that scrapes has the account it scrapes with, and the account had *)
(* a budget when it got it.                                                *)
(***************************************************************************)
ScrapesWithItsAccount ==
    \A r \in Runs :
        run[r].pc = "scrape" =>
            /\ run[r].acct \in Accounts
            /\ Holds(r, run[r].acct)
            /\ HasBudget(hold[r][run[r].acct])

SourcesLeft ==
    \A r \in Runs : run[r].pc \in {"acquire", "scrape"} => run[r].gated \in 1 .. 2

InsertsAJob == \A r \in Runs : run[r].pc = "insert" => run[r].job \in Jobs

RunTypeOK ==
    /\ configs \in [Configs -> {"active", "inactive", "deleted"}]
    /\ cron \subseteq Configs
    /\ board \in [Jobs -> {"unknown", "listed", "removed"}]
    /\ run \in [Runs -> Running \union {Idle}]

ScrapeInv ==
    PoolInv /\ RunTypeOK /\ ScrapesWithItsAccount /\ SourcesLeft /\ InsertsAJob

-----------------------------------------------------------------------------
(***************************************************************************)
(* Rows.                                                                   *)
(***************************************************************************)

LEMMA AccountsArePresent ==
    ASSUME NEW row \in Account
    PROVE  row # Absent /\ row # Deleted /\ row # Free
BY DEF Account, AccountStatuses, Absent, Deleted, Free

LEMMA HeldRow ==
    ASSUME PoolTypeOK, NEW r \in Runs, NEW a \in Accounts
    PROVE  /\ Holds(r, a) <=> hold[r][a] \in Account
           /\ Holds(r, a) => Seen(r, a) = hold[r][a]
           /\ ~Holds(r, a) => Seen(r, a) = accts[a] /\ hold[r][a] = Free
BY AccountsArePresent DEF PoolTypeOK, Holds, Seen

LEMMA CheckedRow ==
    ASSUME NEW row \in Account
    PROVE  /\ Checked(row) \in Account
           /\ Checked(row).credit = row.credit
           /\ Checked(row).monthly = row.monthly
BY DEF Checked, Account, AccountStatuses

LEMMA ChargedRow ==
    ASSUME NEW row \in Account, NEW cost \in Costs
    PROVE  /\ Charged(row, cost) \in Account
           /\ Charged(row, cost).credit = row.credit + cost
           /\ Charged(row, cost).monthly = row.monthly
<1> DEFINE new == [row EXCEPT !.credit = @ + cost, !.failures = 0, !.logged = TRUE]
<1>1. /\ new \in Account
      /\ new.credit = row.credit + cost
      /\ new.monthly = row.monthly
  <2>1. row.credit + cost \in Nat /\ 0 \in 0 .. MaxFailures
    BY ApifyPoolAssumption DEF Account
  <2> QED
    BY <2>1 DEF Account
<1> HIDE DEF new
<1>2. Charged(row, cost) = Checked(new)
  BY DEF Charged, new
<1> QED
  BY <1>1, <1>2, CheckedRow

LEMMA FailedRow ==
    ASSUME NEW row \in Account
    PROVE  /\ Failed(row) \in Account
           /\ Failed(row).credit = row.credit
           /\ Failed(row).monthly = row.monthly
<1>1. row.failures < MaxFailures => row.failures + 1 \in 0 .. MaxFailures
  BY ApifyPoolAssumption DEF Account
<1>2. MaxFailures \in 0 .. MaxFailures
  BY ApifyPoolAssumption
<1> QED
  BY <1>1, <1>2 DEF Failed, Checked, Account, AccountStatuses

LEMMA WrittenRow ==
    ASSUME NEW cur \in Account, NEW was \in Account, NEW new \in Account
    PROVE  /\ NetChange(cur, was, new) \in Account
           /\ NetChange(cur, was, new).credit = cur.credit
BY DEF NetChange, Written, Account

-----------------------------------------------------------------------------
(***************************************************************************)
(* Every step of the pool keeps its invariant.                             *)
(***************************************************************************)

LEMMA AcquireKeepsPool ==
    ASSUME PoolInv, NEW r \in Runs, NEW a \in Accounts, Acquire(r, a)
    PROVE  /\ PoolInv'
           /\ Holds(r, a)'
           /\ HasBudget(hold'[r][a])
           /\ \A q \in Runs, b \in Accounts :
                 <<q, b>> # <<r, a>> => hold'[q][b] = hold[q][b]
           /\ \A b \in Accounts : Holds(r, b) => hold'[r][b] = hold[r][b]
<1> USE DEF PoolInv
<1>1. /\ There(a) /\ HasBudget(Seen(r, a))
      /\ \A q \in Runs \ {r} : ~Holds(q, a)
      /\ hold' = [hold EXCEPT ![r][a] = Seen(r, a)]
      /\ UNCHANGED <<accts, adm, spent, forgotten>>
  BY DEF Acquire, Available
<1>2. Seen(r, a) \in Account
  BY <1>1, HeldRow DEF There
<1>3. /\ hold'[r][a] = Seen(r, a)
      /\ \A q \in Runs, b \in Accounts : <<q, b>> # <<r, a>> => hold'[q][b] = hold[q][b]
  BY <1>1 DEF PoolTypeOK
<1>4. PoolTypeOK'
  BY <1>1, <1>2 DEF PoolTypeOK
<1>5. Holds(r, a)'
  BY <1>2, <1>3, AccountsArePresent DEF Holds
<1>6. \A q \in Runs, b \in Accounts : <<q, b>> # <<r, a>> => (Holds(q, b)' <=> Holds(q, b))
  BY <1>3 DEF Holds
<1>7. Holds(r, a) => hold'[r][a] = hold[r][a]
  BY <1>3, HeldRow
<1>8. ~Holds(r, a) => hold'[r][a] = accts[a] /\ ~Locked(a)
  BY <1>1, <1>3, HeldRow DEF Locked
<1>9. ExclusiveUse'
  BY <1>1, <1>6 DEF ExclusiveUse
<1>10. HeldIsThere'
  BY <1>1, <1>6 DEF HeldIsThere, There
<1>11. UnusedYet'
  BY <1>1 DEF UnusedYet
<1>12. UsageIsKept'
  <2> SUFFICES ASSUME NEW b \in Accounts \ forgotten'
               PROVE  Ledger(b)'
    BY DEF UsageIsKept
  <2>1. Ledger(b)
    BY <1>1 DEF UsageIsKept
  <2>2. There(b)' /\ ~Locked(b)' => accts'[b].credit = spent'[b]
    BY <1>1, <1>5, <1>6, <2>1 DEF Ledger, There, Locked
  <2>3. ASSUME NEW q \in Runs, Holds(q, b)'
        PROVE  hold'[q][b].credit = spent'[b]
    BY <1>1, <1>3, <1>6, <1>7, <1>8, <2>1, <2>3 DEF Ledger
  <2> QED
    BY <2>2, <2>3 DEF Ledger
<1>13. ChargedWithinBudget'
  <2> SUFFICES ASSUME NEW q \in Runs, NEW b \in Accounts, Holds(q, b)',
                      hold'[q][b].credit > accts'[b].credit
               PROVE  Overdrawable(hold'[q][b])
    BY DEF ChargedWithinBudget, Overdrawable
  <2>1. hold'[q][b] = hold[q][b] /\ Holds(q, b) /\ accts'[b] = accts[b]
    <3>1. accts[a].credit \in Nat
      BY <1>1 DEF There, Account
    <3> QED
      BY <1>1, <1>3, <1>6, <1>7, <1>8, <3>1
  <2> QED
    BY <2>1 DEF ChargedWithinBudget
<1> QED
  BY <1>1, <1>3, <1>4, <1>5, <1>7, <1>9, <1>10, <1>11, <1>12, <1>13

LEMMA RecordKeepsPool ==
    ASSUME PoolInv, NEW r \in Runs, NEW a \in Accounts,
           \/ HasBudget(hold[r][a]) /\ \E cost \in Costs : RecordSuccess(r, a, cost)
           \/ RecordFailure(r, a)
    PROVE  /\ PoolInv'
           /\ \A q \in Runs \ {r}, b \in Accounts : hold'[q][b] = hold[q][b]
<1> USE DEF PoolInv
<1>1. PICK row \in Account, cost \in Nat :
        /\ Holds(r, a)
        /\ hold' = [hold EXCEPT ![r][a] = row]
        /\ row.credit = hold[r][a].credit + cost
        /\ spent' = [spent EXCEPT ![a] = @ + cost]
        /\ cost # 0 => Overdrawable(row)
        /\ cost = 0 => row.monthly = hold[r][a].monthly
        /\ UNCHANGED <<accts, adm, forgotten>>
  <2>1. CASE RecordFailure(r, a)
    <3> DEFINE row == Failed(hold[r][a])
    <3>1. hold[r][a] \in Account /\ Holds(r, a)
      BY <2>1, HeldRow DEF RecordFailure
    <3>2. row \in Account /\ row.credit = hold[r][a].credit + 0
                          /\ row.monthly = hold[r][a].monthly
      BY <3>1, FailedRow DEF Account
    <3>3. hold' = [hold EXCEPT ![r][a] = row]
      BY <2>1 DEF RecordFailure, PoolTypeOK
    <3>4. spent' = [spent EXCEPT ![a] = @ + 0] /\ UNCHANGED <<accts, adm, forgotten>>
      BY <2>1 DEF RecordFailure, PoolTypeOK
    <3> HIDE DEF row
    <3> QED
      BY <3>1, <3>2, <3>3, <3>4
  <2>2. ASSUME HasBudget(hold[r][a]), NEW cost \in Costs, RecordSuccess(r, a, cost)
        PROVE  \E row \in Account : 
                 /\ Holds(r, a)
                 /\ hold' = [hold EXCEPT ![r][a] = row]
                 /\ row.credit = hold[r][a].credit + cost
                 /\ spent' = [spent EXCEPT ![a] = @ + cost]
                 /\ Overdrawable(row)
                 /\ cost \in Nat \ {0}
                 /\ UNCHANGED <<accts, adm, forgotten>>
    <3> DEFINE row == Charged(hold[r][a], cost)
    <3>1. hold[r][a] \in Account /\ Holds(r, a)
      BY <2>2, HeldRow DEF RecordSuccess
    <3>2. row \in Account /\ row.credit = hold[r][a].credit + cost
                          /\ row.monthly = hold[r][a].monthly
      BY <3>1, ChargedRow
    <3>3. hold' = [hold EXCEPT ![r][a] = row]
      BY <2>2 DEF RecordSuccess, PoolTypeOK
    <3>4. /\ spent' = [spent EXCEPT ![a] = @ + cost]
          /\ UNCHANGED <<accts, adm, forgotten>>
      BY <2>2 DEF RecordSuccess
    <3>5. hold[r][a].credit \in Nat /\ hold[r][a].monthly \in Nat
      BY <3>1 DEF Account
    <3> HIDE DEF row
    <3>6. Overdrawable(row)
      BY <2>2, <3>2, <3>5, ApifyPoolAssumption DEF Overdrawable, HasBudget
    <3> QED
      BY <3>1, <3>2, <3>3, <3>4, <3>6, ApifyPoolAssumption
  <2> QED
    BY <2>1, <2>2
<1>2. /\ hold'[r][a] = row
      /\ \A q \in Runs, b \in Accounts : <<q, b>> # <<r, a>> => hold'[q][b] = hold[q][b]
      /\ spent'[a] = spent[a] + cost
      /\ \A b \in Accounts \ {a} : spent'[b] = spent[b]
  BY <1>1 DEF PoolTypeOK
<1>3. PoolTypeOK'
  BY <1>1 DEF PoolTypeOK
<1>4. \A q \in Runs, b \in Accounts : Holds(q, b)' <=> Holds(q, b)
  BY <1>1, <1>2, AccountsArePresent DEF Holds
<1>5. ExclusiveUse'
  BY <1>4 DEF ExclusiveUse
<1>6. HeldIsThere'
  BY <1>1, <1>4 DEF HeldIsThere, There
<1>7. UnusedYet'
  <2>1. accts[a] # Absent
    BY <1>1, AccountsArePresent DEF HeldIsThere, There
  <2> QED
    BY <1>1, <1>2, <2>1 DEF UnusedYet
<1>8. UsageIsKept'
  <2> SUFFICES ASSUME NEW b \in Accounts \ forgotten'
               PROVE  Ledger(b)'
    BY DEF UsageIsKept
  <2>1. Ledger(b)
    BY <1>1 DEF UsageIsKept
  <2>2. There(b)' /\ ~Locked(b)' => accts'[b].credit = spent'[b]
    BY <1>1, <1>2, <1>4, <2>1 DEF Ledger, There, Locked
  <2>3. ASSUME NEW q \in Runs, Holds(q, b)'
        PROVE  hold'[q][b].credit = spent'[b]
    BY <1>1, <1>2, <1>4, <2>1, <2>3 DEF Ledger, ExclusiveUse
  <2> QED
    BY <2>2, <2>3 DEF Ledger
<1>9. ChargedWithinBudget'
  <2> SUFFICES ASSUME NEW q \in Runs, NEW b \in Accounts, Holds(q, b)',
                      hold'[q][b].credit > accts'[b].credit
               PROVE  Overdrawable(hold'[q][b])
    BY DEF ChargedWithinBudget, Overdrawable
  <2>1. CASE <<q, b>> # <<r, a>>
    BY <1>1, <1>2, <1>4, <2>1 DEF ChargedWithinBudget
  <2>2. CASE q = r /\ b = a /\ cost = 0
    <3>1. hold[r][a].credit \in Nat
      BY <1>1, HeldRow DEF Account
    <3>2. Overdrawable(hold[r][a])
      BY <1>1, <1>2, <2>2, <3>1 DEF ChargedWithinBudget
    <3> QED
      BY <1>1, <1>2, <2>2, <3>1, <3>2 DEF Overdrawable
  <2>3. CASE q = r /\ b = a /\ cost # 0
    BY <1>1, <1>2, <2>3
  <2> QED
    BY <2>1, <2>2, <2>3
<1> QED
  BY <1>2, <1>3, <1>5, <1>6, <1>7, <1>8, <1>9

LEMMA CommitKeepsPool ==
    ASSUME PoolInv, NEW r \in Runs, CommitAccounts(r)
    PROVE  /\ PoolInv'
           /\ \A q \in Runs \ {r}, a \in Accounts : hold'[q][a] = hold[q][a]
           /\ \A a \in Accounts :
                 There(a) /\ accts'[a].credit > accts[a].credit => Overdrawable(accts'[a])
<1> USE DEF PoolInv
<1>1. /\ accts' = [a \in Accounts |-> Seen(r, a)]
      /\ hold' = [hold EXCEPT ![r] = [a \in Accounts |-> Free]]
      /\ UNCHANGED <<adm, spent, forgotten>>
  BY DEF CommitAccounts
<1>2. /\ \A a \in Accounts : ~Holds(r, a)'
      /\ \A q \in Runs \ {r}, a \in Accounts :
            hold'[q][a] = hold[q][a] /\ (Holds(q, a)' <=> Holds(q, a))
  BY <1>1 DEF Holds, PoolTypeOK
<1>3. \A a \in Accounts :
         /\ Holds(r, a) => accts'[a] = hold[r][a] /\ accts'[a] \in Account
         /\ ~Holds(r, a) => accts'[a] = accts[a]
  BY <1>1, HeldRow
<1>4. PoolTypeOK'
  BY <1>1, <1>3 DEF PoolTypeOK, Rows
<1>5. ExclusiveUse'
  BY <1>2 DEF ExclusiveUse
<1>6. HeldIsThere'
  BY <1>2, <1>3 DEF HeldIsThere, There
<1>7. UnusedYet'
  BY <1>1, <1>3, AccountsArePresent DEF UnusedYet
<1>8. UsageIsKept'
  <2> SUFFICES ASSUME NEW a \in Accounts \ forgotten'
               PROVE  Ledger(a)'
    BY DEF UsageIsKept
  <2>1. Ledger(a)
    BY <1>1 DEF UsageIsKept
  <2>2. There(a)' /\ ~Locked(a)' => accts'[a].credit = spent'[a]
    BY <1>1, <1>2, <1>3, <2>1 DEF Ledger, There, Locked
  <2>3. ASSUME NEW q \in Runs, Holds(q, a)'
        PROVE  hold'[q][a].credit = spent'[a]
    BY <1>1, <1>2, <2>1, <2>3 DEF Ledger
  <2> QED
    BY <2>2, <2>3 DEF Ledger
<1>9. ChargedWithinBudget'
  <2> SUFFICES ASSUME NEW q \in Runs, NEW a \in Accounts, Holds(q, a)',
                      hold'[q][a].credit > accts'[a].credit
               PROVE  Overdrawable(hold'[q][a])
    BY DEF ChargedWithinBudget, Overdrawable
  <2>1. q # r /\ Holds(q, a) /\ hold'[q][a] = hold[q][a]
    BY <1>2
  <2>2. accts'[a] = accts[a]
    BY <1>3, <2>1 DEF ExclusiveUse
  <2> QED
    BY <2>1, <2>2 DEF ChargedWithinBudget
<1>10. ASSUME NEW a \in Accounts, There(a), accts'[a].credit > accts[a].credit
       PROVE  Overdrawable(accts'[a])
  <2>1. accts[a].credit \in Nat
    BY <1>10 DEF There, Account
  <2>2. Holds(r, a)
    BY <1>3, <1>10, <2>1
  <2> QED
    BY <1>3, <1>10, <2>2 DEF ChargedWithinBudget
<1> QED
  BY <1>2, <1>4, <1>5, <1>6, <1>7, <1>8, <1>9, <1>10

LEMMA RollbackKeepsPool ==
    ASSUME PoolInv, NEW runs \in SUBSET Runs, RollbackAccounts(runs),
           adm' \in [Admins -> Writing \union {Idle}]
    PROVE  /\ PoolInv'
           /\ \A q \in Runs \ runs, a \in Accounts : hold'[q][a] = hold[q][a]
<1> USE DEF PoolInv
<1>1. /\ hold' = [r \in Runs |-> IF r \in runs THEN [a \in Accounts |-> Free] ELSE hold[r]]
      /\ forgotten' = forgotten \union Uncommitted(runs)
      /\ UNCHANGED <<accts, spent>>
  BY DEF RollbackAccounts
<1>2. /\ \A r \in runs, a \in Accounts : ~Holds(r, a)'
      /\ \A q \in Runs \ runs, a \in Accounts :
            hold'[q][a] = hold[q][a] /\ (Holds(q, a)' <=> Holds(q, a))
  BY <1>1 DEF Holds
<1>3. PoolTypeOK'
  BY <1>1 DEF PoolTypeOK, Uncommitted
<1>4. ExclusiveUse'
  BY <1>2 DEF ExclusiveUse
<1>5. HeldIsThere'
  BY <1>1, <1>2 DEF HeldIsThere, There
<1>6. UnusedYet'
  BY <1>1 DEF UnusedYet
<1>7. UsageIsKept'
  <2> SUFFICES ASSUME NEW a \in Accounts \ forgotten'
               PROVE  Ledger(a)'
    BY DEF UsageIsKept
  <2>1. Ledger(a) /\ a \notin Uncommitted(runs)
    BY <1>1 DEF UsageIsKept
  <2>2. ASSUME There(a)', ~Locked(a)'
        PROVE  accts'[a].credit = spent'[a]
    <3>1. CASE Locked(a)
      <4>1. PICK r \in Runs : Holds(r, a)
        BY <3>1 DEF Locked
      <4>2. r \in runs
        BY <1>2, <2>2, <4>1 DEF Locked
      <4> QED
        BY <1>1, <2>1, <4>1, <4>2 DEF Uncommitted, Ledger
    <3>2. CASE ~Locked(a)
      BY <1>1, <2>1, <2>2, <3>2 DEF Ledger, There
    <3> QED
      BY <3>1, <3>2
  <2>3. ASSUME NEW q \in Runs, Holds(q, a)'
        PROVE  hold'[q][a].credit = spent'[a]
    BY <1>1, <1>2, <2>1, <2>3 DEF Ledger
  <2> QED
    BY <2>2, <2>3 DEF Ledger
<1>8. ChargedWithinBudget'
  <2> SUFFICES ASSUME NEW q \in Runs, NEW a \in Accounts, Holds(q, a)',
                      hold'[q][a].credit > accts'[a].credit
               PROVE  Overdrawable(hold'[q][a])
    BY DEF ChargedWithinBudget, Overdrawable
  <2> QED
    BY <1>1, <1>2 DEF ChargedWithinBudget
<1> QED
  BY <1>2, <1>3, <1>4, <1>5, <1>6, <1>7, <1>8

(***************************************************************************)
(* What the user's handlers may do to a row.                               *)
(***************************************************************************)
Administered(a) ==
    \/ accts'[a] = accts[a]
    \/ accts[a] = Absent /\ accts'[a] \in Account /\ accts'[a].credit = 0
    \/ /\ There(a) /\ ~Locked(a)
       /\ \/ accts'[a] \in Account /\ accts'[a].credit = accts[a].credit
          \/ accts'[a] = Deleted

LEMMA AdministerRows ==
    ASSUME PoolTypeOK, Administer
    PROVE  /\ UNCHANGED <<hold, spent, forgotten>>
           /\ PoolTypeOK'
           /\ \A a \in Accounts : Administered(a)
<1> USE DEF PoolTypeOK
<1>1. ASSUME NEW a \in Accounts, NEW monthly \in Monthlies, CreateAccount(a, monthly)
      PROVE  /\ UNCHANGED <<hold, spent, forgotten>>
             /\ PoolTypeOK'
             /\ \A b \in Accounts : Administered(b)
  <2>1. NewAccount(monthly) \in Account /\ NewAccount(monthly).credit = 0
    BY ApifyPoolAssumption DEF NewAccount, Account, AccountStatuses
  <2> DEFINE new == NewAccount(monthly)
  <2>2. /\ accts[a] = Absent
        /\ accts' = [accts EXCEPT ![a] = new]
        /\ UNCHANGED <<hold, adm, spent, forgotten>>
    BY <1>1 DEF CreateAccount
  <2>3. new \in Rows /\ new \in Account /\ new.credit = 0
    BY <2>1 DEF Rows
  <2> HIDE DEF new
  <2>4. accts' \in [Accounts -> Rows]
    BY <2>2, <2>3
  <2>5. \A b \in Accounts : Administered(b)
    BY <2>2, <2>3 DEF Administered
  <2> QED
    BY <2>2, <2>4, <2>5
<1>2. ASSUME NEW t \in Admins, NEW a \in Accounts, LoadAccount(t, a)
      PROVE  /\ UNCHANGED <<hold, spent, forgotten>>
             /\ PoolTypeOK'
             /\ \A b \in Accounts : Administered(b)
  <2>1. PICK new \in Patched(accts[a]) \union {Reactivated(accts[a])} :
          adm' = [adm EXCEPT ![t] = [pc |-> "write", acct |-> a, was |-> accts[a], new |-> new]]
    BY <1>2 DEF LoadAccount
  <2>2. accts[a] \in Account
    BY <1>2 DEF LoadAccount, There
  <2>3. new \in Account
    <3>1. CASE new = Reactivated(accts[a])
      <4>1. "active" \in AccountStatuses /\ 0 \in 0 .. MaxFailures
        BY ApifyPoolAssumption DEF AccountStatuses
      <4> QED
        BY <2>2, <3>1, <4>1 DEF Reactivated, Account
    <3>2. ASSUME NEW s \in AccountStatuses, new = [accts[a] EXCEPT !.status = s]
          PROVE  new \in Account
      BY <2>2, <3>2 DEF Account
    <3>3. ASSUME NEW m \in Monthlies, new = [accts[a] EXCEPT !.monthly = m]
          PROVE  new \in Account
      BY <2>2, <3>3, ApifyPoolAssumption DEF Account
    <3> QED
      BY <2>1, <3>1, <3>2, <3>3 DEF Patched
  <2> QED
    BY <1>2, <2>1, <2>2, <2>3 DEF LoadAccount, Writing, Administered
<1>3. ASSUME NEW t \in Admins, WriteAccount(t)
      PROVE  /\ UNCHANGED <<hold, spent, forgotten>>
             /\ PoolTypeOK'
             /\ \A b \in Accounts : Administered(b)
  <2>1. adm[t] \in Writing
    BY <1>3 DEF WriteAccount, Idle
  <2> DEFINE a   == adm[t].acct
             new == NetChange(accts[a], adm[t].was, adm[t].new)
  <2>2. a \in Accounts /\ adm[t].was \in Account /\ adm[t].new \in Account
    BY <2>1 DEF Writing
  <2>3. /\ ~Locked(a)
        /\ accts' = IF There(a) THEN [accts EXCEPT ![a] = new] ELSE accts
        /\ adm' = [adm EXCEPT ![t] = Idle]
        /\ UNCHANGED <<hold, spent, forgotten>>
    BY <1>3 DEF WriteAccount
  <2>4. There(a) => new \in Account /\ new.credit = accts[a].credit
    BY <2>2, WrittenRow DEF There
  <2> HIDE DEF a, new
  <2> QED
    BY <2>2, <2>3, <2>4 DEF Rows, Administered
<1>4. ASSUME NEW a \in Accounts, DeleteAccount(a)
      PROVE  /\ UNCHANGED <<hold, spent, forgotten>>
             /\ PoolTypeOK'
             /\ \A b \in Accounts : Administered(b)
  BY <1>4 DEF DeleteAccount, Rows, Administered
<1> QED
  BY <1>1, <1>2, <1>3, <1>4 DEF Administer

LEMMA AdministerKeepsPool ==
    ASSUME PoolInv, Administer
    PROVE  PoolInv'
<1> USE DEF PoolInv
<1>1. /\ UNCHANGED <<hold, spent, forgotten>>
      /\ PoolTypeOK'
      /\ \A a \in Accounts : Administered(a)
  BY AdministerRows
<1>2. \A r \in Runs, a \in Accounts : Holds(r, a)' <=> Holds(r, a)
  BY <1>1 DEF Holds
<1>3. \A r \in Runs, a \in Accounts : Holds(r, a) => accts'[a] = accts[a]
  BY <1>1, AccountsArePresent DEF Administered, HeldIsThere, There, Locked
<1>4. ExclusiveUse'
  BY <1>2 DEF ExclusiveUse
<1>5. HeldIsThere'
  BY <1>2, <1>3 DEF HeldIsThere, There
<1>6. UnusedYet'
  BY <1>1, AccountsArePresent DEF UnusedYet, Administered, Absent, Deleted
<1>7. UsageIsKept'
  <2> SUFFICES ASSUME NEW a \in Accounts \ forgotten'
               PROVE  Ledger(a)'
    BY DEF UsageIsKept
  <2>1. Ledger(a)
    BY <1>1 DEF UsageIsKept
  <2>2. ASSUME There(a)', ~Locked(a)'
        PROVE  accts'[a].credit = spent'[a]
    <3>1. ~Locked(a)
      BY <1>2, <2>2 DEF Locked
    <3>2. accts'[a] # Deleted
      BY <2>2, AccountsArePresent DEF There
    <3>3. CASE accts'[a] = accts[a]
      BY <1>1, <2>1, <2>2, <3>1, <3>3 DEF Ledger, There
    <3>4. CASE accts[a] = Absent /\ accts'[a].credit = 0
      BY <1>1, <3>4 DEF UnusedYet
    <3>5. CASE There(a) /\ accts'[a].credit = accts[a].credit
      BY <1>1, <2>1, <3>1, <3>5 DEF Ledger
    <3> QED
      BY <1>1, <3>2, <3>3, <3>4, <3>5 DEF Administered
  <2>3. ASSUME NEW r \in Runs, Holds(r, a)'
        PROVE  hold'[r][a].credit = spent'[a]
    BY <1>1, <1>2, <2>1, <2>3 DEF Ledger
  <2> QED
    BY <2>2, <2>3 DEF Ledger
<1>8. ChargedWithinBudget'
  <2> SUFFICES ASSUME NEW r \in Runs, NEW a \in Accounts, Holds(r, a)',
                      hold'[r][a].credit > accts'[a].credit
               PROVE  Overdrawable(hold'[r][a])
    BY DEF ChargedWithinBudget, Overdrawable
  <2> QED
    BY <1>1, <1>2, <1>3 DEF ChargedWithinBudget
<1> QED
  BY <1>1, <1>4, <1>5, <1>6, <1>7, <1>8

-----------------------------------------------------------------------------
(***************************************************************************)
(* The steps of runs keep what ScrapeRun adds.                             *)
(***************************************************************************)

LEMMA RunningIsNotIdle ==
    ASSUME RunTypeOK, NEW r \in Runs
    PROVE  run[r].pc # "idle" => run[r] \in Running
BY DEF RunTypeOK, Idle

LEMMA BeginKeepsRuns ==
    ASSUME ScrapeInv, NEW r \in Runs, Begin(r)
    PROVE  ScrapeInv'
<1> USE DEF ScrapeInv
<1>1. PICK by \in {"cron", "user"}, c \in Configs \union {"none"}, gated \in 0 .. 2 :
         Start(r, by, c, gated)
  BY ScrapeRunAssumption DEF Begin, RunScheduled, RunByHand, RunAdHoc
<1>2. PICK found \in SUBSET Jobs : run' = [run EXCEPT ![r] = Started(by, c, gated, found)]
  BY <1>1 DEF Start
<1>3. UNCHANGED <<poolVars, configs, cron, board>>
  BY <1>1 DEF Start
<1>4. PoolInv'
  BY <1>3 DEF PoolInv, PoolTypeOK, ExclusiveUse, HeldIsThere, UnusedYet, UsageIsKept, Ledger,
              ChargedWithinBudget, Overdrawable, Holds, There, Locked, poolVars
<1>5. Started(by, c, gated, found) \in Running
  BY DEF Started, Running
<1>6. RunTypeOK'
  BY <1>2, <1>3, <1>5 DEF RunTypeOK
<1>7. /\ Started(by, c, gated, found).pc \notin {"scrape", "insert"}
      /\ Started(by, c, gated, found).pc = "acquire" =>
            Started(by, c, gated, found).gated \in 1 .. 2
  BY DEF Started
<1>8. ScrapesWithItsAccount'
  BY <1>2, <1>3, <1>7 DEF ScrapesWithItsAccount, RunTypeOK, Holds, HasBudget, poolVars
<1>9. SourcesLeft' /\ InsertsAJob'
  BY <1>2, <1>7 DEF SourcesLeft, InsertsAJob, RunTypeOK
<1> QED
  BY <1>4, <1>6, <1>8, <1>9
LEMMA OnwardGoesOn ==
    ASSUME NEW gated \in 1 .. 2
    PROVE  /\ Onward(gated) \in {"acquire", "lookup"}
           /\ Onward(gated) = "acquire" => gated - 1 \in 1 .. 2
           /\ gated - 1 \in 0 .. 2
BY DEF Onward

(***************************************************************************)
(* Going on to the next source: no account, and a source left to acquire   *)
(* one for.                                                                *)
(***************************************************************************)
LEMMA NextSourceKeepsRuns ==
    ASSUME RunTypeOK, SourcesLeft, NEW r \in Runs, NEW more \in SUBSET Jobs,
           run[r].pc \in {"acquire", "scrape"}, NextSource(r, more),
           UNCHANGED <<configs, cron, board>>
    PROVE  /\ RunTypeOK'
           /\ SourcesLeft'
           /\ run'[r].pc \notin {"scrape", "insert"}
           /\ \A q \in Runs \ {r} : run'[q] = run[q]
<1> DEFINE new == [run[r] EXCEPT !.pc = Onward(run[r].gated), !.gated = @ - 1,
                                 !.acct = "none", !.found = @ \union more,
                                 !.todo = @ \union more]
<1>1. run[r] \in Running /\ run[r].gated \in 1 .. 2
  BY RunningIsNotIdle DEF SourcesLeft
<1>2. run' = [run EXCEPT ![r] = new]
  BY <1>1 DEF NextSource, RunTypeOK
<1>3. new \in Running /\ new.pc \in {"acquire", "lookup"}
                      /\ (new.pc = "acquire" => new.gated \in 1 .. 2)
  <2>1. /\ Onward(run[r].gated) \in {"acquire", "lookup"}
        /\ Onward(run[r].gated) = "acquire" => run[r].gated - 1 \in 1 .. 2
        /\ run[r].gated - 1 \in 0 .. 2
    BY <1>1, OnwardGoesOn
  <2> QED
    BY <1>1, <2>1 DEF Running
<1> HIDE DEF new
<1> QED
  BY <1>2, <1>3 DEF RunTypeOK, SourcesLeft

LEMMA ScrapeKeepsRuns ==
    ASSUME ScrapeInv, NEW r \in Runs, Scrape(r)
    PROVE  ScrapeInv'
<1> USE DEF ScrapeInv
<1>1. ASSUME NEW a \in Accounts, AcquireAccount(r, a)
      PROVE  ScrapeInv'
  <2>1. run[r].pc = "acquire" /\ Acquire(r, a)
        /\ run' = [run EXCEPT ![r].pc = "scrape", ![r].acct = a]
        /\ UNCHANGED <<configs, cron, board>>
    BY <1>1 DEF AcquireAccount
  <2>2. /\ PoolInv'
        /\ Holds(r, a)'
        /\ HasBudget(hold'[r][a])
        /\ \A q \in Runs, b \in Accounts : <<q, b>> # <<r, a>> => hold'[q][b] = hold[q][b]
    BY <2>1, AcquireKeepsPool
  <2>3. run[r] \in Running /\ run[r].gated \in 1 .. 2
    BY <2>1, RunningIsNotIdle DEF SourcesLeft
  <2>4. /\ run'[r] \in Running /\ run'[r].acct = a /\ run'[r].gated \in 1 .. 2
        /\ \A q \in Runs \ {r} : run'[q] = run[q]
    BY <2>1, <2>3 DEF Running, RunTypeOK
  <2>5. RunTypeOK'
    BY <2>1, <2>4 DEF RunTypeOK
  <2>6. ScrapesWithItsAccount'
    BY <2>2, <2>4 DEF ScrapesWithItsAccount, Holds, HasBudget
  <2>7. run'[r].pc = "scrape"
    BY <2>1, <2>3 DEF RunTypeOK, Running
  <2>8. SourcesLeft' /\ InsertsAJob'
    BY <2>4, <2>7 DEF SourcesLeft, InsertsAJob
  <2> QED
    BY <2>2, <2>5, <2>6, <2>8
<1>2. CASE SkipSource(r)
  <2>1. /\ run[r].pc = "acquire" /\ NextSource(r, {})
        /\ UNCHANGED <<poolVars, configs, cron, board>>
    BY <1>2 DEF SkipSource
  <2>2. /\ RunTypeOK' /\ SourcesLeft' /\ run'[r].pc \notin {"scrape", "insert"}
        /\ \A q \in Runs \ {r} : run'[q] = run[q]
    BY <2>1, NextSourceKeepsRuns
  <2>3. PoolInv'
    BY <2>1 DEF PoolInv, PoolTypeOK, ExclusiveUse, HeldIsThere, UnusedYet, UsageIsKept, Ledger,
                ChargedWithinBudget, Overdrawable, Holds, There, Locked, poolVars
  <2>4. ScrapesWithItsAccount'
    BY <2>1, <2>2 DEF ScrapesWithItsAccount, Holds, HasBudget, poolVars
  <2>5. InsertsAJob'
    BY <2>2 DEF InsertsAJob
  <2> QED
    BY <2>2, <2>3, <2>4, <2>5
<1>3. CASE \/ \E more \in SUBSET Jobs, cost \in Costs : ScrapeSource(r, more, cost)
           \/ ScrapeFails(r)
  <2> DEFINE a == run[r].acct
  <2>1. PICK more \in SUBSET Jobs :
           run[r].pc = "scrape" /\ NextSource(r, more) /\ UNCHANGED <<configs, cron, board>>
    BY <1>3 DEF ScrapeSource, ScrapeFails
  <2>2. a \in Accounts /\ HasBudget(hold[r][a])
    BY <2>1 DEF ScrapesWithItsAccount
  <2>3. (\E cost \in Costs : RecordSuccess(r, a, cost)) \/ RecordFailure(r, a)
    BY <1>3 DEF ScrapeSource, ScrapeFails
  <2> HIDE DEF a
  <2>4. /\ PoolInv'
        /\ \A q \in Runs \ {r}, b \in Accounts : hold'[q][b] = hold[q][b]
    BY <2>2, <2>3, RecordKeepsPool
  <2>5. /\ RunTypeOK' /\ SourcesLeft' /\ run'[r].pc \notin {"scrape", "insert"}
        /\ \A q \in Runs \ {r} : run'[q] = run[q]
    BY <2>1, NextSourceKeepsRuns
  <2>6. ScrapesWithItsAccount'
    BY <2>4, <2>5 DEF ScrapesWithItsAccount, Holds, HasBudget
  <2>7. InsertsAJob'
    BY <2>5 DEF InsertsAJob
  <2> QED
    BY <2>4, <2>5, <2>6, <2>7
<1> QED
  BY <1>1, <1>2, <1>3 DEF Scrape

(***************************************************************************)
(* Persisting: the run is past its sources.                                *)
(***************************************************************************)
PastSources(r) ==
    /\ run' \in [Runs -> Running \union {Idle}]
    /\ run'[r].pc \notin {"acquire", "scrape"}
    /\ run'[r].pc = "insert" => run'[r].job \in Jobs
    /\ \A q \in Runs \ {r} : run'[q] = run[q]

LEMMA PersistKeepsRuns ==
    ASSUME ScrapeInv, NEW r \in Runs, Persist(r) \/ RefuseRow(r)
    PROVE  ScrapeInv'
<1> USE DEF ScrapeInv
<1>1. PoolInv' /\ \A q \in Runs \ {r}, a \in Accounts : hold'[q][a] = hold[q][a]
  <2>1. CASE UNCHANGED poolVars
    BY <2>1 DEF PoolInv, PoolTypeOK, ExclusiveUse, HeldIsThere, UnusedYet, UsageIsKept, Ledger,
                ChargedWithinBudget, Overdrawable, Holds, There, Locked, poolVars
  <2>2. CASE CommitAccounts(r)
    BY <2>2, CommitKeepsPool
  <2>3. CASE RollbackAccounts({r}) /\ adm' = adm
    BY <2>3, RollbackKeepsPool DEF PoolInv, PoolTypeOK
  <2> QED
    BY <2>1, <2>2, <2>3 DEF Persist, Lookup, Insert, Collide, RefuseRow, Undo, Commit, CommitRaises
<1>2. UNCHANGED <<configs, cron>> /\ board' \in [Jobs -> {"unknown", "listed", "removed"}]
  BY DEF Persist, Lookup, Insert, Collide, RefuseRow, Undo, Commit, CommitRaises, RunTypeOK
<1>3. run[r] \in Running /\ run[r].pc \in {"lookup", "insert"}
  BY RunningIsNotIdle
     DEF Persist, Lookup, Insert, Collide, RefuseRow, Undo, Raises, Commit, CommitRaises, Finished
<1>4. PastSources(r)
  <2> USE DEF RunTypeOK, PastSources
  <2>1. ASSUME NEW j \in Jobs, Lookup(r, j)
        PROVE  PastSources(r)
    BY <1>3, <2>1 DEF Lookup, Running
  <2>2. CASE Insert(r)
    <3>1. run[r].job \in Jobs
      BY <2>2 DEF Insert, InsertsAJob
    <3> QED
      BY <1>3, <2>2, <3>1 DEF Insert, Running
  <2>3. CASE Collide(r) \/ RefuseRow(r)
    BY <1>3, <2>3 DEF Collide, RefuseRow, Undo, Running
  <2>4. CASE run' = [run EXCEPT ![r] = Idle]
    BY <2>4 DEF Idle
  <2> QED
    BY <2>1, <2>2, <2>3, <2>4 DEF Persist, Commit, CommitRaises
<1>5. RunTypeOK'
  BY <1>2, <1>4 DEF RunTypeOK, PastSources
<1>6. ScrapesWithItsAccount'
  BY <1>1, <1>4 DEF ScrapesWithItsAccount, PastSources, Holds, HasBudget
<1>7. SourcesLeft' /\ InsertsAJob'
  BY <1>4 DEF SourcesLeft, InsertsAJob, PastSources
<1> QED
  BY <1>1, <1>5, <1>6, <1>7

-----------------------------------------------------------------------------
(***************************************************************************)
(* The inductive invariant.                                                *)
(***************************************************************************)

LEMMA InitEstablishes ==
    ASSUME Init
    PROVE  ScrapeInv
<1> USE DEF Init, PoolInit
<1>1. \A r \in Runs, a \in Accounts : ~Holds(r, a)
  BY DEF Holds
<1>2. \A a \in Accounts : ~There(a)
  BY AccountsArePresent DEF There
<1>3. PoolTypeOK
  BY DEF PoolTypeOK, Rows
<1>4. PoolInv
  BY <1>1, <1>2, <1>3 DEF PoolInv, ExclusiveUse, HeldIsThere, UnusedYet, UsageIsKept, Ledger,
                          ChargedWithinBudget
<1>5. RunTypeOK
  BY DEF RunTypeOK
<1>6. \A r \in Runs : run[r].pc = "idle"
  BY DEF Idle
<1> QED
  BY <1>4, <1>5, <1>6 DEF ScrapeInv, ScrapesWithItsAccount, SourcesLeft, InsertsAJob

LEMMA StepKeeps ==
    ASSUME ScrapeInv, [Next]_vars
    PROVE  ScrapeInv'
<1>1. ASSUME NEW r \in Runs, Begin(r) \/ Scrape(r) \/ Persist(r) \/ RefuseRow(r)
      PROVE  ScrapeInv'
  BY <1>1, BeginKeepsRuns, ScrapeKeepsRuns, PersistKeepsRuns
<1>2. CASE Administer /\ UNCHANGED <<configs, cron, board, run>>
  <2>1. PoolInv' /\ UNCHANGED hold
    BY <1>2, AdministerKeepsPool, AdministerRows DEF ScrapeInv, PoolInv
  <2> QED
    BY <1>2, <2>1 DEF ScrapeInv, RunTypeOK, ScrapesWithItsAccount, SourcesLeft, InsertsAJob,
                      Holds, HasBudget
<1>3. CASE Restart
  <2>1. PoolInv'
    BY <1>3, RollbackKeepsPool DEF Restart, ScrapeInv, PoolInv, PoolTypeOK
  <2>2. RunTypeOK' /\ \A r \in Runs : run'[r].pc = "idle"
    BY <1>3 DEF Restart, ScrapeInv, RunTypeOK, Idle
  <2> QED
    BY <2>1, <2>2 DEF ScrapeInv, ScrapesWithItsAccount, SourcesLeft, InsertsAJob
<1>4. CASE /\ UNCHANGED <<poolVars, run>>
           /\ RunTypeOK'
  BY <1>4 DEF ScrapeInv, PoolInv, PoolTypeOK, ExclusiveUse, HeldIsThere, UnusedYet, UsageIsKept,
              Ledger, ChargedWithinBudget, Overdrawable, Holds, There, Locked, poolVars,
              ScrapesWithItsAccount, SourcesLeft, InsertsAJob, HasBudget
<1>5. ASSUME NEW c \in Configs, NEW s \in {"active", "inactive", "deleted"}, UpdateConfig(c, s)
      PROVE  ScrapeInv'
  BY <1>4, <1>5 DEF UpdateConfig, ScrapeInv, RunTypeOK
<1>6. ASSUME NEW j \in Jobs, DeleteJob(j)
      PROVE  ScrapeInv'
  BY <1>4, <1>6 DEF DeleteJob, ScrapeInv, RunTypeOK
<1>7. CASE UNCHANGED vars
  BY <1>4, <1>7 DEF vars, poolVars, ScrapeInv, RunTypeOK
<1> QED
  BY <1>1, <1>2, <1>3, <1>5, <1>6, <1>7 DEF Next, User

(***************************************************************************)
(* The inductive invariant of ScrapeRun holds throughout.                  *)
(***************************************************************************)
THEOREM ScrapeInvariant == Spec => []ScrapeInv
<1>1. Init => ScrapeInv
  BY InitEstablishes
<1>2. ScrapeInv /\ [Next]_vars => ScrapeInv'
  BY StepKeeps
<1> QED
  BY <1>1, <1>2, PTL DEF Spec

-----------------------------------------------------------------------------
(***************************************************************************)
(* What follows.                                                           *)
(***************************************************************************)

(***************************************************************************)
(* Type correctness of ScrapeRun and of the pool.                          *)
(***************************************************************************)
THEOREM ScrapeTyping == Spec => []TypeOK
<1>1. ScrapeInv => TypeOK
  BY DEF ScrapeInv, PoolInv, RunTypeOK, TypeOK
<1> QED
  BY <1>1, ScrapeInvariant, PTL

(***************************************************************************)
(* "Concurrent callers never return the same row": acquire_account gives no*)
(* account to two runs at once.                                            *)
(***************************************************************************)
THEOREM OneRunPerAccount == Spec => []ExclusiveUse
<1>1. ScrapeInv => ExclusiveUse
  BY DEF ScrapeInv, PoolInv
<1> QED
  BY <1>1, ScrapeInvariant, PTL

(***************************************************************************)
(* credit_used_usd is what the account's scrapes have cost, whatever else  *)
(* is written to the account, unless a rollback has undone a charge.       *)
(***************************************************************************)
THEOREM CreditIsSpent == Spec => []UsageIsKept
<1>1. ScrapeInv => UsageIsKept
  BY DEF ScrapeInv, PoolInv
<1> QED
  BY <1>1, ScrapeInvariant, PTL

(***************************************************************************)
(* The budget test before a scrape bounds what is charged after it: an     *)
(* account is overdrawn by the cost of one scrape, less the reserve.       *)
(***************************************************************************)
THEOREM OneScrapeOverBudget == Spec => OverdrawnOnceAtMost
<1> DEFINE Step ==
      \A a \in Accounts :
          There(a) /\ accts'[a] \in Account /\ accts'[a].credit > accts[a].credit =>
              \E cost \in Costs : accts'[a].credit + Reserve <= accts'[a].monthly + cost
<1>1. ASSUME ScrapeInv, [Next]_vars
      PROVE  [Step]_accts
  <2> SUFFICES ASSUME accts' # accts, NEW a \in Accounts, There(a), accts'[a] \in Account,
                      accts'[a].credit > accts[a].credit
               PROVE  Overdrawable(accts'[a])
    BY DEF Overdrawable
  <2> USE <1>1 DEF ScrapeInv
  <2>1. (\E r \in Runs : CommitAccounts(r)) \/ Administer
    BY DEF Next, vars, poolVars, Begin, RunScheduled, RunByHand, RunAdHoc, Start, Scrape,
           AcquireAccount, Acquire, SkipSource, ScrapeSource, RecordSuccess, ScrapeFails,
           RecordFailure, Persist, Lookup, Insert, Collide, RefuseRow, Undo, Commit, CommitRaises,
           RollbackAccounts, User, UpdateConfig, DeleteJob, Restart
  <2>2. ASSUME NEW r \in Runs, CommitAccounts(r)
        PROVE  Overdrawable(accts'[a])
    BY <2>2, CommitKeepsPool
  <2>3. CASE Administer
    <3>1. Administered(a)
      BY <2>3, AdministerRows DEF PoolInv
    <3>2. accts[a].credit \in Nat
      BY DEF There, Account
    <3>3. accts[a] # Absent /\ accts'[a] # Deleted
      BY AccountsArePresent DEF There
    <3> QED
      BY <3>1, <3>2, <3>3 DEF Administered
  <2> QED
    BY <2>1, <2>2, <2>3
<1>2. OverdrawnOnceAtMost <=> [][Step]_accts
  BY DEF OverdrawnOnceAtMost
<1> QED
  BY <1>1, <1>2, ScrapeInvariant, PTL DEF Spec
-----------------------------------------------------------------------------
(***************************************************************************)
(* What a run has found and is not in the table yet is still to be looked  *)
(* up, about to be inserted or inserted by the run, unless it was rolled   *)
(* back.                                                                   *)
(***************************************************************************)
AccountedFor(r) ==
    run[r].pc # "idle" /\ ~run[r].lost =>
        \A j \in run[r].found :
            \/ j \in run[r].todo \union run[r].mine
            \/ run[r].pc = "insert" /\ run[r].job = j
            \/ board[j] # "unknown"

FoundInv == \A r \in Runs : AccountedFor(r)

LEMMA FoundStep ==
    ASSUME ScrapeInv, FoundInv, [Next]_vars
    PROVE  FoundInv'
<1> USE DEF FoundInv
<1>1. \A j \in Jobs : board[j] # "unknown" => board'[j] # "unknown"
  BY DEF Next, vars, poolVars, Begin, RunScheduled, RunByHand, RunAdHoc, Start, Scrape,
         AcquireAccount, SkipSource, ScrapeSource, ScrapeFails, Persist, Lookup, Insert,
         Collide, RefuseRow, Undo, Commit, CommitRaises, User, UpdateConfig, DeleteJob, Restart,
         ScrapeInv, RunTypeOK
<1>2. ASSUME NEW q \in Runs, run'[q] = run[q]
      PROVE  AccountedFor(q)'
  <2>1. run[q] \in Running \union {Idle}
    BY DEF ScrapeInv, RunTypeOK
  <2>2. run[q].pc # "idle" => run[q].found \subseteq Jobs
    BY <2>1 DEF Running, Idle
  <2> QED
    BY <1>1, <1>2, <2>2 DEF AccountedFor
<1>3. ASSUME NEW r \in Runs, Begin(r) \/ Scrape(r) \/ Persist(r) \/ RefuseRow(r)
      PROVE  FoundInv'
  <2> USE DEF ScrapeInv, RunTypeOK
  <2>1. \A q \in Runs \ {r} : run'[q] = run[q]
    BY <1>3 DEF Begin, RunScheduled, RunByHand, RunAdHoc, Start, Scrape, AcquireAccount,
                SkipSource, ScrapeSource, ScrapeFails, NextSource, Persist, Lookup, Insert,
                Collide, RefuseRow, Undo, Commit, CommitRaises
  <2>2. ASSUME Begin(r)
        PROVE  AccountedFor(r)'
    <3>1. PICK by \in {"cron", "user"}, c \in Configs \union {"none"}, gated \in 0 .. 2 :
             Start(r, by, c, gated)
      BY <2>2, ScrapeRunAssumption DEF Begin, RunScheduled, RunByHand, RunAdHoc
    <3>2. PICK found \in SUBSET Jobs : run'[r] = Started(by, c, gated, found)
      BY <3>1 DEF Start
    <3>3. run'[r].found = found /\ run'[r].todo = found
      BY <3>2 DEF Started
    <3> QED
      BY <3>3 DEF AccountedFor
  <2>3. ASSUME run[r].pc # "idle"
        PROVE  run[r] \in Running /\ run[r].found \subseteq Jobs
    BY <2>3, RunningIsNotIdle DEF Running
  <2>4. ASSUME NEW a \in Accounts, AcquireAccount(r, a)
        PROVE  AccountedFor(r)'
    <3>1. run[r].pc = "acquire" /\ board' = board
          /\ run' = [run EXCEPT ![r].pc = "scrape", ![r].acct = a]
      BY <2>4 DEF AcquireAccount
    <3>2. /\ run'[r].found = run[r].found /\ run'[r].todo = run[r].todo
          /\ run'[r].mine = run[r].mine /\ run'[r].lost = run[r].lost
      BY <2>3, <3>1 DEF Running
    <3> QED
      BY <3>1, <3>2 DEF AccountedFor
  <2>5. ASSUME NEW more \in SUBSET Jobs, NextSource(r, more), UNCHANGED board,
               run[r].pc \in {"acquire", "scrape"}
        PROVE  AccountedFor(r)'
    BY <2>3, <2>5 DEF NextSource, AccountedFor, Running
  <2>6. ASSUME Scrape(r)
        PROVE  AccountedFor(r)'
    BY <2>4, <2>5, <2>6 DEF Scrape, SkipSource, ScrapeSource, ScrapeFails
  <2>7. ASSUME NEW j \in Jobs, Lookup(r, j)
        PROVE  AccountedFor(r)'
    BY <2>3, <2>7 DEF Lookup, Listed, AccountedFor, Running
  <2>8. ASSUME Insert(r)
        PROVE  AccountedFor(r)'
    BY <2>3, <2>8 DEF Insert, AccountedFor, Running
  <2>9. ASSUME Collide(r) \/ RefuseRow(r)
        PROVE  AccountedFor(r)'
    <3>1. run' = [run EXCEPT ![r].pc = "lookup", ![r].job = "none", ![r].mine = {},
                             ![r].lost = TRUE]
          /\ run[r].pc = "insert"
      BY <2>9 DEF Collide, RefuseRow, Undo, Raises
    <3>2. run'[r].lost = TRUE
      BY <2>3, <3>1 DEF Running
    <3> QED
      BY <3>2 DEF AccountedFor
  <2>10. ASSUME Commit(r) \/ CommitRaises(r)
        PROVE  AccountedFor(r)'
    BY <2>10 DEF Commit, CommitRaises, AccountedFor, Idle
  <2>11. AccountedFor(r)'
    BY <1>3, <2>2, <2>6, <2>7, <2>8, <2>9, <2>10 DEF Persist
  <2> QED
    BY <1>2, <2>1, <2>11
<1>4. CASE Restart
  BY <1>4 DEF Restart, AccountedFor, Idle
<1>5. CASE User \/ UNCHANGED vars
  BY <1>2, <1>5 DEF User, UpdateConfig, DeleteJob, vars
<1> QED
  BY <1>3, <1>4, <1>5 DEF Next

(***************************************************************************)
(* What a run has found is in the table when the run ends, or was removed  *)
(* by the user, unless the run's session was rolled back: no duplicate is  *)
(* skipped for the sake of an insert that is then undone.                  *)
(***************************************************************************)
THEOREM FoundStays == Spec => FoundIsKept
<1> DEFINE Step ==
      \A r \in Runs :
          Commit(r) /\ ~run[r].lost => \A j \in run[r].found : board'[j] # "unknown"
<1>1. Init => FoundInv
  BY DEF Init, FoundInv, AccountedFor, Idle
<1>2. ScrapeInv /\ FoundInv /\ [Next]_vars => FoundInv'
  BY FoundStep
<1>3. ASSUME ScrapeInv, FoundInv, [Next]_vars
      PROVE  [Step]_vars
  <2> SUFFICES ASSUME NEW r \in Runs, Commit(r), ~run[r].lost, NEW j \in run[r].found
               PROVE  board'[j] # "unknown"
    OBVIOUS
  <2>1. run[r].pc = "lookup" /\ run[r].todo = {}
    BY DEF Commit, Finished
  <2>2. run[r] \in Running
    BY <1>3, <2>1, RunningIsNotIdle DEF ScrapeInv
  <2>3. j \in run[r].mine \/ board[j] # "unknown"
    BY <1>3, <2>1 DEF FoundInv, AccountedFor
  <2> QED
    BY <2>2, <2>3 DEF Commit, Running
<1>4. FoundIsKept <=> [][Step]_vars
  BY DEF FoundIsKept
<1> QED
  BY <1>1, <1>2, <1>3, <1>4, ScrapeInvariant, PTL DEF Spec

-----------------------------------------------------------------------------
(***************************************************************************)
(* No posting is inserted twice: runs that have not ended have inserted    *)
(* different jobs, none of which is in the table, so that no commit meets a*)
(* row with the same content_hash.                                         *)
(***************************************************************************)
InsertedOnce ==
    \A r \in Runs :
        Busy(r) => \A j \in run[r].mine :
            ~Listed(j) /\ \A q \in Runs \ {r} : Busy(q) => j \notin run[q].mine

LEMMA InsertedStep ==
    ASSUME ScrapeInv, InsertedOnce, [Next]_vars
    PROVE  InsertedOnce'
<1> USE DEF ScrapeInv, RunTypeOK
<1>1. \A q \in Runs : Busy(q) => run[q] \in Running /\ run[q].mine \subseteq Jobs
  BY DEF Busy, Running
<1>2. ASSUME \A q \in Runs : Busy(q)' => \/ run'[q].mine = {}
                                         \/ Busy(q) /\ run'[q].mine = run[q].mine,
             \A j \in Jobs : Listed(j)' => Listed(j)
      PROVE  InsertedOnce'
  BY <1>1, <1>2 DEF InsertedOnce
<1>3. ASSUME NEW r \in Runs, Begin(r) \/ Scrape(r)
      PROVE  InsertedOnce'
  <2>1. board' = board /\ \A q \in Runs \ {r} : run'[q] = run[q]
    BY <1>3 DEF Begin, RunScheduled, RunByHand, RunAdHoc, Start, Scrape, AcquireAccount,
                SkipSource, ScrapeSource, ScrapeFails, NextSource
  <2>2. CASE Begin(r)
    <3>1. PICK by, c, gated, found : run' = [run EXCEPT ![r] = Started(by, c, gated, found)]
      BY <2>2 DEF Begin, RunScheduled, RunByHand, RunAdHoc, Start
    <3>2. run'[r].mine = {}
      BY <3>1 DEF Started
    <3>3. \A q \in Runs : Busy(q)' => \/ run'[q].mine = {}
                                      \/ Busy(q) /\ run'[q].mine = run[q].mine
      BY <2>1, <3>2 DEF Busy
    <3>4. \A j \in Jobs : Listed(j)' => Listed(j)
      BY <2>1 DEF Listed
    <3> QED
      BY <1>2, <3>3, <3>4
  <2>3. CASE Scrape(r)
    <3>1. run[r].pc \in {"acquire", "scrape"}
      BY <2>3 DEF Scrape, AcquireAccount, SkipSource, ScrapeSource, ScrapeFails
    <3>2. Busy(r) /\ run[r] \in Running
      BY <1>1, <3>1 DEF Busy, Idle
    <3>3. ASSUME NEW more, NextSource(r, more)
          PROVE  run'[r].mine = run[r].mine
      BY <3>2, <3>3 DEF NextSource, Running
    <3>4. ASSUME NEW a, AcquireAccount(r, a)
          PROVE  run'[r].mine = run[r].mine
      BY <3>2, <3>4 DEF AcquireAccount, Running
    <3>5. run'[r].mine = run[r].mine
      BY <2>3, <3>3, <3>4 DEF Scrape, SkipSource, ScrapeSource, ScrapeFails
    <3>6. \A q \in Runs : Busy(q)' => Busy(q) /\ run'[q].mine = run[q].mine
      BY <2>1, <3>2, <3>5 DEF Busy
    <3>7. \A j \in Jobs : Listed(j)' => Listed(j)
      BY <2>1 DEF Listed
    <3> QED
      BY <1>2, <3>6, <3>7
  <2> QED
    BY <1>3, <2>2, <2>3
<1>4. ASSUME NEW r \in Runs, Persist(r) \/ RefuseRow(r)
      PROVE  InsertedOnce'
  <2>1. run[r].pc \in {"lookup", "insert"}
    BY <1>4 DEF Persist, Lookup, Insert, Collide, RefuseRow, Raises, Commit, CommitRaises,
                Finished
  <2>2. Busy(r) /\ run[r] \in Running
    BY <1>1, <2>1 DEF Busy, Idle
  <2>3. \A q \in Runs \ {r} : run'[q] = run[q]
    BY <1>4 DEF Persist, Lookup, Insert, Collide, RefuseRow, Undo, Commit, CommitRaises
  <2>4. ASSUME NEW j \in Jobs, Lookup(r, j)
        PROVE  InsertedOnce'
    <3>1. run'[r].mine = run[r].mine /\ board' = board
      BY <2>2, <2>4 DEF Lookup, Running
    <3> QED
      BY <1>2, <2>2, <2>3, <3>1 DEF Busy, Listed
  <2>5. CASE Collide(r) \/ RefuseRow(r)
    <3>1. run' = [run EXCEPT ![r].pc = "lookup", ![r].job = "none", ![r].mine = {},
                             ![r].lost = TRUE]
          /\ board' = board
      BY <2>5 DEF Collide, RefuseRow, Undo
    <3>2. run'[r].mine = {}
      BY <2>2, <3>1 DEF Running
    <3>3. \A q \in Runs : Busy(q)' => \/ run'[q].mine = {}
                                      \/ Busy(q) /\ run'[q].mine = run[q].mine
      BY <2>3, <3>2 DEF Busy
    <3>4. \A j \in Jobs : Listed(j)' => Listed(j)
      BY <3>1 DEF Listed
    <3> QED
      BY <1>2, <3>3, <3>4
  <2>6. CASE CommitRaises(r)
    <3>1. ~Busy(r)' /\ board' = board
      BY <2>6 DEF CommitRaises, Busy
    <3> QED
      BY <1>2, <2>3, <3>1 DEF Busy, Listed
  <2>7. CASE Insert(r)
    <3>1. /\ run'[r].mine = run[r].mine \union {run[r].job} /\ board' = board
          /\ run[r].pc = "insert" /\ ~Listed(run[r].job)
          /\ \A q \in Runs : ~WaitsFor(r, q)
      BY <2>2, <2>7 DEF Insert, Running
    <3>2. \A q \in Runs \ {r} : Busy(q) => run[r].job \notin run[q].mine
      BY <3>1 DEF WaitsFor
    <3> QED
      BY <2>2, <2>3, <3>1, <3>2 DEF InsertedOnce, Busy, Listed
  <2>8. CASE Commit(r)
    <3>1. /\ ~Busy(r)'
          /\ board' = [j \in Jobs |-> IF j \in run[r].mine THEN "listed" ELSE board[j]]
      BY <2>8 DEF Commit, Busy
    <3>2. ASSUME NEW q \in Runs \ {r}, Busy(q), NEW j \in run[q].mine
          PROVE  ~Listed(j)' /\ \A p \in Runs \ {q, r} : Busy(p) => j \notin run[p].mine
      <4>1. j \in Jobs /\ j \notin run[r].mine /\ ~Listed(j)
        BY <1>1, <2>2, <3>2 DEF InsertedOnce
      <4> QED
        BY <3>1, <3>2, <4>1 DEF Listed, InsertedOnce
    <3> QED
      BY <2>3, <3>1, <3>2 DEF InsertedOnce, Busy
  <2> QED
    BY <1>4, <2>4, <2>5, <2>6, <2>7, <2>8 DEF Persist
<1>5. CASE Restart
  BY <1>5 DEF Restart, InsertedOnce, Busy
<1>6. CASE User \/ UNCHANGED vars
  <2>1. run' = run
    BY <1>6 DEF User, UpdateConfig, DeleteJob, vars
  <2>2. \A j \in Jobs : Listed(j)' => Listed(j)
    BY <1>6 DEF User, UpdateConfig, DeleteJob, vars, Listed
  <2> QED
    BY <1>2, <2>1, <2>2 DEF Busy
<1> QED
  BY <1>3, <1>4, <1>5, <1>6 DEF Next

(***************************************************************************)
(* The unique content_hash is respected through every rollback, wait and   *)
(* removal: what runs have inserted and not committed is in no other run   *)
(* and not in the table.                                                   *)
(***************************************************************************)
THEOREM JobsInsertedOnce == Spec => []InsertedOnce
<1>1. Init => InsertedOnce
  BY DEF Init, InsertedOnce, Busy
<1> QED
  BY <1>1, InsertedStep, ScrapeInvariant, PTL DEF Spec

-----------------------------------------------------------------------------
(***************************************************************************)
(* Every step of a run brings it nearer to its end: it has fewer sources to*)
(* scrape, or as many and fewer jobs to look up, or as many of both and    *)
(* less to do with the one at hand.                                        *)
(***************************************************************************)
StepsAhead(pc) ==
    CASE pc = "acquire" -> 2 [] pc = "scrape" -> 1 [] pc = "insert" -> 1 [] OTHER -> 0

Nearer(new, old) ==
    \/ new.gated < old.gated
    \/ /\ new.gated = old.gated
       /\ new.todo \subseteq old.todo
       /\ new.todo # old.todo \/ StepsAhead(new.pc) < StepsAhead(old.pc)

RunsComeNearer ==
    [][\A r \in Runs : Busy(r) /\ run'[r] # run[r] => ~Busy(r)' \/ Nearer(run'[r], run[r])]_vars

LEMMA NearerStep ==
    ASSUME ScrapeInv, NEW r \in Runs, Scrape(r) \/ Persist(r) \/ RefuseRow(r)
    PROVE  /\ \A q \in Runs \ {r} : run'[q] = run[q]
           /\ ~Busy(r)' \/ Nearer(run'[r], run[r])
<1> USE DEF ScrapeInv, RunTypeOK
<1>1. \A q \in Runs \ {r} : run'[q] = run[q]
  BY DEF Scrape, AcquireAccount, SkipSource, ScrapeSource, ScrapeFails, NextSource, Persist,
         Lookup, Insert, Collide, RefuseRow, Undo, Commit, CommitRaises
<1>2. run[r].pc \in {"acquire", "scrape", "lookup", "insert"}
  BY DEF Scrape, AcquireAccount, SkipSource, ScrapeSource, ScrapeFails, Persist, Lookup, Insert,
         Collide, RefuseRow, Undo, Raises, Commit, CommitRaises, Finished
<1>3. run[r] \in Running
  BY <1>2 DEF Idle
<1>4. ASSUME NEW a \in Accounts, AcquireAccount(r, a)
      PROVE  Nearer(run'[r], run[r])
  <2>1. /\ run'[r].gated = run[r].gated /\ run'[r].todo = run[r].todo
        /\ run'[r].pc = "scrape" /\ run[r].pc = "acquire"
    BY <1>3, <1>4 DEF AcquireAccount, Running
  <2> QED
    BY <2>1 DEF Nearer, StepsAhead
<1>5. ASSUME NEW more \in SUBSET Jobs, NextSource(r, more)
      PROVE  Nearer(run'[r], run[r])
  <2>1. run'[r].gated = run[r].gated - 1 /\ run[r].gated \in Int
    BY <1>3, <1>5 DEF NextSource, Running
  <2> QED
    BY <2>1 DEF Nearer
<1>6. CASE Scrape(r)
  BY <1>1, <1>4, <1>5, <1>6 DEF Scrape, SkipSource, ScrapeSource, ScrapeFails
<1>7. ASSUME NEW j \in Jobs, Lookup(r, j)
      PROVE  Nearer(run'[r], run[r])
  <2>1. /\ run'[r].gated = run[r].gated /\ run'[r].todo = run[r].todo \ {j}
        /\ j \in run[r].todo
    BY <1>3, <1>7 DEF Lookup, Running
  <2> QED
    BY <2>1 DEF Nearer
<1>8. CASE Insert(r) \/ Collide(r) \/ RefuseRow(r)
  <2>1. run[r].pc = "insert"
    BY <1>8 DEF Insert, Collide, RefuseRow, Undo, Raises
  <2>2. /\ run'[r].gated = run[r].gated /\ run'[r].todo = run[r].todo
        /\ run'[r].pc = "lookup"
    <3>1. CASE Insert(r)
      BY <1>3, <3>1 DEF Insert, Running
    <3>2. CASE Collide(r) \/ RefuseRow(r)
      <4>1. run' = [run EXCEPT ![r].pc = "lookup", ![r].job = "none", ![r].mine = {},
                               ![r].lost = TRUE]
        BY <3>2 DEF Collide, RefuseRow, Undo
      <4> QED
        BY <1>3, <4>1 DEF Running
    <3> QED
      BY <1>8, <3>1, <3>2
  <2>3. StepsAhead(run'[r].pc) < StepsAhead(run[r].pc)
    BY <2>1, <2>2 DEF StepsAhead
  <2> QED
    BY <1>1, <2>2, <2>3 DEF Nearer
<1>9. CASE Commit(r) \/ CommitRaises(r)
  BY <1>9 DEF Commit, CommitRaises, Busy
<1> QED
  BY <1>1, <1>6, <1>7, <1>8, <1>9 DEF Persist

(***************************************************************************)
(* A run takes finitely many steps, whatever its scrapes find and however  *)
(* often it collides: what there is to say of the end of runs without      *)
(* fairness.                                                               *)
(***************************************************************************)
THEOREM RunsDescend == Spec => RunsComeNearer
<1> DEFINE Step ==
      \A r \in Runs : Busy(r) /\ run'[r] # run[r] => ~Busy(r)' \/ Nearer(run'[r], run[r])
<1>1. ASSUME ScrapeInv, [Next]_vars
      PROVE  [Step]_vars
  <2>1. ASSUME NEW r \in Runs, Begin(r) \/ Scrape(r) \/ Persist(r) \/ RefuseRow(r)
        PROVE  Step
    <3>1. CASE Begin(r)
      <4>1. ~Busy(r) /\ \A q \in Runs \ {r} : run'[q] = run[q]
        BY <1>1, <3>1 DEF Begin, RunScheduled, RunByHand, RunAdHoc, Start, ScrapeInv, RunTypeOK
      <4> QED
        BY <4>1
    <3>2. CASE Scrape(r) \/ Persist(r) \/ RefuseRow(r)
      BY <1>1, <3>2, NearerStep
    <3> QED
      BY <2>1, <3>1, <3>2
  <2>2. CASE Restart
    BY <2>2 DEF Restart, Busy
  <2>3. CASE User \/ UNCHANGED vars
    BY <2>3 DEF User, UpdateConfig, DeleteJob, vars
  <2> QED
    BY <1>1, <2>1, <2>2, <2>3 DEF Next
<1>2. RunsComeNearer <=> [][Step]_vars
  BY DEF RunsComeNearer
<1> QED
  BY <1>1, <1>2, ScrapeInvariant, PTL DEF Spec

-----------------------------------------------------------------------------
(***************************************************************************)
(* The pool implements Lease.  What a run has locked has at least the      *)
(* credit of the committed row, so that its commit takes no usage back.    *)
(***************************************************************************)
ChargesAdd ==
    \A r \in Runs, a \in Accounts : Holds(r, a) => hold[r][a].credit >= accts[a].credit

PoolStep ==
    \/ UNCHANGED <<accts, hold>>
    \/ \E r \in Runs, a \in Accounts : Acquire(r, a)
    \/ \E r \in Runs, a \in Accounts, cost \in Costs : RecordSuccess(r, a, cost)
    \/ \E r \in Runs, a \in Accounts : RecordFailure(r, a)
    \/ \E r \in Runs : CommitAccounts(r)
    \/ \E runs \in SUBSET Runs : RollbackAccounts(runs)
    \/ Administer

LEMMA StepsOfThePool ==
    ASSUME ScrapeInv, [Next]_vars
    PROVE  PoolStep
<1>1. ASSUME NEW r \in Runs, Begin(r)
      PROVE  UNCHANGED <<accts, hold>>
  BY <1>1 DEF Begin, RunScheduled, RunByHand, RunAdHoc, Start, poolVars
<1>2. ASSUME NEW r \in Runs, Scrape(r)
      PROVE  PoolStep
  <2>1. run[r].pc = "scrape" => run[r].acct \in Accounts
    BY DEF ScrapeInv, ScrapesWithItsAccount
  <2> QED
    BY <1>2, <2>1 DEF Scrape, AcquireAccount, SkipSource, ScrapeSource, ScrapeFails, PoolStep,
                      poolVars
<1>3. ASSUME NEW r \in Runs, Persist(r) \/ RefuseRow(r)
      PROVE  PoolStep
  <2>1. {r} \in SUBSET Runs
    OBVIOUS
  <2> QED
    BY <1>3, <2>1 DEF Persist, Lookup, Insert, Collide, RefuseRow, Undo, Commit, CommitRaises,
                      PoolStep, poolVars
<1>4. CASE User
  BY <1>4 DEF User, UpdateConfig, DeleteJob, PoolStep, poolVars
<1>5. CASE Restart
  <2>1. Runs \in SUBSET Runs
    OBVIOUS
  <2> QED
    BY <1>5, <2>1 DEF Restart, PoolStep
<1>6. CASE UNCHANGED vars
  BY <1>6 DEF vars, PoolStep
<1> QED
  BY <1>1, <1>2, <1>3, <1>4, <1>5, <1>6 DEF Next, PoolStep

LEMMA RecordedRow ==
    ASSUME PoolTypeOK, NEW r \in Runs, NEW a \in Accounts,
           \/ \E cost \in Costs : RecordSuccess(r, a, cost)
           \/ RecordFailure(r, a)
    PROVE  /\ Holds(r, a) /\ Holds(r, a)' /\ accts' = accts
           /\ hold'[r][a].credit >= hold[r][a].credit
           /\ \A q \in Runs, b \in Accounts :
                 <<q, b>> # <<r, a>> => hold'[q][b] = hold[q][b]
<1>1. PICK row \in Account :
        /\ Holds(r, a) /\ accts' = accts
        /\ hold' = [hold EXCEPT ![r][a] = row]
        /\ row.credit >= hold[r][a].credit
  <2>1. ASSUME NEW cost \in Costs, RecordSuccess(r, a, cost)
        PROVE  /\ Holds(r, a) /\ accts' = accts
               /\ hold' = [hold EXCEPT ![r][a] = Charged(hold[r][a], cost)]
               /\ Charged(hold[r][a], cost) \in Account
               /\ Charged(hold[r][a], cost).credit >= hold[r][a].credit
    <3>1. /\ Holds(r, a) /\ accts' = accts
          /\ hold' = [hold EXCEPT ![r][a] = Charged(hold[r][a], cost)]
      BY <2>1 DEF RecordSuccess, PoolTypeOK
    <3>2. hold[r][a] \in Account /\ hold[r][a].credit \in Nat /\ cost \in Nat
      BY <3>1, HeldRow, ApifyPoolAssumption DEF Account
    <3> QED
      BY <3>1, <3>2, ChargedRow
  <2>2. ASSUME RecordFailure(r, a)
        PROVE  /\ Holds(r, a) /\ accts' = accts
               /\ hold' = [hold EXCEPT ![r][a] = Failed(hold[r][a])]
               /\ Failed(hold[r][a]) \in Account
               /\ Failed(hold[r][a]).credit >= hold[r][a].credit
    <3>1. /\ Holds(r, a) /\ accts' = accts
          /\ hold' = [hold EXCEPT ![r][a] = Failed(hold[r][a])]
      BY <2>2 DEF RecordFailure, PoolTypeOK
    <3>2. hold[r][a] \in Account /\ hold[r][a].credit \in Nat
      BY <3>1, HeldRow DEF Account
    <3> QED
      BY <3>1, <3>2, FailedRow
  <2> QED
    BY <2>1, <2>2
<1>2. /\ hold'[r][a] = row
      /\ \A q \in Runs, b \in Accounts : <<q, b>> # <<r, a>> => hold'[q][b] = hold[q][b]
  BY <1>1 DEF PoolTypeOK
<1>3. row # Free
  BY AccountsArePresent
<1> QED
  BY <1>1, <1>2, <1>3 DEF Holds

LEMMA HeldRowsStay ==
    ASSUME PoolInv, Administer, NEW r \in Runs, NEW a \in Accounts, Holds(r, a)
    PROVE  accts'[a] = accts[a]
<1>1. Administered(a) /\ PoolTypeOK
  BY AdministerRows DEF PoolInv
<1> QED
  BY <1>1, AccountsArePresent DEF Administered, PoolInv, HeldIsThere, There, Locked

LEMMA ChargesStep ==
    ASSUME ScrapeInv, ChargesAdd, [Next]_vars
    PROVE  ChargesAdd'
<1>1. PoolInv /\ PoolTypeOK
  BY DEF ScrapeInv, PoolInv
<1> SUFFICES ASSUME NEW q \in Runs, NEW b \in Accounts, Holds(q, b)'
             PROVE  hold'[q][b].credit >= accts'[b].credit
  BY DEF ChargesAdd
<1>2. Holds(q, b) => /\ hold[q][b].credit >= accts[b].credit
                     /\ hold[q][b].credit \in Nat /\ accts[b].credit \in Nat
                     /\ There(b)
  BY <1>1, HeldRow DEF ChargesAdd, PoolInv, HeldIsThere, There, Account
<1>3. CASE UNCHANGED <<accts, hold>>
  BY <1>2, <1>3 DEF Holds
<1>4. ASSUME NEW r \in Runs, NEW a \in Accounts, Acquire(r, a)
      PROVE  hold'[q][b].credit >= accts'[b].credit
  <2>1. accts' = accts /\ hold' = [hold EXCEPT ![r][a] = Seen(r, a)] /\ There(a)
    BY <1>4 DEF Acquire, Available
  <2>2. accts[a].credit \in Nat
    BY <2>1 DEF There, Account
  <2>3. CASE q = r /\ b = a
    BY <1>1, <1>2, <2>1, <2>2, <2>3, HeldRow DEF PoolTypeOK
  <2>4. CASE ~(q = r /\ b = a)
    <3>1. hold'[q][b] = hold[q][b]
      BY <1>1, <2>1, <2>4 DEF PoolTypeOK
    <3> QED
      BY <1>2, <2>1, <3>1 DEF Holds
  <2> QED
    BY <2>3, <2>4
<1>5. ASSUME NEW r \in Runs, NEW a \in Accounts,
             \/ \E cost \in Costs : RecordSuccess(r, a, cost)
             \/ RecordFailure(r, a)
      PROVE  hold'[q][b].credit >= accts'[b].credit
  <2>1. /\ Holds(r, a) /\ Holds(r, a)' /\ accts' = accts
        /\ hold'[r][a].credit >= hold[r][a].credit
        /\ <<q, b>> # <<r, a>> => hold'[q][b] = hold[q][b]
    BY <1>1, <1>5, RecordedRow
  <2>2. PoolTypeOK'
    BY StepKeeps DEF ScrapeInv, PoolInv
  <2>3. CASE <<q, b>> = <<r, a>>
    <3>1. hold'[q][b].credit \in Nat
      BY <2>2 DEF PoolTypeOK, Holds, Account
    <3> QED
      BY <1>2, <2>1, <2>3, <3>1
  <2>4. CASE <<q, b>> # <<r, a>>
    BY <1>2, <2>1, <2>4 DEF Holds
  <2> QED
    BY <2>3, <2>4
<1>6. ASSUME NEW r \in Runs, CommitAccounts(r)
      PROVE  hold'[q][b].credit >= accts'[b].credit
  <2>1. /\ accts' = [a \in Accounts |-> Seen(r, a)]
        /\ hold' = [hold EXCEPT ![r] = [a \in Accounts |-> Free]]
    BY <1>6 DEF CommitAccounts
  <2>2. q # r
    BY <1>1, <2>1 DEF Holds, PoolTypeOK
  <2>3. hold'[q][b] = hold[q][b] /\ Holds(q, b)
    BY <1>1, <2>1, <2>2 DEF Holds, PoolTypeOK
  <2>4. ~Holds(r, b)
    BY <1>1, <2>2, <2>3 DEF PoolInv, ExclusiveUse
  <2> QED
    BY <1>1, <1>2, <2>1, <2>3, <2>4, HeldRow
<1>7. ASSUME NEW runs \in SUBSET Runs, RollbackAccounts(runs)
      PROVE  hold'[q][b].credit >= accts'[b].credit
  BY <1>2, <1>7 DEF RollbackAccounts, Holds
<1>8. CASE Administer
  BY <1>1, <1>2, <1>8, AdministerRows, HeldRowsStay DEF Holds
<1> QED
  BY <1>3, <1>4, <1>5, <1>6, <1>7, <1>8, StepsOfThePool DEF PoolStep

LEMMA OneAccountAdministered ==
    ASSUME PoolTypeOK, Administer
    PROVE  \E a \in Accounts : \A b \in Accounts \ {a} : accts'[b] = accts[b]
<1>1. ASSUME NEW t \in Admins, WriteAccount(t)
      PROVE  \E a \in Accounts : \A b \in Accounts \ {a} : accts'[b] = accts[b]
  <2>1. adm[t].acct \in Accounts
    BY <1>1 DEF WriteAccount, PoolTypeOK, Writing, Idle
  <2> QED
    BY <1>1, <2>1 DEF WriteAccount, PoolTypeOK
<1> QED
  BY <1>1 DEF Administer, CreateAccount, LoadAccount, DeleteAccount, PoolTypeOK

LEMMA LeaseStep ==
    ASSUME ScrapeInv, ChargesAdd, [Next]_vars
    PROVE  [PoolLease!Next]_(PoolLease!vars)
<1> SUFFICES PoolLease!Next \/ UNCHANGED <<InPool, HeldBy, Usage>>
  BY DEF PoolLease!vars
<1>1. PoolInv /\ PoolTypeOK
  BY DEF ScrapeInv, PoolInv
<1>2. CASE UNCHANGED <<accts, hold>>
  BY <1>2 DEF InPool, HeldBy, Usage, Holds, There
<1>3. ASSUME NEW r \in Runs, NEW a \in Accounts, Acquire(r, a)
      PROVE  PoolLease!Next \/ UNCHANGED <<InPool, HeldBy, Usage>>
  <2>1. /\ a \in Available(r) /\ UNCHANGED accts
        /\ \A q \in Runs, b \in Accounts : <<q, b>> # <<r, a>> => hold'[q][b] = hold[q][b]
        /\ Holds(r, a)'
    BY <1>1, <1>3, AcquireKeepsPool DEF Acquire
  <2>2. a \in InPool /\ UNCHANGED <<InPool, Usage>>
    BY <2>1 DEF Available, InPool, Usage, There
  <2>3. \A b \in Accounts \ {a}, q \in Runs : Holds(q, b)' <=> Holds(q, b)
    BY <2>1 DEF Holds
  <2>4. \A q \in Runs \ {r} : ~Holds(q, a) /\ ~Holds(q, a)'
    BY <2>1 DEF Available, Holds
  <2>5. CASE Holds(r, a)
    BY <2>1, <2>2, <2>3, <2>4, <2>5 DEF HeldBy
  <2>6. CASE ~Holds(r, a)
    <3>1. HeldBy[a] = {}
      BY <2>4, <2>6 DEF HeldBy
    <3>2. HeldBy' = [HeldBy EXCEPT ![a] = {r}]
      BY <2>1, <2>3, <2>4 DEF HeldBy
    <3> QED
      BY <2>2, <3>1, <3>2 DEF PoolLease!Next, PoolLease!Take
  <2> QED
    BY <2>5, <2>6
<1>4. ASSUME NEW r \in Runs, NEW a \in Accounts,
             \/ \E cost \in Costs : RecordSuccess(r, a, cost)
             \/ RecordFailure(r, a)
      PROVE  UNCHANGED <<InPool, HeldBy, Usage>>
  <2>1. accts' = accts /\ \A q \in Runs, b \in Accounts : Holds(q, b)' <=> Holds(q, b)
    BY <1>1, <1>4, RecordedRow DEF Holds
  <2> QED
    BY <2>1 DEF InPool, HeldBy, Usage, There
<1>5. ASSUME NEW r \in Runs, CommitAccounts(r)
      PROVE  PoolLease!Next
  <2>1. /\ accts' = [a \in Accounts |-> Seen(r, a)]
        /\ hold' = [hold EXCEPT ![r] = [a \in Accounts |-> Free]]
    BY <1>5 DEF CommitAccounts
  <2>2. \A a \in Accounts, q \in Runs : Holds(q, a)' <=> Holds(q, a) /\ q # r
    BY <1>1, <2>1 DEF Holds, PoolTypeOK
  <2>3. HeldBy' = PoolLease!Without({r})
    BY <2>2 DEF HeldBy, PoolLease!Without
  <2>4. ASSUME NEW a \in Accounts
        PROVE  /\ Usage'[a] \in Nat
               /\ Usage'[a] >= Usage[a]
               /\ Usage'[a] # Usage[a] => HeldBy[a] = {r}
    <3>1. CASE Holds(r, a)
      <4>1. hold[r][a] \in Account /\ There(a) /\ hold[r][a].credit >= accts[a].credit
        BY <1>1, <3>1, HeldRow DEF PoolInv, HeldIsThere, ChargesAdd
      <4>2. accts'[a] = hold[r][a]
        BY <1>1, <2>1, <3>1, HeldRow
      <4>3. Usage'[a] = hold[r][a].credit /\ Usage[a] = accts[a].credit
        BY <4>1, <4>2 DEF Usage, There
      <4>4. HeldBy[a] = {r}
        BY <1>1, <3>1 DEF HeldBy, PoolInv, ExclusiveUse
      <4> QED
        BY <4>1, <4>3, <4>4 DEF There, Account
    <3>2. CASE ~Holds(r, a)
      <4>1. accts'[a] = accts[a]
        BY <1>1, <2>1, <3>2, HeldRow
      <4>2. Usage'[a] = Usage[a] /\ Usage[a] \in Nat
        BY <4>1 DEF Usage, There, Account
      <4> QED
        BY <4>2
    <3> QED
      BY <3>1, <3>2
  <2>5. Usage' \in [Accounts -> Nat]
    BY <2>4 DEF Usage
  <2>6. ASSUME NEW a \in Accounts
        PROVE  There(a)' <=> There(a)
    <3>1. Holds(r, a) => hold[r][a] \in Account /\ There(a)
      BY <1>1, HeldRow DEF PoolInv, HeldIsThere
    <3>2. accts'[a] = IF Holds(r, a) THEN hold[r][a] ELSE accts[a]
      BY <2>1 DEF Seen
    <3> QED
      BY <3>1, <3>2 DEF There
  <2>7. UNCHANGED InPool
    BY <2>6 DEF InPool
  <2> QED
    BY <2>3, <2>4, <2>5, <2>7 DEF PoolLease!Next, PoolLease!GiveBack
<1>6. ASSUME NEW runs \in SUBSET Runs, RollbackAccounts(runs)
      PROVE  PoolLease!Next
  <2>1. /\ accts' = accts
        /\ \A a \in Accounts, q \in Runs : Holds(q, a)' <=> Holds(q, a) /\ q \notin runs
    BY <1>6 DEF RollbackAccounts, Holds
  <2>2. HeldBy' = PoolLease!Without(runs) /\ UNCHANGED <<InPool, Usage>>
    BY <2>1 DEF InPool, HeldBy, Usage, There, PoolLease!Without
  <2> QED
    BY <2>2 DEF PoolLease!Next, PoolLease!BreakOff
<1>7. CASE Administer
  <2>1. UNCHANGED hold /\ \A a \in Accounts : Administered(a)
    BY <1>1, <1>7, AdministerRows
  <2>2. UNCHANGED HeldBy
    BY <2>1 DEF HeldBy, Holds
  <2>3. PICK a \in Accounts : \A b \in Accounts \ {a} : accts'[b] = accts[b]
    BY <1>1, <1>7, OneAccountAdministered
  <2>4. \A b \in Accounts \ {a} : Usage'[b] = Usage[b] /\ (There(b)' <=> There(b))
    BY <2>3 DEF Usage, There
  <2>5. CASE There(a) /\ ~Locked(a) /\ accts'[a] = Deleted
    <3>1. a \in InPool /\ HeldBy[a] = {}
      BY <2>5 DEF InPool, HeldBy, Locked
    <3>2. ~There(a)' /\ Usage'[a] = 0
      BY <2>5, AccountsArePresent DEF Usage, There
    <3>3. InPool' = InPool \ {a} /\ Usage' = [Usage EXCEPT ![a] = 0]
      BY <2>4, <3>2 DEF InPool, Usage
    <3> QED
      BY <2>2, <3>1, <3>3 DEF PoolLease!Next, PoolLease!Remove
  <2>6. CASE ~(There(a) /\ ~Locked(a) /\ accts'[a] = Deleted)
    <3>1. Usage'[a] = Usage[a] /\ (There(a) => There(a)')
      BY <2>1, <2>6, AccountsArePresent DEF Administered, Usage, There
    <3>2. UNCHANGED Usage
      BY <2>4, <3>1 DEF Usage
    <3>3. InPool' = InPool \/ InPool' = InPool \union {a}
      BY <2>4, <3>1 DEF InPool
    <3> QED
      BY <2>2, <3>2, <3>3 DEF PoolLease!Next, PoolLease!Add
  <2> QED
    BY <2>5, <2>6
<1> QED
  BY <1>2, <1>3, <1>4, <1>5, <1>6, <1>7, StepsOfThePool DEF PoolStep

(***************************************************************************)
(* The pool implements Lease for any number of runs and accounts: taking an*)
(* account is acquire_account, giving back is the commit of a run, breaking*)
(* off is a rollback or a restart.                                         *)
(***************************************************************************)
THEOREM RunsLease == Spec => ImplementsLease
<1>1. Init => ChargesAdd
  BY DEF Init, PoolInit, ChargesAdd, Holds
<1>2. Init => PoolLease!Init
  <2> SUFFICES ASSUME Init
               PROVE  PoolLease!Init
    OBVIOUS
  <2>1. /\ \A a \in Accounts, r \in Runs : ~Holds(r, a)
        /\ \A a \in Accounts : ~There(a)
    BY AccountsArePresent DEF Init, PoolInit, Holds, There
  <2> QED
    BY <2>1 DEF PoolLease!Init, InPool, HeldBy, Usage
<1> QED
  BY <1>1, <1>2, ChargesStep, LeaseStep, ScrapeInvariant, PTL
     DEF Spec, ImplementsLease, PoolLease!Spec
=============================================================================
