------------------------------ MODULE ApifyPool ------------------------------
(***************************************************************************)
(* The apify_accounts table, shared by the scrape runs that spend from it  *)
(* and the user who administers it.                                        *)
(*                                                                         *)
(* acquire_account picks an account FOR UPDATE SKIP LOCKED.  From then on  *)
(* the run has the row for itself: it charges it, and may acquire others,  *)
(* in one transaction that ends much later (ScrapeRun).  The user's writes *)
(* wait for the row and then write net changes.                            *)
(*                                                                         *)
(* Amounts are in a unit of money, so that what the column rounds to cents *)
(* is left out.  The callers of record_usage report success or failure     *)
(* only: its other outcomes, and the cooldown they set, never happen.      *)
(* reset_monthly_quotas has no caller.                                     *)
(***************************************************************************)
EXTENDS Integers, Orm

CONSTANTS
    Accounts,       \* the ids of apify_accounts
    Runs,           \* threads that may be inside a scrape run at once
    Admins,         \* threads that may be inside a handler of api/apify.py at once
    Monthlies,      \* monthly_credit_usd: what a user may give an account
    Costs,          \* what one scrape may cost
    Reserve,        \* the estimate of 0.15 with the SAFETY_MARGIN of 1.2
    Margin,         \* the 0.50 below which an account counts as exhausted
    MaxFailures,    \* MAX_CONSECUTIVE_FAILURES
    MaxSpent        \* bound: no run starts once as much was spent from an account

ASSUME ApifyPoolAssumption ==
    /\ Monthlies \subseteq Nat
    /\ Costs \subseteq Nat \ {0}
    /\ Reserve \in Nat
    /\ Margin \in Nat
    /\ MaxFailures \in Nat \ {0}
    /\ MaxSpent \in Nat

VARIABLES
    accts,       \* apify_accounts as committed
    hold,        \* the rows each run has locked, as its transaction has them
    adm,         \* each administrating thread's place in its handler
    spent,       \* history: what scrapes have cost each account
    forgotten    \* history: the accounts with usage that was rolled back

poolVars == <<accts, hold, adm, spent, forgotten>>

AccountStatuses == {"active", "exhausted", "suspended"}

\* logged says that apify_usage_log has rows of the account.
Account == [status: AccountStatuses, credit: Nat, monthly: Nat,
            failures: 0 .. MaxFailures, logged: BOOLEAN]

Absent == [status |-> "absent"]

Deleted == [status |-> "deleted"]

Rows == Account \union {Absent, Deleted}

Free == [status |-> "free"]    \* not locked by this run

Idle == [pc |-> "idle"]

Writing == [pc: {"write"}, acct: Accounts, was: Account, new: Account]

PoolTypeOK ==
    /\ accts \in [Accounts -> Rows]
    /\ hold \in [Runs -> [Accounts -> Account \union {Free}]]
    /\ adm \in [Admins -> Writing \union {Idle}]
    /\ spent \in [Accounts -> Nat]
    /\ forgotten \subseteq Accounts

PoolInit ==
    /\ accts = [a \in Accounts |-> Absent]
    /\ hold = [r \in Runs |-> [a \in Accounts |-> Free]]
    /\ adm = [t \in Admins |-> Idle]
    /\ spent = [a \in Accounts |-> 0]
    /\ forgotten = {}

Holds(r, a) == hold[r][a] # Free

Locked(a) == \E r \in Runs : Holds(r, a)

There(a) == accts[a] \in Account

\* The row as the run sees it: its own version, or the committed one.
Seen(r, a) == IF Holds(r, a) THEN hold[r][a] ELSE accts[a]

-----------------------------------------------------------------------------
(***************************************************************************)
(* What runs do.  The row locked last counts as used, whichever way the    *)
(* order by priority and last_used_at may point: any candidate is taken.   *)
(***************************************************************************)

\* Mutant: the status alone decides, which the user sets too.
HasStatus(row) == row.status = "active"

HasBudget(row) == row.status = "active" /\ row.credit + Reserve <= row.monthly

\* Mutant: SELECT without FOR UPDATE SKIP LOCKED.
AvailableUnlocked(r) ==
    {a \in Accounts : There(a) /\ HasBudget(Seen(r, a))}

\* Rows another run has locked are skipped; the run's own are not.
Available(r) ==
    {a \in Accounts :
        /\ There(a)
        /\ HasBudget(Seen(r, a))
        /\ \A q \in Runs \ {r} : ~Holds(q, a)}

Acquire(r, a) ==
    /\ a \in Available(r)
    /\ hold' = [hold EXCEPT ![r][a] = Seen(r, a)]
    /\ UNCHANGED <<accts, adm, spent, forgotten>>

\* The end of record_usage: an active account with little left is exhausted early.
Checked(row) ==
    IF row.status = "active" /\ row.credit > 0 /\ row.monthly > 0
                             /\ row.monthly - row.credit < Margin
    THEN [row EXCEPT !.status = "exhausted"] ELSE row

Charged(row, cost) ==
    Checked([row EXCEPT !.credit = @ + cost, !.failures = 0, !.logged = TRUE])

\* MaxFailures also bounds the count, which an account activated by PATCH takes further.
Failed(row) ==
    LET failures == IF row.failures < MaxFailures THEN row.failures + 1 ELSE MaxFailures
    IN  Checked([row EXCEPT !.failures = failures, !.logged = TRUE,
                            !.status = IF failures = MaxFailures THEN "suspended" ELSE @])

\* record_usage after a scrape that went well.
RecordSuccess(r, a, cost) ==
    /\ Holds(r, a)
    /\ hold' = [hold EXCEPT ![r][a] = Charged(@, cost)]
    /\ spent' = [spent EXCEPT ![a] = @ + cost]
    /\ UNCHANGED <<accts, adm, forgotten>>

RecordFailure(r, a) ==
    /\ Holds(r, a)
    /\ hold' = [hold EXCEPT ![r][a] = Failed(@)]
    /\ UNCHANGED <<accts, adm, spent, forgotten>>

CommitAccounts(r) ==
    /\ accts' = [a \in Accounts |-> Seen(r, a)]
    /\ hold' = [hold EXCEPT ![r] = [a \in Accounts |-> Free]]
    /\ UNCHANGED <<adm, spent, forgotten>>

\* Charges that a rollback of these runs would undo.
Uncommitted(runs) ==
    {a \in Accounts : \E r \in runs : Holds(r, a) /\ hold[r][a].credit # accts[a].credit}

RollbackAccounts(runs) ==
    /\ hold' = [r \in Runs |-> IF r \in runs THEN [a \in Accounts |-> Free] ELSE hold[r]]
    /\ forgotten' = forgotten \union Uncommitted(runs)
    /\ UNCHANGED <<accts, spent>>

-----------------------------------------------------------------------------
(***************************************************************************)
(* What the user does.                                                     *)
(***************************************************************************)

NewAccount(monthly) ==
    [status |-> "active", credit |-> 0, monthly |-> monthly, failures |-> 0,
     logged |-> FALSE]

\* POST /accounts and /accounts/bulk, which gives every account the default.
CreateAccount(a, monthly) ==
    /\ accts[a] = Absent
    /\ accts' = [accts EXCEPT ![a] = NewAccount(monthly)]
    /\ UNCHANGED <<hold, adm, spent, forgotten>>

\* POST /accounts/{id}/reactivate, and PATCH of the status or the monthly credit.
Reactivated(row) == [row EXCEPT !.status = "active", !.failures = 0]

Patched(row) ==
    {[row EXCEPT !.status = s] : s \in AccountStatuses}
        \union {[row EXCEPT !.monthly = m] : m \in Monthlies}

LoadAccount(t, a) ==
    /\ adm[t] = Idle
    /\ There(a)
    /\ \E new \in Patched(accts[a]) \union {Reactivated(accts[a])} :
          adm' = [adm EXCEPT ![t] = [pc |-> "write", acct |-> a, was |-> accts[a], new |-> new]]
    /\ UNCHANGED <<accts, hold, spent, forgotten>>

\* Mutant: the handler writes the whole row it has loaded.
Overlaid(cur, was, new) == new

NetChange(cur, was, new) ==
    [cur EXCEPT !.status   = Written(@, was.status, new.status),
                !.monthly  = Written(@, was.monthly, new.monthly),
                !.failures = Written(@, was.failures, new.failures)]

\* The UPDATE waits until no run has the row.  On a deleted one it raises.
WriteAccount(t) ==
    LET a == adm[t].acct
    IN  /\ adm[t].pc = "write"
        /\ ~Locked(a)
        /\ accts' = IF There(a)
                    THEN [accts EXCEPT ![a] = NetChange(@, adm[t].was, adm[t].new)]
                    ELSE accts
        /\ adm' = [adm EXCEPT ![t] = Idle]
        /\ UNCHANGED <<hold, spent, forgotten>>

\* Only an account that was never used: apify_usage_log refers to the others.
DeleteAccount(a) ==
    /\ There(a)
    /\ ~Locked(a)
    /\ ~accts[a].logged
    /\ accts' = [accts EXCEPT ![a] = Deleted]
    /\ UNCHANGED <<hold, adm, spent, forgotten>>

Administer ==
    \/ \E a \in Accounts, m \in Monthlies : CreateAccount(a, m)
    \/ \E t \in Admins, a \in Accounts : LoadAccount(t, a)
    \/ \E t \in Admins : WriteAccount(t)
    \/ \E a \in Accounts : DeleteAccount(a)

-----------------------------------------------------------------------------
(***************************************************************************)
(* Safety                                                                  *)
(***************************************************************************)

(***************************************************************************)
(* No two runs have the same account: "concurrent callers never return the *)
(* same row", though the run that has it neither commits nor rolls back    *)
(* for as long as it scrapes.                                              *)
(***************************************************************************)
ExclusiveUse == \A a \in Accounts, q, r \in Runs : Holds(q, a) /\ Holds(r, a) => q = r

(***************************************************************************)
(* The pool implements Lease: an account has one user at a time, and the   *)
(* credit in its row goes up only when the run that has it commits.  No    *)
(* patch, reactivation, rollback or restart changes it or lowers it.       *)
(***************************************************************************)
InPool == {a \in Accounts : There(a)}

HeldBy == [a \in Accounts |-> {r \in Runs : Holds(r, a)}]

Usage == [a \in Accounts |-> IF There(a) THEN accts[a].credit ELSE 0]

PoolLease ==
    INSTANCE Lease WITH Users <- Runs, pool <- InPool, holders <- HeldBy, used <- Usage

ImplementsLease == PoolLease!Spec

(***************************************************************************)
(* What an account has cost is what its row says, in the transaction of the*)
(* run that has it or committed, whatever the user writes meanwhile and    *)
(* however often accounts are exhausted and reactivated: unless a run has  *)
(* rolled its usage back.                                                  *)
(***************************************************************************)
Ledger(a) ==
    /\ There(a) /\ ~Locked(a) => accts[a].credit = spent[a]
    /\ \A r \in Runs : Holds(r, a) => hold[r][a].credit = spent[a]

UsageIsKept == \A a \in Accounts \ forgotten : Ledger(a)

(***************************************************************************)
(* An account is overdrawn by one scrape at most: what a commit adds leaves*)
(* the credit within the monthly one, the reserve set aside, up to the cost*)
(* of the last scrape; also when one run scrapes twice with the account.   *)
(***************************************************************************)
OverdrawnOnceAtMost ==
    [][\A a \in Accounts :
          There(a) /\ accts'[a] \in Account /\ accts'[a].credit > accts[a].credit =>
              \E cost \in Costs : accts'[a].credit + Reserve <= accts'[a].monthly + cost]_accts
=============================================================================
