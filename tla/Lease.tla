-------------------------------- MODULE Lease --------------------------------
(***************************************************************************)
(* What an account pool promises, without rows, transactions, budgets or   *)
(* handlers of the user.  An account is leased to one user at a time.  Its *)
(* usage is entered when the user gives it back, and only then: a lease    *)
(* that is broken off enters nothing.  The administrator adds accounts and *)
(* removes those nobody has, and otherwise no usage is changed, nor ever   *)
(* taken back.                                                             *)
(***************************************************************************)
EXTENDS Naturals

CONSTANTS Accounts, Users

VARIABLES
    pool,       \* the accounts that are there
    holders,    \* the users that have each account
    used        \* the usage entered for each account in the pool, else 0

vars == <<pool, holders, used>>

Init ==
    /\ pool = {}
    /\ holders = [a \in Accounts |-> {}]
    /\ used = [a \in Accounts |-> 0]

Without(users) == [a \in Accounts |-> holders[a] \ users]

Take(u, a) ==
    /\ a \in pool
    /\ holders[a] = {}
    /\ holders' = [holders EXCEPT ![a] = {u}]
    /\ UNCHANGED <<pool, used>>

\* A user gives back all it has, and usage is entered for nothing else.
GiveBack(u) ==
    /\ holders' = Without({u})
    /\ used' \in [Accounts -> Nat]
    /\ \A a \in Accounts : used'[a] >= used[a]
    /\ \A a \in Accounts : used'[a] # used[a] => holders[a] = {u}
    /\ UNCHANGED pool

BreakOff(users) ==
    /\ holders' = Without(users)
    /\ UNCHANGED <<pool, used>>

Add(a) ==
    /\ pool' = pool \union {a}
    /\ UNCHANGED <<holders, used>>

Remove(a) ==
    /\ a \in pool
    /\ holders[a] = {}
    /\ pool' = pool \ {a}
    /\ used' = [used EXCEPT ![a] = 0]
    /\ UNCHANGED holders

Next ==
    \/ \E users \in SUBSET Users : BreakOff(users)
    \/ \E u \in Users : GiveBack(u) \/ \E a \in Accounts : Take(u, a)
    \/ \E a \in Accounts : Add(a) \/ Remove(a)

Spec == Init /\ [][Next]_vars
=============================================================================
