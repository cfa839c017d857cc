---------------------------- MODULE FirecrawlPool ----------------------------
(***************************************************************************)
(* The firecrawl_accounts table and the calls that scrape pages with it.   *)
(*                                                                         *)
(* Unlike a scrape run, a call commits after each attempt: it has one      *)
(* account at a time, from the SELECT ... FOR UPDATE SKIP LOCKED to the end*)
(* of one request.  It tries up to MaxTries times, and takes the endpoint  *)
(* of the environment as soon as it finds no account.                      *)
(*                                                                         *)
(* A page costs one credit.  A monthly credit of 0 means no limit.         *)
(***************************************************************************)
EXTENDS Integers, Orm

CONSTANTS
    Accounts,       \* the ids of firecrawl_accounts
    Callers,        \* threads that may be inside a call at once
    Admins,         \* threads that may be inside a handler of api/firecrawl.py at once
    Priorities,     \* priority: what a user may give an account
    Monthlies,      \* monthly_credits: likewise
    Margin,         \* SAFETY_MARGIN_CREDITS
    MaxFailures,    \* MAX_CONSECUTIVE_FAILURES
    MaxTries,       \* MAX_POOL_RETRIES
    MaxClock,       \* bound: no call begins after that many were given an account
    Faults          \* what the environment may do: "restart", "no_page", "odd_answer"

ASSUME FirecrawlPoolAssumption ==
    /\ Priorities \subseteq Nat
    /\ Monthlies \subseteq Nat
    /\ Margin \in Nat
    /\ MaxFailures \in Nat \ {0}
    /\ MaxTries \in Nat \ {0}
    /\ MaxClock \in Nat
    /\ Faults \subseteq {"restart", "no_page", "odd_answer"}

VARIABLES
    accts,      \* firecrawl_accounts as committed
    call,       \* each caller's place in _post_with_pool
    adm,        \* each administrating thread's place in its handler
    clock,      \* how often an account was given to a call
    charged,    \* history: the pages calls were charged for, by account
    cut         \* history: the accounts with a page that was paid for and never recorded

poolVars == <<accts, call, adm, clock, charged, cut>>

Outcomes == {"success", "rate_limited", "quota_exceeded", "failure"}

\* PATCH may write any status: all but "active" act as "suspended" does.
AccountStatuses == {"active", "exhausted", "suspended"}

\* cooling is cooldown_until, null or to come or past; last is last_used_at, 0 for null.
Account == [status: AccountStatuses, used: Nat, monthly: Nat, priority: Nat,
            failures: 0 .. MaxFailures, cooling: {"no", "yes", "over"}, last: Nat]

Absent == [status |-> "absent"]

Deleted == [status |-> "deleted"]

Rows == Account \union {Absent, Deleted}

Idle == [pc |-> "idle"]

(***************************************************************************)
(* A call: the tries it has left; the account it has locked, given to it at*)
(* tick, and what came of it.  tried and begun are history: the accounts it*)
(* has had, and the time it began.  A call that is "done" has its page, or *)
(* not, and nothing locked.                                                *)
(***************************************************************************)
Calling ==
    [pc: {"acquire", "env"}, tries: 1 .. MaxTries, tried: SUBSET Accounts, begun: Nat]
        \union
    [pc: {"post"}, tries: 1 .. MaxTries, tried: SUBSET Accounts, begun: Nat,
     acct: Accounts, tick: Nat]
        \union
    [pc: {"record"}, tries: 1 .. MaxTries, tried: SUBSET Accounts, begun: Nat,
     acct: Accounts, tick: Nat, outcome: Outcomes]
        \union
    [pc: {"done"}, page: BOOLEAN]

Writing == [pc: {"write"}, acct: Accounts, was: Account, new: Account]

PoolTypeOK ==
    /\ accts \in [Accounts -> Rows]
    /\ call \in [Callers -> Calling \union {Idle}]
    /\ adm \in [Admins -> Writing \union {Idle}]
    /\ clock \in Nat
    /\ charged \in [Accounts -> Nat]
    /\ cut \subseteq Accounts

PoolInit ==
    /\ accts = [a \in Accounts |-> Absent]
    /\ call = [c \in Callers |-> Idle]
    /\ adm = [t \in Admins |-> Idle]
    /\ clock = 0
    /\ charged = [a \in Accounts |-> 0]
    /\ cut = {}

There(a) == accts[a] \in Account

\* A row is locked from the SELECT to the commit of what came of the request.
Holds(c, a) == call[c].pc \in {"post", "record"} /\ call[c].acct = a

Locked(a) == \E c \in Callers : Holds(c, a)

-----------------------------------------------------------------------------
(***************************************************************************)
(* A call.                                                                 *)
(***************************************************************************)

\* Mutant: the margin is not set aside.
HasCredit(row) == row.monthly = 0 \/ row.used + 1 <= row.monthly

HasBudget(row) == row.monthly = 0 \/ row.used + 1 + Margin <= row.monthly

\* Mutant: SELECT without FOR UPDATE SKIP LOCKED.
AvailableUnlocked ==
    {a \in Accounts :
        There(a) /\ accts[a].status = "active" /\ accts[a].cooling # "yes" /\ HasBudget(accts[a])}

Available ==
    {a \in Accounts :
        /\ There(a)
        /\ accts[a].status = "active"
        /\ accts[a].cooling # "yes"
        /\ HasBudget(accts[a])
        /\ ~Locked(a)}

\* ORDER BY priority, last_used_at NULLS FIRST.
Precedes(a, b) ==
    \/ accts[a].priority < accts[b].priority
    \/ accts[a].priority = accts[b].priority /\ accts[a].last <= accts[b].last

BeginCall(c) ==
    /\ call[c] = Idle
    /\ clock < MaxClock
    /\ call' = [call EXCEPT ![c] =
                  [pc |-> "acquire", tries |-> MaxTries, tried |-> {}, begun |-> clock]]
    /\ UNCHANGED <<accts, adm, clock, charged, cut>>

Acquire(c, a) ==
    /\ call[c].pc = "acquire"
    /\ a \in Available
    /\ \A b \in Available : Precedes(a, b)
    /\ clock' = clock + 1
    /\ call' = [call EXCEPT ![c] =
                  [pc |-> "post", tries |-> @.tries, tried |-> @.tried \union {a},
                   begun |-> @.begun, acct |-> a, tick |-> clock']]
    /\ UNCHANGED <<accts, adm, charged, cut>>

\* FirecrawlPoolExhausted.  The endpoint of the environment has a default.
FallBack(c) ==
    /\ call[c].pc = "acquire"
    /\ Available = {}
    /\ call' = [call EXCEPT ![c] =
                  [pc |-> "env", tries |-> @.tries, tried |-> @.tried, begun |-> @.begun]]
    /\ UNCHANGED <<accts, adm, clock, charged, cut>>

Done(page) == [pc |-> "done", page |-> page]

EnvAnswers(c) ==
    /\ call[c].pc = "env"
    /\ \E page \in {TRUE} \union (IF "no_page" \in Faults THEN {FALSE} ELSE {}) :
          call' = [call EXCEPT ![c] = Done(page)]
    /\ UNCHANGED <<accts, adm, clock, charged, cut>>

\* What _classify makes of the answer.  A token that cannot be decrypted fails unasked.
Post(c, outcome) ==
    /\ call[c].pc = "post"
    /\ outcome = "success" \/ "no_page" \in Faults
    /\ call' = [call EXCEPT ![c] =
                  [pc |-> "record", tries |-> @.tries, tried |-> @.tried, begun |-> @.begun,
                   acct |-> @.acct, tick |-> @.tick, outcome |-> outcome]]
    /\ charged' = IF outcome \in {"success", "rate_limited"}
                  THEN [charged EXCEPT ![call[c].acct] = @ + 1] ELSE charged
    /\ UNCHANGED <<accts, adm, clock, cut>>

\* Anything but HTTPError and ValueError, for JSON that is no object, say, ends the call: the
\* row is released as it was, whether the server has counted a page or not.
Escape(c) ==
    /\ "odd_answer" \in Faults
    /\ call[c].pc = "post"
    /\ call' = [call EXCEPT ![c] = Done(FALSE)]
    /\ \/ UNCHANGED <<charged, cut>>
       \/ /\ charged' = [charged EXCEPT ![call[c].acct] = @ + 1]
          /\ cut' = cut \union {call[c].acct}
    /\ UNCHANGED <<accts, adm, clock>>

\* The end of record_usage: an active account with little left is exhausted early.
Checked(row) ==
    IF row.status = "active" /\ row.monthly > 0 /\ row.monthly - row.used < Margin
    THEN [row EXCEPT !.status = "exhausted"] ELSE row

\* MaxFailures also bounds the count, which an account activated by PATCH takes further.
Failed(row) ==
    LET failures == IF row.failures < MaxFailures THEN row.failures + 1 ELSE MaxFailures
    IN  [row EXCEPT !.failures = failures,
                    !.status = IF failures = MaxFailures THEN "suspended" ELSE @]

Recorded(row, outcome) ==
    Checked(CASE outcome = "success"        -> [row EXCEPT !.used = @ + 1, !.failures = 0]
              [] outcome = "rate_limited"   -> [row EXCEPT !.used = @ + 1, !.cooling = "yes"]
              [] outcome = "quota_exceeded" -> [row EXCEPT !.status = "exhausted"]
              [] outcome = "failure"        -> Failed(row))

\* Mutant: last_used_at is not written.
NotTouched(row, tick) == row

Touched(row, tick) == [row EXCEPT !.last = tick]

\* Mutant: off by one.
AfterOneTooMany(self) ==
    IF self.outcome = "success" \/ self.tries = 0 THEN Done(self.outcome = "success")
    ELSE [pc |-> "acquire", tries |-> self.tries - 1, tried |-> self.tried,
          begun |-> self.begun]

\* Where a call is after an attempt.
After(self) ==
    IF self.outcome = "success" \/ self.tries = 1 THEN Done(self.outcome = "success")
    ELSE [pc |-> "acquire", tries |-> self.tries - 1, tried |-> self.tried,
          begun |-> self.begun]

\* record_usage and the commit, which also releases the row.
Record(c) ==
    /\ call[c].pc = "record"
    /\ accts' = [accts EXCEPT ![call[c].acct] =
                   Recorded(Touched(@, call[c].tick), call[c].outcome)]
    /\ call' = [call EXCEPT ![c] = After(@)]
    /\ UNCHANGED <<adm, clock, charged, cut>>

\* The hour of COOLDOWN_AFTER_RATE_LIMIT is over.
CoolDown(a) ==
    /\ There(a)
    /\ accts[a].cooling = "yes"
    /\ accts' = [accts EXCEPT ![a].cooling = "over"]
    /\ UNCHANGED <<call, adm, clock, charged, cut>>

-----------------------------------------------------------------------------
(***************************************************************************)
(* What the user does.  A handler waits nowhere but for a row, so that it  *)
(* is one step when no call has the row; else it has loaded the row as it  *)
(* was before the call, and writes its changes when the call has committed.*)
(***************************************************************************)

NewAccount(priority, monthly) ==
    [status |-> "active", used |-> 0, monthly |-> monthly, priority |-> priority,
     failures |-> 0, cooling |-> "no", last |-> 0]

\* POST /accounts and /accounts/bulk, which gives every account the defaults.
CreateAccount(a, priority, monthly) ==
    /\ accts[a] = Absent
    /\ accts' = [accts EXCEPT ![a] = NewAccount(priority, monthly)]
    /\ UNCHANGED <<call, adm, clock, charged, cut>>

\* POST /accounts/{id}/reactivate, and PATCH of one column.
Reactivated(row) == [row EXCEPT !.status = "active", !.failures = 0, !.cooling = "no"]

Patched(row) ==
    {[row EXCEPT !.status = s] : s \in AccountStatuses}
        \union {[row EXCEPT !.monthly = m] : m \in Monthlies}
        \union {[row EXCEPT !.priority = p] : p \in Priorities}

\* Mutant: the handler writes the whole row it has loaded.
Overlaid(cur, was, new) == new

NetChange(cur, was, new) ==
    [cur EXCEPT !.status   = Written(@, was.status, new.status),
                !.monthly  = Written(@, was.monthly, new.monthly),
                !.priority = Written(@, was.priority, new.priority),
                !.failures = Written(@, was.failures, new.failures),
                !.cooling  = Written(@, was.cooling, new.cooling)]

Changes(row) == Patched(row) \union {Reactivated(row)}

ChangeAccount(a) ==
    /\ There(a)
    /\ ~Locked(a)
    /\ \E new \in Changes(accts[a]) :
          accts' = [accts EXCEPT ![a] = NetChange(@, @, new)]
    /\ UNCHANGED <<call, adm, clock, charged, cut>>

WaitForAccount(t, a) ==
    /\ adm[t] = Idle
    /\ There(a)
    /\ Locked(a)
    /\ \E new \in Changes(accts[a]) :
          adm' = [adm EXCEPT ![t] = [pc |-> "write", acct |-> a, was |-> accts[a], new |-> new]]
    /\ UNCHANGED <<accts, call, clock, charged, cut>>

\* On a row that was deleted meanwhile the UPDATE raises.
WriteAccount(t) ==
    LET a == adm[t].acct
    IN  /\ adm[t].pc = "write"
        /\ ~Locked(a)
        /\ accts' = IF There(a)
                    THEN [accts EXCEPT ![a] = NetChange(@, adm[t].was, adm[t].new)]
                    ELSE accts
        /\ adm' = [adm EXCEPT ![t] = Idle]
        /\ UNCHANGED <<call, clock, charged, cut>>

DeleteAccount(a) ==
    /\ There(a)
    /\ ~Locked(a)
    /\ accts' = [accts EXCEPT ![a] = Deleted]
    /\ charged' = [charged EXCEPT ![a] = 0]
    /\ cut' = cut \ {a}
    /\ UNCHANGED <<call, adm, clock>>

Administer ==
    \/ \E a \in Accounts, p \in Priorities, m \in Monthlies : CreateAccount(a, p, m)
    \/ \E a \in Accounts : ChangeAccount(a)
    \/ \E t \in Admins, a \in Accounts : WaitForAccount(t, a)
    \/ \E t \in Admins : WriteAccount(t)
    \/ \E a \in Accounts : DeleteAccount(a)

-----------------------------------------------------------------------------

Attempt(c) ==
    \/ \E a \in Accounts : Acquire(c, a)
    \/ FallBack(c) \/ EnvAnswers(c)
    \/ \E outcome \in Outcomes : Post(c, outcome)
    \/ Escape(c)
    \/ Record(c)

\* Rows are released as they were: what servers have answered goes unrecorded.
KillCalls ==
    /\ "restart" \in Faults
    /\ call' = [c \in Callers |-> Idle]
    /\ adm' = [t \in Admins |-> Idle]
    /\ cut' = cut \union {a \in Accounts : \E c \in Callers :
                             call[c].pc = "record" /\ call[c].acct = a}
    /\ UNCHANGED <<accts, clock, charged>>

-----------------------------------------------------------------------------
(***************************************************************************)
(* Safety                                                                  *)
(***************************************************************************)

(***************************************************************************)
(* No two calls have the same account: the pages of one import are scraped *)
(* at once, each in a session of its own.                                  *)
(***************************************************************************)
ExclusiveUse == \A a \in Accounts, b, c \in Callers : Holds(b, a) /\ Holds(c, a) => b = c

(***************************************************************************)
(* The pool implements Lease: an account serves one call at a time, and    *)
(* credits_used goes up only when that call records its answer.  No patch, *)
(* reactivation, cooldown or restart changes it or lowers it.              *)
(***************************************************************************)
InPool == {a \in Accounts : There(a)}

HeldBy == [a \in Accounts |-> {c \in Callers : Holds(c, a)}]

Usage == [a \in Accounts |-> IF There(a) THEN accts[a].used ELSE 0]

PoolLease ==
    INSTANCE Lease WITH Users <- Callers, pool <- InPool, holders <- HeldBy, used <- Usage

ImplementsLease == PoolLease!Spec

(***************************************************************************)
(* What an account's server was paid is what its row says, or will say once*)
(* the answer at hand is recorded, whatever the user writes meanwhile;     *)
(* unless a restart or an error of the call came between the answer and the*)
(* commit.                                                                 *)
(***************************************************************************)
Unrecorded(a) ==
    \E c \in Callers : /\ Holds(c, a)
                       /\ call[c].pc = "record"
                       /\ call[c].outcome \in {"success", "rate_limited"}

UsageIsKept ==
    \A a \in Accounts \ cut :
        There(a) => charged[a] = accts[a].used + (IF Unrecorded(a) THEN 1 ELSE 0)

(***************************************************************************)
(* "require at least 5 credits headroom": what is charged leaves the margin*)
(* of the monthly credit the row has at that time, although the user may   *)
(* want to lower it while the request is under way.                        *)
(***************************************************************************)
HeadroomKept ==
    [][\A a \in Accounts :
          There(a) /\ accts'[a] \in Account /\ accts'[a].used > accts[a].used =>
              accts'[a].monthly = 0 \/ accts'[a].used + Margin <= accts'[a].monthly]_accts

(***************************************************************************)
(* A retry goes back to an account it has tried only if every account it   *)
(* has not comes after that by priority, or was used by another call since *)
(* this one began: "Loop body picks up the next account".                  *)
(***************************************************************************)
RetryRotates ==
    [][\A c \in Callers, a \in Accounts :
          Acquire(c, a) /\ a \in call[c].tried =>
              \A b \in Available \ call[c].tried :
                  \/ accts[a].priority < accts[b].priority
                  \/ call[c].begun < accts[b].last]_poolVars
=============================================================================
