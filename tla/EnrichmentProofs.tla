-------------------------- MODULE EnrichmentProofs --------------------------
(***************************************************************************)
(* Proofs about FirecrawlPool and the handlers of Enrichment, for any      *)
(* number of accounts, callers, administrators and jobs, and any limits.   *)
(***************************************************************************)
EXTENDS Enrichment, TLAPS

(***************************************************************************)
(* The inductive invariant of the pool.  A row that is locked is there, and*)
(* has the budget it was acquired with; an account nobody has created has  *)
(* cost nothing.                                                           *)
(***************************************************************************)
HeldIsThere == \A c \in Callers, a \in Accounts : Holds(c, a) => There(a)

HeldHasBudget == \A c \in Callers, a \in Accounts : Holds(c, a) => HasBudget(accts[a])

UnusedYet == \A a \in Accounts : accts[a] = Absent => charged[a] = 0

(***************************************************************************)
(* What RetryRotates rests on: the accounts a call has tried, and has no   *)
(* longer, were last used after it began.                                  *)
(***************************************************************************)
Trying(c) == call[c].pc \in {"acquire", "env", "post", "record"}

BegunBefore == \A c \in Callers : Trying(c) => call[c].begun <= clock

UsedSince(c, a) ==
    /\ accts[a] # Absent
    /\ ~Holds(c, a) =>
          /\ There(a) => call[c].begun < accts[a].last
          /\ \A d \in Callers : Holds(d, a) => call[c].begun < call[d].tick
    /\ Holds(c, a) => call[c].begun < call[c].tick

TriedSince ==
    \A c \in Callers : Trying(c) => \A a \in call[c].tried : UsedSince(c, a)

HeldIsTried == \A c \in Callers, a \in Accounts : Holds(c, a) => a \in call[c].tried

PoolInv ==
    /\ PoolTypeOK
    /\ ExclusiveUse
    /\ HeldIsThere
    /\ HeldHasBudget
    /\ UnusedYet
    /\ UsageIsKept
    /\ BegunBefore
    /\ HeldIsTried
    /\ TriedSince

-----------------------------------------------------------------------------
(***************************************************************************)
(* Rows and calls.                                                         *)
(***************************************************************************)

LEMMA AccountsArePresent ==
    ASSUME NEW row \in Account
    PROVE  row # Absent /\ row # Deleted
BY DEF Account, AccountStatuses, Absent, Deleted

LEMMA CallTypes ==
    ASSUME PoolTypeOK, NEW c \in Callers
    PROVE  /\ Trying(c) => /\ call[c].tries \in 1 .. MaxTries
                           /\ call[c].tried \subseteq Accounts
                           /\ call[c].begun \in Nat
           /\ call[c].pc \in {"post", "record"} =>
                 call[c].acct \in Accounts /\ call[c].tick \in Nat
           /\ call[c].pc = "record" => call[c].outcome \in Outcomes
           /\ call[c].pc \in {"idle", "acquire", "env", "post", "record", "done"}
<1>1. call[c] \in Calling \union {Idle}
  BY DEF PoolTypeOK
<1> QED
  BY <1>1 DEF Calling, Idle, Trying

LEMMA CheckedRow ==
    ASSUME NEW row \in Account
    PROVE  /\ Checked(row) \in Account
           /\ Checked(row).used = row.used
           /\ Checked(row).monthly = row.monthly
           /\ Checked(row).last = row.last
BY DEF Checked, Account, AccountStatuses

LEMMA FailedRow ==
    ASSUME NEW row \in Account
    PROVE  /\ Failed(row) \in Account
           /\ Failed(row).used = row.used
           /\ Failed(row).monthly = row.monthly
           /\ Failed(row).last = row.last
<1>1. row.failures < MaxFailures => row.failures + 1 \in 0 .. MaxFailures
  BY FirecrawlPoolAssumption DEF Account
<1>2. MaxFailures \in 0 .. MaxFailures
  BY FirecrawlPoolAssumption
<1> QED
  BY <1>1, <1>2 DEF Failed, Account, AccountStatuses

Paid(outcome) == IF outcome \in {"success", "rate_limited"} THEN 1 ELSE 0

\* record_usage charges one credit for a page or a 429, and nothing else.
LEMMA RecordedRow ==
    ASSUME NEW row \in Account, NEW outcome \in Outcomes
    PROVE  /\ Recorded(row, outcome) \in Account
           /\ Recorded(row, outcome).used = row.used + Paid(outcome)
           /\ Recorded(row, outcome).monthly = row.monthly
           /\ Recorded(row, outcome).last = row.last
<1>1. ASSUME NEW new \in Account, Recorded(row, outcome) = Checked(new),
             new.used = row.used + Paid(outcome), new.monthly = row.monthly,
             new.last = row.last
      PROVE  /\ Recorded(row, outcome) \in Account
             /\ Recorded(row, outcome).used = row.used + Paid(outcome)
             /\ Recorded(row, outcome).monthly = row.monthly
             /\ Recorded(row, outcome).last = row.last
  BY <1>1, CheckedRow
<1>2. row.used + 1 \in Nat /\ 0 \in 0 .. MaxFailures /\ row.used \in Nat
  BY FirecrawlPoolAssumption DEF Account
<1>3. CASE outcome = "success"
  <2> DEFINE new == [row EXCEPT !.used = @ + 1, !.failures = 0]
  <2>1. /\ new \in Account /\ new.used = row.used + Paid(outcome)
        /\ new.monthly = row.monthly /\ new.last = row.last
    BY <1>2, <1>3 DEF Account, Paid
  <2>2. Recorded(row, outcome) = Checked(new)
    BY <1>3 DEF Recorded
  <2> HIDE DEF new
  <2> QED
    BY <1>1, <2>1, <2>2
<1>4. CASE outcome = "rate_limited"
  <2> DEFINE new == [row EXCEPT !.used = @ + 1, !.cooling = "yes"]
  <2>1. /\ new \in Account /\ new.used = row.used + Paid(outcome)
        /\ new.monthly = row.monthly /\ new.last = row.last
    BY <1>2, <1>4 DEF Account, Paid
  <2>2. Recorded(row, outcome) = Checked(new)
    BY <1>4 DEF Recorded
  <2> HIDE DEF new
  <2> QED
    BY <1>1, <2>1, <2>2
<1>5. CASE outcome = "quota_exceeded"
  <2> DEFINE new == [row EXCEPT !.status = "exhausted"]
  <2>1. /\ new \in Account /\ new.used = row.used + Paid(outcome)
        /\ new.monthly = row.monthly /\ new.last = row.last
    BY <1>2, <1>5 DEF Account, Paid, AccountStatuses
  <2>2. Recorded(row, outcome) = Checked(new)
    BY <1>5 DEF Recorded
  <2> HIDE DEF new
  <2> QED
    BY <1>1, <2>1, <2>2
<1>6. CASE outcome = "failure"
  <2>1. Recorded(row, outcome) = Checked(Failed(row))
    BY <1>6 DEF Recorded
  <2>2. Paid(outcome) = 0
    BY <1>6 DEF Paid
  <2> QED
    BY <1>1, <1>2, <2>1, <2>2, FailedRow
<1> QED
  BY <1>3, <1>4, <1>5, <1>6 DEF Outcomes

LEMMA TouchedRow ==
    ASSUME NEW row \in Account, NEW tick \in Nat
    PROVE  /\ Touched(row, tick) \in Account
           /\ Touched(row, tick).used = row.used
           /\ Touched(row, tick).monthly = row.monthly
           /\ Touched(row, tick).last = tick
BY DEF Touched, Account

LEMMA ChangedRow ==
    ASSUME NEW row \in Account, NEW new \in Changes(row)
    PROVE  new \in Account
<1>1. 0 \in 0 .. MaxFailures
  BY FirecrawlPoolAssumption
<1> QED
  BY <1>1, FirecrawlPoolAssumption DEF Changes, Patched, Reactivated, Account, AccountStatuses

LEMMA WrittenRow ==
    ASSUME NEW cur \in Account, NEW was \in Account, NEW new \in Account
    PROVE  /\ NetChange(cur, was, new) \in Account
           /\ NetChange(cur, was, new).used = cur.used
           /\ NetChange(cur, was, new).last = cur.last
BY DEF NetChange, Written, Account

-----------------------------------------------------------------------------
(***************************************************************************)
(* Every step of the pool keeps its invariant.                             *)
(***************************************************************************)

\* A call that has no account, before and after.
LEMMA UnlockedCallKeepsPool ==
    ASSUME PoolInv, NEW c \in Callers, NEW new \in Calling \union {Idle},
           call' = [call EXCEPT ![c] = new],
           call[c].pc \notin {"post", "record"}, new.pc \notin {"post", "record"},
           new.pc \in {"acquire", "env"} =>
               /\ new.begun <= clock
               /\ \A a \in new.tried :
                     Trying(c) /\ a \in call[c].tried /\ new.begun = call[c].begun,
           UNCHANGED <<accts, adm, clock, charged, cut>>
    PROVE  PoolInv'
<1> USE DEF PoolInv
<1>1. /\ call'[c] = new
      /\ \A d \in Callers \ {c} : call'[d] = call[d]
  BY DEF PoolTypeOK
<1>2. \A d \in Callers, a \in Accounts : Holds(d, a)' <=> Holds(d, a)
  BY <1>1 DEF Holds
<1>3. PoolTypeOK'
  BY DEF PoolTypeOK
<1>4. ExclusiveUse' /\ HeldIsThere' /\ HeldHasBudget' /\ UnusedYet'
  BY <1>2 DEF ExclusiveUse, HeldIsThere, HeldHasBudget, UnusedYet, There
<1>5. UsageIsKept'
  <2>1. \A a \in Accounts : Unrecorded(a)' <=> Unrecorded(a)
    BY <1>1 DEF Unrecorded, Holds
  <2> QED
    BY <2>1 DEF UsageIsKept, There
<1>6. BegunBefore'
  BY <1>1 DEF BegunBefore, Trying
<1>7. HeldIsTried'
  BY <1>1 DEF HeldIsTried, Holds
<1>8. TriedSince'
  <2> SUFFICES ASSUME NEW d \in Callers, Trying(d)', NEW a \in call'[d].tried
               PROVE  UsedSince(d, a)'
    BY DEF TriedSince
  <2>1. /\ Trying(d) /\ a \in call[d].tried /\ call'[d].begun = call[d].begun
        /\ a \in Accounts
    BY <1>1, CallTypes DEF Trying
  <2>2. UsedSince(d, a)
    BY <2>1 DEF TriedSince
  <2>3. \A e \in Callers : Holds(e, a)' => call'[e].tick = call[e].tick
    BY <1>1 DEF Holds
  <2> QED
    BY <1>2, <2>1, <2>2, <2>3 DEF UsedSince, There
<1> QED
  BY <1>3, <1>4, <1>5, <1>6, <1>7, <1>8

LEMMA BeginKeepsPool ==
    ASSUME PoolInv, NEW c \in Callers, BeginCall(c)
    PROVE  PoolInv'
<1> DEFINE new == [pc |-> "acquire", tries |-> MaxTries, tried |-> {}, begun |-> clock]
<1>1. new \in Calling /\ new.pc = "acquire" /\ new.begun = clock /\ new.tried = {}
  BY FirecrawlPoolAssumption DEF Calling, PoolInv, PoolTypeOK
<1>2. /\ call' = [call EXCEPT ![c] = new] /\ call[c].pc = "idle"
      /\ UNCHANGED <<accts, adm, clock, charged, cut>>
  BY DEF BeginCall, Idle
<1> HIDE DEF new
<1>3. /\ new \in Calling \union {Idle}
      /\ call[c].pc \notin {"post", "record"} /\ new.pc \notin {"post", "record"}
      /\ new.begun <= clock
      /\ \A a \in new.tried : Trying(c) /\ a \in call[c].tried /\ new.begun = call[c].begun
  BY <1>1, <1>2 DEF PoolInv, PoolTypeOK
<1> QED
  BY <1>2, <1>3, UnlockedCallKeepsPool

LEMMA FallBackKeepsPool ==
    ASSUME PoolInv, NEW c \in Callers, FallBack(c)
    PROVE  PoolInv'
<1> DEFINE new == [pc |-> "env", tries |-> call[c].tries, tried |-> call[c].tried,
                   begun |-> call[c].begun]
<1>1. /\ PoolTypeOK
      /\ call[c].pc = "acquire"
      /\ call' = [call EXCEPT ![c] = new]
      /\ UNCHANGED <<accts, adm, clock, charged, cut>>
  BY DEF PoolInv, PoolTypeOK, FallBack
<1>2. Trying(c) /\ call[c].begun <= clock
  BY <1>1 DEF Trying, PoolInv, BegunBefore
<1>3. /\ new \in Calling /\ new.pc = "env"
      /\ new.begun = call[c].begun /\ new.tried = call[c].tried
  BY <1>1, <1>2, CallTypes DEF Calling
<1> HIDE DEF new
<1> QED
  BY <1>1, <1>2, <1>3, UnlockedCallKeepsPool

LEMMA EnvKeepsPool ==
    ASSUME PoolInv, NEW c \in Callers, EnvAnswers(c)
    PROVE  PoolInv'
<1>1. PICK page \in BOOLEAN :
        /\ call[c].pc = "env"
        /\ call' = [call EXCEPT ![c] = Done(page)]
        /\ UNCHANGED <<accts, adm, clock, charged, cut>>
  BY DEF EnvAnswers
<1>2. Done(page) \in Calling /\ Done(page).pc = "done"
  BY DEF Done, Calling
<1> QED
  BY <1>1, <1>2, UnlockedCallKeepsPool

\* The caller has what it wanted, or not, and ends.
LEMMA EndKeepsPool ==
    ASSUME PoolInv, NEW c \in Callers, call[c].pc = "done",
           call' = [call EXCEPT ![c] = Idle], UNCHANGED <<accts, adm, clock, charged, cut>>
    PROVE  PoolInv'
<1>1. Idle.pc = "idle"
  BY DEF Idle
<1> QED
  BY <1>1, UnlockedCallKeepsPool

LEMMA AcquireKeepsPool ==
    ASSUME PoolInv, NEW c \in Callers, NEW a \in Accounts, Acquire(c, a)
    PROVE  PoolInv'
<1> USE DEF PoolInv
<1> DEFINE new == [pc |-> "post", tries |-> call[c].tries, tried |-> call[c].tried \union {a},
                   begun |-> call[c].begun, acct |-> a, tick |-> clock + 1]
<1>1. /\ call[c].pc = "acquire"
      /\ There(a) /\ HasBudget(accts[a]) /\ ~Locked(a)
      /\ clock' = clock + 1
      /\ call' = [call EXCEPT ![c] = new]
      /\ UNCHANGED <<accts, adm, charged, cut>>
  BY DEF Acquire, Available, PoolTypeOK
<1>2. Trying(c) /\ ~(call[c].pc \in {"post", "record"})
  BY <1>1 DEF Trying
<1>3. /\ new \in Calling /\ new.pc = "post" /\ new.acct = a /\ new.tick = clock + 1
      /\ new.begun = call[c].begun /\ new.tried = call[c].tried \union {a}
      /\ clock \in Nat /\ call[c].begun \in Nat /\ call[c].begun <= clock
  <2>1. clock + 1 \in Nat /\ clock \in Nat
    BY DEF PoolTypeOK
  <2>2. /\ call[c].tries \in 1 .. MaxTries /\ call[c].tried \union {a} \subseteq Accounts
        /\ call[c].begun \in Nat
    BY <1>2, CallTypes
  <2> QED
    BY <1>2, <2>1, <2>2 DEF Calling, BegunBefore
<1> HIDE DEF new
<1>4. /\ call'[c] = new
      /\ \A d \in Callers \ {c} : call'[d] = call[d]
  BY <1>1 DEF PoolTypeOK
<1>5. /\ Holds(c, a)'
      /\ \A b \in Accounts \ {a} : ~Holds(c, b)' /\ ~Holds(c, b)
      /\ \A d \in Callers \ {c}, b \in Accounts : Holds(d, b)' <=> Holds(d, b)
      /\ \A d \in Callers : ~Holds(d, a)
  BY <1>1, <1>2, <1>3, <1>4 DEF Holds, Locked
<1>6. PoolTypeOK'
  BY <1>1, <1>3 DEF PoolTypeOK
<1>7. ExclusiveUse'
  BY <1>5 DEF ExclusiveUse
<1>8. HeldIsThere' /\ HeldHasBudget' /\ UnusedYet'
  BY <1>1, <1>5 DEF HeldIsThere, HeldHasBudget, UnusedYet, There
<1>9. UsageIsKept'
  <2>1. \A b \in Accounts : Unrecorded(b)' <=> Unrecorded(b)
    BY <1>2, <1>3, <1>4 DEF Unrecorded, Holds
  <2> QED
    BY <1>1, <2>1 DEF UsageIsKept, There
<1>10. BegunBefore'
  <2> SUFFICES ASSUME NEW d \in Callers, Trying(d)'
               PROVE  call'[d].begun <= clock'
    BY DEF BegunBefore
  <2>1. Trying(d) /\ call'[d].begun = call[d].begun
    BY <1>2, <1>3, <1>4 DEF Trying
  <2>2. call[d].begun \in Nat /\ call[d].begun <= clock
    BY <2>1, CallTypes DEF BegunBefore
  <2> QED
    BY <1>1, <1>3, <2>1, <2>2
<1>11. HeldIsTried'
  <2>1. \A d \in Callers \ {c}, b \in Accounts : Holds(d, b)' => b \in call'[d].tried
    BY <1>4, <1>5 DEF HeldIsTried
  <2>2. \A b \in Accounts : Holds(c, b)' => b \in call'[c].tried
    BY <1>3, <1>4, <1>5
  <2> QED
    BY <2>1, <2>2 DEF HeldIsTried
<1>12. TriedSince'
  <2> SUFFICES ASSUME NEW d \in Callers, Trying(d)', NEW b \in call'[d].tried
               PROVE  UsedSince(d, b)'
    BY DEF TriedSince
  <2>1. /\ Trying(d) /\ call'[d].begun = call[d].begun
        /\ b \in call[d].tried \/ (d = c /\ b = a)
    BY <1>2, <1>3, <1>4 DEF Trying
  <2>2. /\ b \in Accounts /\ call[d].begun \in Nat /\ call[d].begun < clock + 1
    BY <1>3, <2>1, CallTypes DEF BegunBefore
  <2>3. CASE d = c /\ b = a
    BY <1>1, <1>3, <1>4, <1>5, <2>1, <2>2, <2>3, AccountsArePresent DEF UsedSince, There
  <2>4. CASE b \in call[d].tried /\ ~(d = c /\ b = a)
    <3>1. UsedSince(d, b)
      BY <2>1, <2>4 DEF TriedSince
    <3>2. Holds(d, b)' <=> Holds(d, b)
      BY <1>5, <2>2, <2>4
    <3>3. \A e \in Callers \ {c} : Holds(e, b)' => Holds(e, b) /\ call'[e].tick = call[e].tick
      BY <1>4, <1>5, <2>2
    <3>4. Holds(c, b)' => call'[c].tick = clock + 1
      BY <1>3, <1>4
    <3> QED
      BY <1>1, <1>4, <1>5, <2>1, <2>2, <2>4, <3>1, <3>2, <3>3, <3>4 DEF UsedSince, There
  <2> QED
    BY <2>1, <2>3, <2>4
<1> QED
  BY <1>6, <1>7, <1>8, <1>9, <1>10, <1>11, <1>12

LEMMA PostKeepsPool ==
    ASSUME PoolInv, NEW c \in Callers, NEW outcome \in Outcomes, Post(c, outcome)
    PROVE  PoolInv'
<1> USE DEF PoolInv
<1> DEFINE a == call[c].acct
           new == [pc |-> "record", tries |-> call[c].tries, tried |-> call[c].tried,
                   begun |-> call[c].begun, acct |-> a, tick |-> call[c].tick,
                   outcome |-> outcome]
<1>1. /\ call[c].pc = "post"
      /\ call' = [call EXCEPT ![c] = new]
      /\ charged' = IF outcome \in {"success", "rate_limited"}
                    THEN [charged EXCEPT ![a] = @ + 1] ELSE charged
      /\ UNCHANGED <<accts, adm, clock, cut>>
  BY DEF Post, PoolTypeOK
<1>2. Trying(c) /\ a \in Accounts /\ Holds(c, a)
  BY <1>1, CallTypes DEF Trying, Holds
<1>3. /\ new \in Calling /\ new.pc = "record" /\ new.acct = a /\ new.tick = call[c].tick
      /\ new.begun = call[c].begun /\ new.tried = call[c].tried /\ new.outcome = outcome
  BY <1>1, <1>2, CallTypes DEF Calling
<1> HIDE DEF new, a
<1>4. /\ call'[c] = new
      /\ \A d \in Callers \ {c} : call'[d] = call[d]
  BY <1>1 DEF PoolTypeOK
<1>5. \A d \in Callers, b \in Accounts : Holds(d, b)' <=> Holds(d, b)
  BY <1>1, <1>3, <1>4 DEF Holds, a
<1>6. /\ charged' \in [Accounts -> Nat]
      /\ charged'[a] = charged[a] + Paid(outcome)
      /\ \A b \in Accounts \ {a} : charged'[b] = charged[b]
  BY <1>1, <1>2 DEF Paid, PoolTypeOK
<1>7. PoolTypeOK'
  BY <1>1, <1>3, <1>6 DEF PoolTypeOK
<1>8. ExclusiveUse' /\ HeldIsThere' /\ HeldHasBudget'
  BY <1>1, <1>5 DEF ExclusiveUse, HeldIsThere, HeldHasBudget, There
<1>9. UnusedYet'
  BY <1>1, <1>2, <1>6, AccountsArePresent DEF UnusedYet, HeldIsThere, There
<1>10. UsageIsKept'
  <2> SUFFICES ASSUME NEW b \in Accounts \ cut', There(b)'
               PROVE  charged'[b] = accts'[b].used + (IF Unrecorded(b)' THEN 1 ELSE 0)
    BY DEF UsageIsKept
  <2>1. /\ charged[b] = accts[b].used + (IF Unrecorded(b) THEN 1 ELSE 0)
        /\ accts[b].used \in Nat /\ accts'[b] = accts[b]
    BY <1>1 DEF UsageIsKept, There, Account
  <2>2. CASE b # a
    <3>1. Unrecorded(b)' <=> Unrecorded(b)
      BY <1>1, <1>2, <1>3, <1>4, <1>5, <2>2 DEF Unrecorded, Holds
    <3> QED
      BY <1>6, <2>1, <2>2, <3>1
  <2>3. CASE b = a
    <3>1. ~Unrecorded(b)
      BY <1>1, <1>2, <2>3 DEF Unrecorded, ExclusiveUse
    <3>2. Unrecorded(b)' <=> outcome \in {"success", "rate_limited"}
      <4>1. \A d \in Callers : Holds(d, b)' => d = c
        BY <1>2, <1>5, <2>3 DEF ExclusiveUse
      <4>2. Holds(c, b)'
        BY <1>2, <1>5, <2>3
      <4> QED
        BY <1>3, <1>4, <4>1, <4>2 DEF Unrecorded
    <3> QED
      BY <1>6, <2>1, <2>3, <3>1, <3>2 DEF Paid
  <2> QED
    BY <2>2, <2>3
<1>11. BegunBefore'
  BY <1>1, <1>2, <1>3, <1>4 DEF BegunBefore, Trying
<1>12. HeldIsTried'
  BY <1>3, <1>4, <1>5 DEF HeldIsTried
<1>13. TriedSince'
  <2> SUFFICES ASSUME NEW d \in Callers, Trying(d)', NEW b \in call'[d].tried
               PROVE  UsedSince(d, b)'
    BY DEF TriedSince
  <2>1. Trying(d) /\ b \in call[d].tried /\ call'[d].begun = call[d].begun /\ b \in Accounts
    BY <1>2, <1>3, <1>4, CallTypes DEF Trying
  <2>2. UsedSince(d, b)
    BY <2>1 DEF TriedSince
  <2>3. \A e \in Callers : call'[e].tick = call[e].tick
    BY <1>3, <1>4
  <2> QED
    BY <1>1, <1>5, <2>1, <2>2, <2>3 DEF UsedSince, There
<1> QED
  BY <1>7, <1>8, <1>9, <1>10, <1>11, <1>12, <1>13

LEMMA EscapeKeepsPool ==
    ASSUME PoolInv, NEW c \in Callers, Escape(c)
    PROVE  PoolInv'
<1> USE DEF PoolInv
<1> DEFINE a == call[c].acct
<1>1. /\ call[c].pc = "post"
      /\ call' = [call EXCEPT ![c] = Done(FALSE)]
      /\ UNCHANGED <<accts, adm, clock>>
      /\ \/ UNCHANGED <<charged, cut>>
         \/ charged' = [charged EXCEPT ![a] = @ + 1] /\ cut' = cut \union {a}
  BY DEF Escape
<1>2. a \in Accounts /\ Holds(c, a)
  BY <1>1, CallTypes DEF Trying, Holds
<1> HIDE DEF a
<1>3. /\ call'[c].pc = "done" /\ Done(FALSE) \in Calling
      /\ \A d \in Callers \ {c} : call'[d] = call[d]
  BY <1>1 DEF PoolTypeOK, Done, Calling
<1>4. \A d \in Callers, b \in Accounts : Holds(d, b)' <=> d # c /\ Holds(d, b)
  BY <1>3 DEF Holds
<1>5. /\ charged' \in [Accounts -> Nat] /\ cut' \subseteq Accounts
      /\ \A b \in Accounts \ cut' : charged'[b] = charged[b] /\ b \notin cut
      /\ \A b \in Accounts \ {a} : charged'[b] = charged[b]
  BY <1>1, <1>2 DEF PoolTypeOK
<1>6. PoolTypeOK'
  BY <1>1, <1>3, <1>5 DEF PoolTypeOK
<1>7. ExclusiveUse' /\ HeldIsThere' /\ HeldHasBudget'
  BY <1>1, <1>4 DEF ExclusiveUse, HeldIsThere, HeldHasBudget, There
<1>8. UnusedYet'
  BY <1>1, <1>2, <1>5, AccountsArePresent DEF UnusedYet, HeldIsThere, There
<1>9. UsageIsKept'
  <2>1. \A b \in Accounts : Unrecorded(b)' <=> Unrecorded(b)
    BY <1>1, <1>3, <1>4 DEF Unrecorded
  <2> QED
    BY <1>1, <1>5, <2>1 DEF UsageIsKept, There
<1>10. BegunBefore'
  BY <1>1, <1>3 DEF BegunBefore, Trying
<1>11. HeldIsTried'
  BY <1>3, <1>4 DEF HeldIsTried
<1>12. TriedSince'
  <2> SUFFICES ASSUME NEW d \in Callers, Trying(d)', NEW b \in call'[d].tried
               PROVE  UsedSince(d, b)'
    BY DEF TriedSince
  <2>1. d # c /\ Trying(d) /\ call'[d] = call[d] /\ b \in call[d].tried /\ b \in Accounts
    BY <1>3, CallTypes DEF Trying
  <2>2. UsedSince(d, b)
    BY <2>1 DEF TriedSince
  <2>3. \A e \in Callers : Holds(e, b)' => Holds(e, b) /\ call'[e] = call[e]
    BY <1>3, <1>4, <2>1
  <2>4. Holds(d, b)' <=> Holds(d, b)
    BY <1>4, <2>1
  <2> QED
    BY <1>1, <2>1, <2>2, <2>3, <2>4 DEF UsedSince, There
<1> QED
  BY <1>6, <1>7, <1>8, <1>9, <1>10, <1>11, <1>12

\* Where a call goes on from an attempt it holds no account.
LEMMA AfterAttempt ==
    ASSUME PoolTypeOK, NEW c \in Callers, call[c].pc = "record"
    PROVE  /\ After(call[c]) \in Calling
           /\ After(call[c]).pc \in {"acquire", "done"}
           /\ After(call[c]).pc = "acquire" =>
                 /\ After(call[c]).begun = call[c].begun
                 /\ After(call[c]).tried = call[c].tried
<1>1. /\ call[c].tries \in 1 .. MaxTries /\ call[c].tried \subseteq Accounts
      /\ call[c].begun \in Nat
  BY CallTypes DEF Trying
<1> DEFINE again == [pc |-> "acquire", tries |-> call[c].tries - 1, tried |-> call[c].tried,
                     begun |-> call[c].begun]
<1>2. CASE call[c].outcome = "success" \/ call[c].tries = 1
  BY <1>2 DEF After, Done, Calling
<1>3. CASE ~(call[c].outcome = "success" \/ call[c].tries = 1)
  <2>1. After(call[c]) = again
    BY <1>3 DEF After
  <2>2. call[c].tries - 1 \in 1 .. MaxTries
    <3>1. \A n \in 1 .. MaxTries : n # 1 => n - 1 \in 1 .. MaxTries
      BY FirecrawlPoolAssumption
    <3> QED
      BY <1>1, <1>3, <3>1
  <2>3. again \in Calling
    BY <1>1, <2>2 DEF Calling
  <2>4. again.pc = "acquire" /\ again.begun = call[c].begun /\ again.tried = call[c].tried
    OBVIOUS
  <2> HIDE DEF again
  <2> QED
    BY <2>1, <2>3, <2>4
<1> QED
  BY <1>2, <1>3

LEMMA RecordKeepsPool ==
    ASSUME PoolInv, NEW c \in Callers, Record(c)
    PROVE  /\ PoolInv'
           /\ \A b \in Accounts :
                 There(b) /\ accts'[b].used > accts[b].used =>
                     accts'[b].monthly = 0 \/ accts'[b].used + Margin <= accts'[b].monthly
<1> USE DEF PoolInv
<1> DEFINE a == call[c].acct
           tick == call[c].tick
           row == Recorded(Touched(accts[a], tick), call[c].outcome)
           new == After(call[c])
<1>1. /\ call[c].pc = "record"
      /\ accts' = [accts EXCEPT ![a] = row]
      /\ call' = [call EXCEPT ![c] = new]
      /\ UNCHANGED <<adm, clock, charged, cut>>
  BY DEF Record, PoolTypeOK
<1>2. /\ Trying(c) /\ a \in Accounts /\ tick \in Nat /\ call[c].outcome \in Outcomes
      /\ Holds(c, a)
  BY <1>1, CallTypes DEF Trying, Holds
<1>3. accts[a] \in Account /\ HasBudget(accts[a])
  BY <1>2 DEF HeldIsThere, There, HeldHasBudget
<1>4. /\ row \in Account
      /\ row.used = accts[a].used + Paid(call[c].outcome)
      /\ row.monthly = accts[a].monthly
      /\ row.last = tick
  <2> DEFINE mid == Touched(accts[a], tick)
  <2>1. /\ mid \in Account
        /\ mid.used = accts[a].used /\ mid.monthly = accts[a].monthly /\ mid.last = tick
    BY <1>2, <1>3, TouchedRow
  <2>2. row = Recorded(mid, call[c].outcome)
    OBVIOUS
  <2> HIDE DEF mid, row, tick, a
  <2> QED
    BY <1>2, <2>1, <2>2, RecordedRow
<1>5. /\ new \in Calling /\ new.pc \in {"acquire", "done"}
      /\ new.pc = "acquire" => new.begun = call[c].begun /\ new.tried = call[c].tried
  BY <1>1, AfterAttempt
<1> HIDE DEF new, row, tick, a
<1>6. /\ call'[c] = new
      /\ \A d \in Callers \ {c} : call'[d] = call[d]
      /\ accts'[a] = row
      /\ \A b \in Accounts \ {a} : accts'[b] = accts[b]
  BY <1>1, <1>2 DEF PoolTypeOK
<1>7. /\ \A b \in Accounts : ~Holds(c, b)'
      /\ \A d \in Callers \ {c}, b \in Accounts : Holds(d, b)' <=> Holds(d, b)
      /\ \A d \in Callers \ {c} : ~Holds(d, a)
  BY <1>2, <1>5, <1>6 DEF Holds, ExclusiveUse
<1>8. PoolTypeOK'
  BY <1>1, <1>4, <1>5 DEF PoolTypeOK, Rows
<1>9. ExclusiveUse'
  BY <1>7 DEF ExclusiveUse
<1>10. HeldIsThere' /\ HeldHasBudget'
  BY <1>6, <1>7 DEF HeldIsThere, HeldHasBudget, There
<1>11. UnusedYet'
  BY <1>1, <1>4, <1>6, AccountsArePresent DEF UnusedYet
<1>12. UsageIsKept'
  <2> SUFFICES ASSUME NEW b \in Accounts \ cut', There(b)'
               PROVE  charged'[b] = accts'[b].used + (IF Unrecorded(b)' THEN 1 ELSE 0)
    BY DEF UsageIsKept
  <2>1. CASE b # a
    <3>1. Unrecorded(b)' <=> Unrecorded(b)
      <4>1. ~Holds(c, b)
        BY <1>2, <2>1 DEF Holds
      <4> QED
        BY <1>6, <1>7, <4>1 DEF Unrecorded
    <3> QED
      BY <1>1, <1>6, <2>1, <3>1 DEF UsageIsKept, There
  <2>2. CASE b = a
    <3>1. ~Unrecorded(b)'
      BY <1>7, <2>2 DEF Unrecorded
    <3>2. Unrecorded(a) <=> call[c].outcome \in {"success", "rate_limited"}
      BY <1>1, <1>2 DEF Unrecorded, ExclusiveUse
    <3>3. charged[a] = accts[a].used + (IF Unrecorded(a) THEN 1 ELSE 0) /\ accts[a].used \in Nat
      BY <1>1, <1>3, <2>2 DEF UsageIsKept, There, Account
    <3> QED
      BY <1>1, <1>4, <1>6, <2>2, <3>1, <3>2, <3>3 DEF Paid
  <2> QED
    BY <2>1, <2>2
<1>13. BegunBefore'
  BY <1>1, <1>2, <1>5, <1>6 DEF BegunBefore, Trying
<1>14. HeldIsTried'
  BY <1>6, <1>7 DEF HeldIsTried
<1>15. TriedSince'
  <2> SUFFICES ASSUME NEW d \in Callers, Trying(d)', NEW b \in call'[d].tried
               PROVE  UsedSince(d, b)'
    BY DEF TriedSince
  <2>1. Trying(d) /\ b \in call[d].tried /\ call'[d].begun = call[d].begun /\ b \in Accounts
    BY <1>2, <1>5, <1>6, CallTypes DEF Trying
  <2>2. UsedSince(d, b)
    BY <2>1 DEF TriedSince
  <2>3. \A e \in Callers : Holds(e, b)' => Holds(e, b) /\ call'[e].tick = call[e].tick
    BY <1>6, <1>7, <2>1
  <2>4. CASE b # a
    <3>1. Holds(d, b)' <=> Holds(d, b)
      BY <1>2, <1>7, <2>1, <2>4 DEF Holds
    <3> QED
      BY <1>6, <2>1, <2>2, <2>3, <2>4, <3>1 DEF UsedSince, There
  <2>5. CASE b = a
    <3>1. call[d].begun < tick
      BY <1>2, <1>7, <2>2, <2>5 DEF UsedSince, tick
    <3>2. \A e \in Callers : ~Holds(e, b)'
      BY <1>7, <2>1, <2>5
    <3> QED
      BY <1>4, <1>6, <2>1, <2>5, <3>1, <3>2, AccountsArePresent DEF UsedSince
  <2> QED
    BY <2>4, <2>5
<1>16. ASSUME NEW b \in Accounts, There(b), accts'[b].used > accts[b].used
       PROVE  accts'[b].monthly = 0 \/ accts'[b].used + Margin <= accts'[b].monthly
  <2>1. accts[b].used \in Nat
    BY <1>16 DEF There, Account
  <2>2. b = a
    BY <1>6, <1>16, <2>1
  <2>3. row.used <= accts[a].used + 1 /\ accts[a].monthly \in Nat /\ row.used \in Nat
    BY <1>3, <1>4 DEF Paid, Account
  <2> QED
    BY <1>3, <1>4, <1>6, <2>1, <2>2, <2>3, FirecrawlPoolAssumption DEF HasBudget
<1> QED
  BY <1>8, <1>9, <1>10, <1>11, <1>12, <1>13, <1>14, <1>15, <1>16

(***************************************************************************)
(* What the user's handlers and time do to a row.  None of it changes what *)
(* was used or when, and a locked row keeps its limit.                     *)
(***************************************************************************)

LEMMA ChangeKeepsPool ==
    ASSUME PoolInv, NEW a \in Accounts, There(a), NEW row \in Account,
           accts' = [accts EXCEPT ![a] = row],
           row.used = accts[a].used, row.last = accts[a].last,
           Locked(a) => row.monthly = accts[a].monthly,
           adm' \in [Admins -> Writing \union {Idle}],
           UNCHANGED <<call, clock, charged, cut>>
    PROVE  PoolInv'
<1> USE DEF PoolInv
<1>1. /\ accts'[a] = row
      /\ \A b \in Accounts \ {a} : accts'[b] = accts[b]
      /\ \A b \in Accounts : There(b)' <=> There(b)
      /\ row # Absent /\ accts[a] # Absent
  BY AccountsArePresent DEF PoolTypeOK, There
<1>2. /\ \A c \in Callers, b \in Accounts : Holds(c, b)' <=> Holds(c, b)
      /\ \A c \in Callers : Trying(c)' <=> Trying(c)
      /\ \A b \in Accounts : Unrecorded(b)' <=> Unrecorded(b)
  BY DEF Holds, Trying, Unrecorded
<1>3. PoolTypeOK'
  BY DEF PoolTypeOK, Rows
<1>4. ExclusiveUse' /\ HeldIsThere' /\ UnusedYet'
  BY <1>1, <1>2 DEF ExclusiveUse, HeldIsThere, UnusedYet
<1>5. HeldHasBudget'
  <2> SUFFICES ASSUME NEW c \in Callers, NEW b \in Accounts, Holds(c, b)'
               PROVE  HasBudget(accts'[b])
    BY DEF HeldHasBudget, HasBudget
  <2>1. HasBudget(accts[b]) /\ Locked(b)
    BY <1>2 DEF HeldHasBudget, Locked
  <2> QED
    BY <1>1, <2>1 DEF HasBudget
<1>6. UsageIsKept'
  BY <1>1, <1>2 DEF UsageIsKept
<1>7. BegunBefore' /\ HeldIsTried'
  BY <1>2 DEF BegunBefore, HeldIsTried
<1>8. TriedSince'
  <2> SUFFICES ASSUME NEW d \in Callers, Trying(d)', NEW b \in call'[d].tried
               PROVE  UsedSince(d, b)'
    BY DEF TriedSince
  <2>1. Trying(d) /\ b \in call[d].tried /\ b \in Accounts
    BY <1>2, CallTypes
  <2>2. UsedSince(d, b)
    BY <2>1 DEF TriedSince
  <2> QED
    BY <1>1, <1>2, <2>1, <2>2 DEF UsedSince
<1> QED
  BY <1>3, <1>4, <1>5, <1>6, <1>7, <1>8

LEMMA CreateKeepsPool ==
    ASSUME PoolInv, NEW a \in Accounts, NEW p \in Priorities, NEW m \in Monthlies,
           CreateAccount(a, p, m)
    PROVE  PoolInv'
<1> USE DEF PoolInv
<1> DEFINE row == NewAccount(p, m)
<1>1. /\ accts[a] = Absent
      /\ accts' = [accts EXCEPT ![a] = row]
      /\ UNCHANGED <<call, adm, clock, charged, cut>>
  BY DEF CreateAccount
<1>2. row \in Account /\ row.used = 0
  <2>1. 0 \in 0 .. MaxFailures /\ p \in Nat /\ m \in Nat
    BY FirecrawlPoolAssumption
  <2> QED
    BY <2>1 DEF NewAccount, Account, AccountStatuses
<1> HIDE DEF row
<1>3. /\ accts'[a] = row /\ ~There(a) /\ row # Absent
      /\ \A b \in Accounts \ {a} : accts'[b] = accts[b]
  BY <1>1, <1>2, AccountsArePresent DEF PoolTypeOK, There
<1>4. /\ \A c \in Callers, b \in Accounts : Holds(c, b)' <=> Holds(c, b)
      /\ \A c \in Callers : Trying(c)' <=> Trying(c)
      /\ \A b \in Accounts : Unrecorded(b)' <=> Unrecorded(b)
      /\ \A c \in Callers : ~Holds(c, a)
  BY <1>1, <1>3 DEF Holds, Trying, Unrecorded, HeldIsThere
<1>5. PoolTypeOK'
  BY <1>1, <1>2 DEF PoolTypeOK, Rows
<1>6. ExclusiveUse' /\ HeldIsThere' /\ HeldHasBudget' /\ UnusedYet'
  BY <1>1, <1>3, <1>4 DEF ExclusiveUse, HeldIsThere, HeldHasBudget, UnusedYet, There
<1>7. UsageIsKept'
  <2>1. ~Unrecorded(a)
    BY <1>4 DEF Unrecorded
  <2>2. charged[a] = 0
    BY <1>1 DEF UnusedYet
  <2> QED
    BY <1>1, <1>2, <1>3, <1>4, <2>1, <2>2 DEF UsageIsKept, There
<1>8. BegunBefore' /\ HeldIsTried'
  BY <1>1, <1>4 DEF BegunBefore, HeldIsTried
<1>9. TriedSince'
  <2> SUFFICES ASSUME NEW d \in Callers, Trying(d)', NEW b \in call'[d].tried
               PROVE  UsedSince(d, b)'
    BY DEF TriedSince
  <2>1. Trying(d) /\ b \in call[d].tried /\ b \in Accounts
    BY <1>1, <1>4, CallTypes
  <2>2. UsedSince(d, b)
    BY <2>1 DEF TriedSince
  <2>3. b # a
    BY <1>1, <2>2 DEF UsedSince
  <2> QED
    BY <1>1, <1>3, <1>4, <2>1, <2>2, <2>3 DEF UsedSince, There
<1> QED
  BY <1>5, <1>6, <1>7, <1>8, <1>9

LEMMA DeleteKeepsPool ==
    ASSUME PoolInv, NEW a \in Accounts, DeleteAccount(a)
    PROVE  PoolInv'
<1> USE DEF PoolInv
<1>1. /\ There(a) /\ ~Locked(a)
      /\ accts' = [accts EXCEPT ![a] = Deleted]
      /\ charged' = [charged EXCEPT ![a] = 0]
      /\ cut' = cut \ {a}
      /\ UNCHANGED <<call, adm, clock>>
  BY DEF DeleteAccount
<1>2. Deleted # Absent /\ Deleted \notin Account
  BY AccountsArePresent DEF Deleted, Absent
<1>3. /\ accts'[a] = Deleted /\ charged'[a] = 0
      /\ \A b \in Accounts \ {a} : accts'[b] = accts[b] /\ charged'[b] = charged[b]
  BY <1>1 DEF PoolTypeOK
<1>4. /\ \A c \in Callers, b \in Accounts : Holds(c, b)' <=> Holds(c, b)
      /\ \A c \in Callers : Trying(c)' <=> Trying(c)
      /\ \A b \in Accounts : Unrecorded(b)' <=> Unrecorded(b)
      /\ \A c \in Callers : ~Holds(c, a)
  BY <1>1 DEF Holds, Trying, Unrecorded, Locked
<1>5. PoolTypeOK'
  BY <1>1 DEF PoolTypeOK, Rows
<1>6. ExclusiveUse' /\ HeldIsThere' /\ HeldHasBudget' /\ UnusedYet'
  BY <1>2, <1>3, <1>4 DEF ExclusiveUse, HeldIsThere, HeldHasBudget, UnusedYet, There
<1>7. UsageIsKept'
  BY <1>1, <1>2, <1>3, <1>4 DEF UsageIsKept, There
<1>8. BegunBefore' /\ HeldIsTried'
  BY <1>1, <1>4 DEF BegunBefore, HeldIsTried
<1>9. TriedSince'
  <2> SUFFICES ASSUME NEW d \in Callers, Trying(d)', NEW b \in call'[d].tried
               PROVE  UsedSince(d, b)'
    BY DEF TriedSince
  <2>1. Trying(d) /\ b \in call[d].tried /\ b \in Accounts
    BY <1>1, <1>4, CallTypes
  <2>2. UsedSince(d, b)
    BY <2>1 DEF TriedSince
  <2> QED
    BY <1>1, <1>2, <1>3, <1>4, <2>1, <2>2 DEF UsedSince, There
<1> QED
  BY <1>5, <1>6, <1>7, <1>8, <1>9

LEMMA CoolDownKeepsPool ==
    ASSUME PoolInv, NEW a \in Accounts, CoolDown(a)
    PROVE  PoolInv'
<1> DEFINE row == [accts[a] EXCEPT !.cooling = "over"]
<1>1. /\ There(a) /\ accts' = [accts EXCEPT ![a] = row]
      /\ UNCHANGED <<call, adm, clock, charged, cut>>
  BY DEF CoolDown, PoolInv, PoolTypeOK
<1>2. /\ row \in Account
      /\ row.used = accts[a].used /\ row.last = accts[a].last
      /\ row.monthly = accts[a].monthly
  BY <1>1 DEF There, Account
<1>3. adm' \in [Admins -> Writing \union {Idle}]
  BY <1>1 DEF PoolInv, PoolTypeOK
<1> HIDE DEF row
<1> QED
  BY <1>1, <1>2, <1>3, ChangeKeepsPool

LEMMA AdministerKeepsPool ==
    ASSUME PoolInv, Administer
    PROVE  PoolInv'
<1>1. ASSUME NEW a \in Accounts, NEW p \in Priorities, NEW m \in Monthlies,
             CreateAccount(a, p, m)
      PROVE  PoolInv'
  BY <1>1, CreateKeepsPool
<1>2. ASSUME NEW a \in Accounts, ChangeAccount(a)
      PROVE  PoolInv'
  <2>1. PICK new \in Changes(accts[a]) :
          accts' = [accts EXCEPT ![a] = NetChange(accts[a], accts[a], new)]
    BY <1>2 DEF ChangeAccount, PoolInv, PoolTypeOK
  <2>2. /\ accts[a] \in Account /\ There(a) /\ ~Locked(a)
        /\ UNCHANGED <<call, adm, clock, charged, cut>>
    BY <1>2 DEF ChangeAccount, There
  <2> DEFINE row == NetChange(accts[a], accts[a], new)
  <2>3. row \in Account /\ row.used = accts[a].used /\ row.last = accts[a].last
    BY <2>2, ChangedRow, WrittenRow
  <2>4. adm' \in [Admins -> Writing \union {Idle}]
    BY <2>2 DEF PoolInv, PoolTypeOK
  <2>5. accts' = [accts EXCEPT ![a] = row]
    BY <2>1
  <2> HIDE DEF row
  <2> QED
    BY <2>2, <2>3, <2>4, <2>5, ChangeKeepsPool
<1>3. ASSUME NEW t \in Admins, NEW a \in Accounts, WaitForAccount(t, a)
      PROVE  PoolInv'
  <2>1. PICK new \in Changes(accts[a]) :
          adm' = [adm EXCEPT ![t] = [pc |-> "write", acct |-> a, was |-> accts[a], new |-> new]]
    BY <1>3 DEF WaitForAccount
  <2>2. /\ accts[a] \in Account /\ There(a)
        /\ UNCHANGED <<accts, call, clock, charged, cut>>
    BY <1>3 DEF WaitForAccount, There
  <2>3. adm' \in [Admins -> Writing \union {Idle}]
    BY <2>1, <2>2, ChangedRow DEF PoolInv, PoolTypeOK, Writing
  <2>4. accts' = [accts EXCEPT ![a] = accts[a]]
    BY <2>2 DEF PoolInv, PoolTypeOK
  <2> QED
    BY <2>2, <2>3, <2>4, ChangeKeepsPool
<1>4. ASSUME NEW t \in Admins, WriteAccount(t)
      PROVE  PoolInv'
  <2> DEFINE a == adm[t].acct
  <2>1. /\ adm[t].pc = "write" /\ ~Locked(a)
        /\ accts' = IF There(a)
                    THEN [accts EXCEPT ![a] = NetChange(accts[a], adm[t].was, adm[t].new)]
                    ELSE accts
        /\ adm' = [adm EXCEPT ![t] = Idle]
        /\ UNCHANGED <<call, clock, charged, cut>>
    BY <1>4 DEF WriteAccount, PoolInv, PoolTypeOK
  <2>2. a \in Accounts /\ adm[t].was \in Account /\ adm[t].new \in Account
    BY <2>1 DEF PoolInv, PoolTypeOK, Writing, Idle
  <2>3. adm' \in [Admins -> Writing \union {Idle}]
    BY <2>1 DEF PoolInv, PoolTypeOK
  <2>4. PICK b \in Accounts : b = a
    BY <2>2
  <2>5. CASE There(b)
    <3> DEFINE row == NetChange(accts[b], adm[t].was, adm[t].new)
    <3>1. row \in Account /\ row.used = accts[b].used /\ row.last = accts[b].last
      BY <2>2, <2>5, WrittenRow DEF There
    <3>2. accts' = [accts EXCEPT ![b] = row] /\ ~Locked(b)
      BY <2>1, <2>4, <2>5
    <3> HIDE DEF row, a
    <3> QED
      BY <2>1, <2>3, <2>5, <3>1, <3>2, ChangeKeepsPool
  <2>6. CASE ~There(b)
    <3>1. UNCHANGED <<accts, call, clock, charged, cut>>
      BY <2>1, <2>4, <2>6
    <3> QED
      BY <2>3, <3>1 DEF PoolInv, PoolTypeOK, ExclusiveUse, HeldIsThere, HeldHasBudget, UnusedYet,
         UsageIsKept, Unrecorded, BegunBefore, HeldIsTried, TriedSince, UsedSince, Trying, Holds,
         There
  <2> QED
    BY <2>5, <2>6
<1>5. ASSUME NEW a \in Accounts, DeleteAccount(a)
      PROVE  PoolInv'
  BY <1>5, DeleteKeepsPool
<1> QED
  BY <1>1, <1>2, <1>3, <1>4, <1>5 DEF Administer

LEMMA KillKeepsPool ==
    ASSUME PoolInv, KillCalls
    PROVE  PoolInv'
<1> USE DEF PoolInv
<1>1. /\ call' = [c \in Callers |-> Idle]
      /\ adm' = [t \in Admins |-> Idle]
      /\ cut' = cut \union {a \in Accounts : \E c \in Callers :
                               call[c].pc = "record" /\ call[c].acct = a}
      /\ UNCHANGED <<accts, clock, charged>>
  BY DEF KillCalls
<1>2. \A c \in Callers : call'[c].pc = "idle"
  BY <1>1 DEF Idle
<1>3. /\ \A c \in Callers, a \in Accounts : ~Holds(c, a)'
      /\ \A c \in Callers : ~Trying(c)'
      /\ \A a \in Accounts : ~Unrecorded(a)'
  BY <1>2 DEF Holds, Trying, Unrecorded
<1>4. PoolTypeOK'
  BY <1>1 DEF PoolTypeOK
<1>5. ExclusiveUse' /\ HeldIsThere' /\ HeldHasBudget' /\ UnusedYet'
  BY <1>1, <1>3 DEF ExclusiveUse, HeldIsThere, HeldHasBudget, UnusedYet
<1>6. UsageIsKept'
  <2>1. \A a \in Accounts \ cut' : ~Unrecorded(a)
    BY <1>1 DEF Unrecorded, Holds
  <2> QED
    BY <1>1, <1>3, <2>1 DEF UsageIsKept, There
<1>7. BegunBefore' /\ HeldIsTried' /\ TriedSince'
  BY <1>3 DEF BegunBefore, HeldIsTried, TriedSince
<1> QED
  BY <1>4, <1>5, <1>6, <1>7

-----------------------------------------------------------------------------
(***************************************************************************)
(* The handlers.  Of a job that no two enrichments have shared, the one    *)
(* under way has read the length the description still has.                *)
(***************************************************************************)
OneEnricher ==
    \A j \in Jobs \ crossed, b, c \in Callers : Enriches(b, j) /\ Enriches(c, j) => b = c

LengthIsCurrent ==
    \A j \in Jobs \ crossed, c \in Callers :
        Enriches(c, j) /\ Listed(j) => want[c].before = text[j].length

TextTypeOK ==
    /\ text \in [Jobs -> Text \union {Removed}]
    /\ want \in [Callers -> Wanted \union {Idle}]
    /\ \A c \in Callers : want[c] = Idle <=> call[c] = Idle
    /\ crossed \subseteq Jobs

EnrichInv == PoolInv /\ TextTypeOK /\ OneEnricher /\ LengthIsCurrent

LEMMA Texts ==
    /\ \A t \in Text : t # Removed
    /\ \A w \in Wanted : w # Idle
    /\ Idle.pc = "idle"
BY DEF Text, Removed, Wanted, Idle

LEMMA AttemptMovesOneCall ==
    ASSUME PoolInv, NEW c \in Callers, Attempt(c)
    PROVE  /\ PoolInv'
           /\ call[c] # Idle /\ call'[c] # Idle
           /\ \A d \in Callers \ {c} : call'[d] = call[d]
<1>1. ASSUME NEW a \in Accounts, Acquire(c, a)
      PROVE  /\ call[c].pc = "acquire" /\ call'[c].pc = "post"
             /\ \A d \in Callers \ {c} : call'[d] = call[d]
  BY <1>1 DEF Acquire, PoolInv, PoolTypeOK
<1>2. ASSUME FallBack(c)
      PROVE  /\ call[c].pc = "acquire" /\ call'[c].pc = "env"
             /\ \A d \in Callers \ {c} : call'[d] = call[d]
  BY <1>2 DEF FallBack, PoolInv, PoolTypeOK
<1>3. ASSUME EnvAnswers(c)
      PROVE  /\ call[c].pc = "env" /\ call'[c].pc = "done"
             /\ \A d \in Callers \ {c} : call'[d] = call[d]
  BY <1>3 DEF EnvAnswers, Done, PoolInv, PoolTypeOK
<1>4. ASSUME NEW outcome \in Outcomes, Post(c, outcome)
      PROVE  /\ call[c].pc = "post" /\ call'[c].pc = "record"
             /\ \A d \in Callers \ {c} : call'[d] = call[d]
  BY <1>4 DEF Post, PoolInv, PoolTypeOK
<1>5. ASSUME Record(c)
      PROVE  /\ call[c].pc = "record" /\ call'[c].pc \in {"acquire", "done"}
             /\ \A d \in Callers \ {c} : call'[d] = call[d]
  <2>1. call[c].pc = "record" /\ call' = [call EXCEPT ![c] = After(call[c])]
    BY <1>5 DEF Record, PoolInv, PoolTypeOK
  <2>2. After(call[c]).pc \in {"acquire", "done"}
    BY <2>1, AfterAttempt DEF PoolInv
  <2> QED
    BY <2>1, <2>2 DEF PoolInv, PoolTypeOK
<1>6. ASSUME Escape(c)
      PROVE  /\ call[c].pc = "post" /\ call'[c].pc = "done"
             /\ \A d \in Callers \ {c} : call'[d] = call[d]
  BY <1>6 DEF Escape, Done, PoolInv, PoolTypeOK
<1>7. PoolInv'
  BY AcquireKeepsPool, FallBackKeepsPool, EnvKeepsPool, PostKeepsPool, EscapeKeepsPool,
     RecordKeepsPool DEF Attempt
<1> QED
  BY <1>1, <1>2, <1>3, <1>4, <1>5, <1>6, <1>7, Texts DEF Attempt

LEMMA AttemptKeepsTexts ==
    ASSUME EnrichInv, NEW c \in Callers, Attempt(c), UNCHANGED <<text, want, crossed>>
    PROVE  EnrichInv'
<1> USE DEF EnrichInv
<1>1. /\ PoolInv'
      /\ call[c] # Idle /\ call'[c] # Idle
      /\ \A d \in Callers \ {c} : call'[d] = call[d]
  BY AttemptMovesOneCall
<1>2. TextTypeOK'
  BY <1>1 DEF TextTypeOK
<1>3. OneEnricher' /\ LengthIsCurrent'
  BY DEF OneEnricher, LengthIsCurrent, Enriches, Listed
<1> QED
  BY <1>1, <1>2, <1>3

LEMMA BeginKeepsTexts ==
    ASSUME EnrichInv, NEW c \in Callers,
           BeginPage(c) \/ \E j \in Jobs : BeginEnrich(c, j)
    PROVE  EnrichInv'
<1> USE DEF EnrichInv
<1>1. BeginCall(c) /\ text' = text
  BY DEF BeginPage, BeginEnrich
<1>2. /\ call[c] = Idle /\ call'[c] # Idle /\ want[c] = Idle
      /\ \A d \in Callers \ {c} : call'[d] = call[d]
  <2>1. /\ call[c] = Idle /\ call'[c].pc = "acquire"
        /\ \A d \in Callers \ {c} : call'[d] = call[d]
    BY <1>1 DEF BeginCall, PoolInv, PoolTypeOK
  <2> QED
    BY <2>1, Texts DEF TextTypeOK
<1>3. PoolInv'
  BY <1>1, BeginKeepsPool
<1>4. CASE BeginPage(c)
  <2> DEFINE new == [job |-> "page"]
  <2>1. /\ want' = [want EXCEPT ![c] = new]
        /\ crossed' = crossed
    BY <1>4 DEF BeginPage
  <2>2. new \in Wanted /\ new.job = "page"
    BY DEF Wanted
  <2> HIDE DEF new
  <2>3. /\ want'[c] = new /\ new # Idle
        /\ \A d \in Callers \ {c} : want'[d] = want[d]
    BY <2>1, <2>2, Texts DEF TextTypeOK
  <2>4. \A d \in Callers, j \in Jobs : Enriches(d, j)' <=> Enriches(d, j)
    BY <1>2, <2>2, <2>3, EnrichmentAssumption DEF Enriches
  <2>5. TextTypeOK'
    BY <1>1, <1>2, <2>1, <2>2, <2>3 DEF TextTypeOK
  <2>6. OneEnricher' /\ LengthIsCurrent'
    BY <1>1, <1>2, <2>1, <2>3, <2>4 DEF OneEnricher, LengthIsCurrent, Listed, Enriches
  <2> QED
    BY <1>3, <2>5, <2>6
<1>5. ASSUME NEW j \in Jobs, BeginEnrich(c, j)
      PROVE  EnrichInv'
  <2> DEFINE new == [job |-> j, before |-> text[j].length]
  <2>1. /\ Listed(j)
        /\ want' = [want EXCEPT ![c] = new]
        /\ crossed' = IF \E b \in Callers : Enriches(b, j) THEN crossed \union {j} ELSE crossed
    BY <1>5 DEF BeginEnrich
  <2>2. new \in Wanted /\ new.job = j /\ new.before = text[j].length
    <3>1. text[j].length \in Lengths
      BY <2>1 DEF TextTypeOK, Listed, Text
    <3> QED
      BY <3>1 DEF Wanted
  <2> HIDE DEF new
  <2>3. /\ want'[c] = new /\ new # Idle
        /\ \A d \in Callers \ {c} : want'[d] = want[d]
    BY <2>1, <2>2, Texts DEF TextTypeOK
  <2>4. /\ \A d \in Callers \ {c}, i \in Jobs : Enriches(d, i)' <=> Enriches(d, i)
        /\ \A i \in Jobs : Enriches(c, i)' <=> i = j
        /\ \A i \in Jobs : ~Enriches(c, i)
    BY <1>2, <2>2, <2>3 DEF Enriches
  <2>5. TextTypeOK'
    BY <1>1, <1>2, <2>1, <2>2, <2>3 DEF TextTypeOK
  <2>6. OneEnricher'
    BY <2>1, <2>4 DEF OneEnricher
  <2>7. LengthIsCurrent'
    BY <1>1, <2>1, <2>2, <2>3, <2>4 DEF LengthIsCurrent, Listed
  <2> QED
    BY <1>3, <2>5, <2>6, <2>7
<1> QED
  BY <1>4, <1>5

LEMMA FinishKeepsTexts ==
    ASSUME EnrichInv, NEW c \in Callers, NEW length \in Lengths \union {0}, Finish(c, length)
    PROVE  /\ EnrichInv'
           /\ \A j \in Jobs \ crossed :
                 Listed(j) /\ text'[j] # text[j] => text'[j].length > text[j].length
<1> USE DEF EnrichInv
<1> DEFINE job == want[c].job
           new == [length |-> length, source |-> "firecrawl_enriched"]
           Writes == job # "page" /\ Listed(job) /\ Longer(length, want[c].before)
<1>1. /\ call[c].pc = "done"
      /\ text' = IF Writes THEN [text EXCEPT ![job] = new] ELSE text
      /\ call' = [call EXCEPT ![c] = Idle]
      /\ want' = [want EXCEPT ![c] = Idle]
      /\ UNCHANGED <<accts, adm, clock, charged, cut, crossed>>
  BY DEF Finish
<1>2. PoolInv'
  BY <1>1, EndKeepsPool
<1>3. /\ call'[c] = Idle /\ want'[c] = Idle /\ call[c] # Idle /\ want[c] \in Wanted
      /\ \A d \in Callers \ {c} : call'[d] = call[d] /\ want'[d] = want[d]
  BY <1>1, Texts DEF TextTypeOK, PoolInv, PoolTypeOK
<1>4. /\ \A d \in Callers \ {c}, j \in Jobs : Enriches(d, j)' <=> Enriches(d, j)
      /\ \A j \in Jobs : ~Enriches(c, j)'
  BY <1>3 DEF Enriches
<1>5. Writes => /\ job \in Jobs /\ new \in Text /\ new.length = length /\ Enriches(c, job)
                /\ length \in Nat /\ length > want[c].before
  <2>1. ASSUME Writes
        PROVE  /\ job \in Jobs /\ want[c].before \in Lengths
               /\ length > want[c].before /\ want[c] # Idle
    <3>1. job # "page" /\ Longer(length, want[c].before)
      BY <2>1
    <3>2. want[c] \in [job: Jobs, before: Lengths]
      BY <1>3, <3>1 DEF Wanted
    <3> QED
      BY <1>3, <3>1, <3>2, Texts DEF Longer
  <2>2. ASSUME Writes
        PROVE  length \in Lengths
    <3>1. want[c].before \in Nat /\ length > want[c].before
      BY <2>1, <2>2, EnrichmentAssumption
    <3>2. length # 0
      BY <3>1
    <3> QED
      BY <3>2
  <2> QED
    BY <2>1, <2>2, EnrichmentAssumption DEF Text, Enriches
<1> HIDE DEF new, Writes
<1>6. TextTypeOK'
  BY <1>1, <1>3, <1>5 DEF TextTypeOK
<1>7. \A j \in Jobs : text'[j] = text[j] \/ (Writes /\ j = job /\ text'[j] = new)
  BY <1>1, <1>5 DEF TextTypeOK
<1>8. OneEnricher'
  BY <1>1, <1>4 DEF OneEnricher
<1>9. LengthIsCurrent'
  <2> SUFFICES ASSUME NEW j \in Jobs \ crossed, NEW d \in Callers, Enriches(d, j)', Listed(j)'
               PROVE  want'[d].before = text'[j].length
    BY <1>1 DEF LengthIsCurrent
  <2>1. d # c /\ Enriches(d, j) /\ want'[d] = want[d]
    BY <1>3, <1>4
  <2>2. text'[j] = text[j]
    BY <1>5, <1>7, <2>1 DEF OneEnricher
  <2> QED
    BY <2>1, <2>2 DEF LengthIsCurrent, Listed
<1>10. ASSUME NEW j \in Jobs \ crossed, Listed(j), text'[j] # text[j]
       PROVE  text'[j].length > text[j].length
  <2>1. Writes /\ j = job /\ text'[j] = new
    BY <1>7, <1>10
  <2>2. want[c].before = text[j].length
    BY <1>5, <1>10, <2>1 DEF LengthIsCurrent
  <2> QED
    BY <1>5, <2>1, <2>2
<1> QED
  BY <1>2, <1>6, <1>8, <1>9, <1>10

\* Steps of nobody's handler of these.
LEMMA ElsewhereKeepsTexts ==
    ASSUME EnrichInv, Elsewhere \/ Restart
    PROVE  EnrichInv'
<1> USE DEF EnrichInv
<1>1. CASE (\E a \in Accounts : CoolDown(a)) /\ UNCHANGED <<text, want, crossed>>
  <2>1. PoolInv' /\ call' = call
    BY <1>1, CoolDownKeepsPool DEF CoolDown
  <2> QED
    BY <1>1, <2>1 DEF TextTypeOK, OneEnricher, LengthIsCurrent, Enriches, Listed
<1>2. CASE Administer /\ UNCHANGED <<text, want, crossed>>
  <2>1. PoolInv' /\ call' = call
    BY <1>2, AdministerKeepsPool
    DEF Administer, CreateAccount, ChangeAccount, WaitForAccount, WriteAccount, DeleteAccount
  <2> QED
    BY <1>2, <2>1 DEF TextTypeOK, OneEnricher, LengthIsCurrent, Enriches, Listed
<1>3. ASSUME NEW j \in Jobs, DeleteJob(j)
      PROVE  EnrichInv'
  <2>1. /\ text' = [text EXCEPT ![j] = Removed]
        /\ UNCHANGED <<accts, call, adm, clock, charged, cut, want, crossed>>
    BY <1>3 DEF DeleteJob, poolVars
  <2>2. PoolInv'
    BY <2>1 DEF PoolInv, PoolTypeOK, ExclusiveUse, HeldIsThere, HeldHasBudget, UnusedYet,
       UsageIsKept, Unrecorded, BegunBefore, HeldIsTried, TriedSince, UsedSince, Trying, Holds,
       There
  <2>3. /\ text'[j] = Removed
        /\ \A i \in Jobs \ {j} : text'[i] = text[i]
    BY <2>1 DEF TextTypeOK
  <2>4. TextTypeOK'
    BY <2>1 DEF TextTypeOK
  <2>5. OneEnricher' /\ LengthIsCurrent'
    BY <2>1, <2>3 DEF OneEnricher, LengthIsCurrent, Enriches, Listed
  <2> QED
    BY <2>2, <2>4, <2>5
<1>4. CASE Restart
  <2>1. /\ PoolInv' /\ call' = [c \in Callers |-> Idle] /\ want' = [c \in Callers |-> Idle]
        /\ UNCHANGED <<text, crossed>>
    BY <1>4, KillKeepsPool DEF Restart, KillCalls
  <2>2. \A c \in Callers : want'[c] = Idle /\ call'[c] = Idle
    BY <2>1
  <2>3. TextTypeOK'
    BY <2>1, <2>2 DEF TextTypeOK
  <2>4. OneEnricher' /\ LengthIsCurrent'
    BY <2>2 DEF OneEnricher, LengthIsCurrent, Enriches
  <2> QED
    BY <2>1, <2>3, <2>4
<1> QED
  BY <1>1, <1>2, <1>3, <1>4 DEF Elsewhere

-----------------------------------------------------------------------------
(***************************************************************************)
(* The theorems.                                                           *)
(***************************************************************************)

LEMMA InitHolds == Init => EnrichInv
<1> SUFFICES ASSUME Init
             PROVE  EnrichInv
  OBVIOUS
<1> USE DEF Init, PoolInit
<1>1. \A c \in Callers : call[c] = Idle /\ want[c] = Idle /\ call[c].pc = "idle"
  BY Texts
<1>2. PoolTypeOK
  BY DEF PoolTypeOK, Rows
<1>3. /\ \A c \in Callers, a \in Accounts : ~Holds(c, a)
      /\ \A c \in Callers : ~Trying(c)
      /\ \A a \in Accounts : ~There(a)
  BY <1>1, AccountsArePresent DEF Holds, Trying, There
<1>4. PoolInv
  BY <1>2, <1>3 DEF PoolInv, ExclusiveUse, HeldIsThere, HeldHasBudget, UnusedYet, UsageIsKept,
     BegunBefore, HeldIsTried, TriedSince
<1>5. TextTypeOK
  BY <1>1 DEF TextTypeOK, Text
<1>6. OneEnricher /\ LengthIsCurrent
  BY <1>1 DEF OneEnricher, LengthIsCurrent, Enriches
<1> QED
  BY <1>4, <1>5, <1>6 DEF EnrichInv

LEMMA NextHolds == EnrichInv /\ [Next]_vars => EnrichInv'
<1> SUFFICES ASSUME EnrichInv, [Next]_vars
             PROVE  EnrichInv'
  OBVIOUS
<1>1. ASSUME NEW c \in Callers, Caller(c)
      PROVE  EnrichInv'
  BY <1>1, BeginKeepsTexts, AttemptKeepsTexts, FinishKeepsTexts DEF Caller
<1>2. CASE Elsewhere \/ Restart
  BY <1>2, ElsewhereKeepsTexts
<1>3. CASE UNCHANGED vars
  BY <1>3 DEF vars, EnrichInv, TextTypeOK, OneEnricher, LengthIsCurrent, Enriches, Listed,
     PoolInv, PoolTypeOK, ExclusiveUse, HeldIsThere, HeldHasBudget, UnusedYet, UsageIsKept,
     Unrecorded, BegunBefore, HeldIsTried, TriedSince, UsedSince, Trying, Holds, There
<1> QED
  BY <1>1, <1>2, <1>3 DEF Next

(***************************************************************************)
(* The inductive invariant of Enrichment and the pool of accounts.         *)
(***************************************************************************)
THEOREM EnrichInvariant == Spec => []EnrichInv
BY InitHolds, NextHolds, PTL DEF Spec

(***************************************************************************)
(* Type correctness of Enrichment and FirecrawlPool.                       *)
(***************************************************************************)
THEOREM EnrichTyping == Spec => []TypeOK
<1>1. EnrichInv => TypeOK
  BY DEF EnrichInv, TextTypeOK, PoolInv, TypeOK
<1> QED
  BY <1>1, EnrichInvariant, PTL

(***************************************************************************)
(* acquire_account never gives one account to two calls.                   *)
(***************************************************************************)
THEOREM OneCallPerAccount == Spec => []ExclusiveUse
<1>1. EnrichInv => ExclusiveUse
  BY DEF EnrichInv, PoolInv
<1> QED
  BY <1>1, EnrichInvariant, PTL

(***************************************************************************)
(* credits_used is what the account's server was paid, whatever the user   *)
(* writes meanwhile, but for what a restart or an error has cut off.       *)
(***************************************************************************)
THEOREM PaidIsRecorded == Spec => []UsageIsKept
<1>1. EnrichInv => UsageIsKept
  BY DEF EnrichInv, PoolInv
<1> QED
  BY <1>1, EnrichInvariant, PTL

(***************************************************************************)
(* Whatever is charged to an account leaves SAFETY_MARGIN_CREDITS of its   *)
(* monthly credits, as record_usage writes it.                             *)
(***************************************************************************)
THEOREM MarginIsLeft == Spec => HeadroomKept
<1> DEFINE Step ==
      \A a \in Accounts :
          There(a) /\ accts'[a] \in Account /\ accts'[a].used > accts[a].used =>
              accts'[a].monthly = 0 \/ accts'[a].used + Margin <= accts'[a].monthly
<1>1. ASSUME EnrichInv, [Next]_vars
      PROVE  [Step]_accts
  <2> SUFFICES ASSUME ~(\E c \in Callers : Record(c)),
                      NEW a \in Accounts, There(a), accts'[a] \in Account
               PROVE  ~(accts'[a].used > accts[a].used)
    BY <1>1, RecordKeepsPool DEF EnrichInv
  <2>1. accts[a].used \in Nat
    BY DEF There, Account
  <2> SUFFICES accts'[a].used = accts[a].used
    BY <2>1
  <2> USE <1>1 DEF EnrichInv, PoolInv, PoolTypeOK
  <2>2. ASSUME NEW c \in Callers, Caller(c)
        PROVE  accts'[a].used = accts[a].used
    BY <2>2 DEF Caller, BeginEnrich, BeginPage, BeginCall, Attempt, Acquire, FallBack, EnvAnswers,
       Post, Escape, Finish
  <2>3. ASSUME NEW b \in Accounts, CoolDown(b)
        PROVE  accts'[a].used = accts[a].used
    BY <2>3 DEF CoolDown, There, Account
  <2>4. ASSUME Administer
        PROVE  accts'[a].used = accts[a].used
    <3>1. ASSUME NEW b \in Accounts, NEW p \in Priorities, NEW m \in Monthlies,
                 CreateAccount(b, p, m)
          PROVE  accts'[a] = accts[a]
      <4>1. b # a
        BY <3>1, AccountsArePresent DEF CreateAccount, There
      <4> QED
        BY <3>1, <4>1 DEF CreateAccount
    <3>2. ASSUME NEW b \in Accounts, ChangeAccount(b)
          PROVE  accts'[a].used = accts[a].used
      BY <3>2, ChangedRow, WrittenRow DEF ChangeAccount, There
    <3>3. ASSUME NEW t \in Admins, WriteAccount(t)
          PROVE  accts'[a].used = accts[a].used
      <4>1. adm[t].acct \in Accounts /\ adm[t].was \in Account /\ adm[t].new \in Account
        BY <3>3 DEF WriteAccount, Writing, Idle
      <4> QED
        BY <3>3, <4>1, WrittenRow DEF WriteAccount, There
    <3>4. ASSUME NEW b \in Accounts, DeleteAccount(b)
          PROVE  accts'[a] = accts[a]
      <4>1. Deleted \notin Account
        BY AccountsArePresent
      <4>2. b # a
        BY <3>4, <4>1 DEF DeleteAccount
      <4> QED
        BY <3>4, <4>2 DEF DeleteAccount
    <3>5. ASSUME NEW t \in Admins, NEW b \in Accounts, WaitForAccount(t, b)
          PROVE  accts'[a] = accts[a]
      BY <3>5 DEF WaitForAccount
    <3> QED
      BY <2>4, <3>1, <3>2, <3>3, <3>4, <3>5 DEF Administer
  <2>5. ASSUME Elsewhere \/ Restart \/ UNCHANGED vars
        PROVE  accts'[a].used = accts[a].used
    BY <2>3, <2>4, <2>5 DEF Elsewhere, DeleteJob, poolVars, Restart, KillCalls, vars
  <2> QED
    BY <2>2, <2>5 DEF Next
<1>2. HeadroomKept <=> [][Step]_accts
  BY DEF HeadroomKept
<1> QED
  BY <1>1, <1>2, EnrichInvariant, PTL DEF Spec

(***************************************************************************)
(* A retry of _post_with_pool comes back to an account only when all the   *)
(* others it could have come after it by priority, or were used by other   *)
(* calls meanwhile.                                                        *)
(***************************************************************************)
THEOREM RetriesRotate == Spec => RetryRotates
<1> DEFINE Step ==
      \A c \in Callers, a \in Accounts :
          Acquire(c, a) /\ a \in call[c].tried =>
              \A b \in Available \ call[c].tried :
                  \/ accts[a].priority < accts[b].priority
                  \/ call[c].begun < accts[b].last
<1>1. ASSUME EnrichInv
      PROVE  Step
  <2> SUFFICES ASSUME NEW c \in Callers, NEW a \in Accounts, Acquire(c, a), a \in call[c].tried,
                      NEW b \in Available,
                      ~(accts[a].priority < accts[b].priority)
               PROVE  call[c].begun < accts[b].last
    OBVIOUS
  <2> USE <1>1 DEF EnrichInv, PoolInv
  <2>1. /\ call[c].pc = "acquire" /\ Trying(c) /\ ~Holds(c, a)
        /\ a \in Available /\ Precedes(a, b)
    BY DEF Acquire, Trying, Holds
  <2>2. /\ accts[a].last \in Nat /\ accts[b].last \in Nat
        /\ accts[a].priority \in Nat /\ accts[b].priority \in Nat
        /\ call[c].begun \in Nat /\ There(a)
    BY <2>1, CallTypes DEF Available, There, Account
  <2>3. call[c].begun < accts[a].last
    BY <2>1, <2>2 DEF TriedSince, UsedSince
  <2> QED
    BY <2>1, <2>2, <2>3 DEF Precedes
<1>2. RetryRotates <=> [][Step]_poolVars
  BY DEF RetryRotates
<1> QED
  BY <1>1, <1>2, EnrichInvariant, PTL

(***************************************************************************)
(* enrich_job never shortens a description, for any number of enrichments, *)
(* unless two of the same job overlapped.                                  *)
(***************************************************************************)
THEOREM TextsGrow == Spec => TextGrows
<1> DEFINE Step ==
      \A j \in Jobs \ crossed :
          Listed(j) /\ text'[j] \in Text /\ text'[j] # text[j] =>
              text'[j].length > text[j].length
<1>1. ASSUME EnrichInv, [Next]_vars
      PROVE  [Step]_text
  <2> SUFFICES ASSUME NEW j \in Jobs \ crossed, Listed(j), text'[j] \in Text,
                      text'[j] # text[j]
               PROVE  text'[j].length > text[j].length
    OBVIOUS
  <2>1. ASSUME NEW i \in Jobs, DeleteJob(i)
        PROVE  text'[j] = text[j]
    <3>1. i # j
      BY <1>1, <2>1, Texts DEF DeleteJob, EnrichInv, TextTypeOK
    <3> QED
      BY <1>1, <2>1, <3>1 DEF DeleteJob, EnrichInv, TextTypeOK
  <2>2. PICK c \in Callers, length \in Lengths \union {0} : Finish(c, length)
    BY <1>1, <2>1 DEF Next, Caller, BeginEnrich, BeginPage, Elsewhere, Restart, vars
  <2> QED
    BY <1>1, <2>2, FinishKeepsTexts
<1>2. TextGrows <=> [][Step]_text
  BY DEF TextGrows
<1> QED
  BY <1>1, <1>2, EnrichInvariant, PTL DEF Spec

-----------------------------------------------------------------------------
(***************************************************************************)
(* The pool implements Lease: Acquire takes an account, Record gives it    *)
(* back, a restart breaks all leases off.                                  *)
(***************************************************************************)

\* A step that writes no row, and of a call that has no account before or after it.
LEMMA UnlockedCallLeases ==
    ASSUME PoolInv, NEW c \in Callers, call[c].pc \notin {"post", "record"},
           call'[c].pc \notin {"post", "record"},
           \A d \in Callers \ {c} : call'[d] = call[d],
           UNCHANGED accts
    PROVE  UNCHANGED <<InPool, HeldBy, Usage>>
<1>1. \A d \in Callers, a \in Accounts : Holds(d, a)' <=> Holds(d, a)
  BY DEF Holds
<1> QED
  BY <1>1 DEF InPool, HeldBy, Usage, There

LEMMA TakeLeases ==
    ASSUME PoolInv, NEW c \in Callers, NEW a \in Accounts, Acquire(c, a)
    PROVE  PoolLease!Take(c, a)
<1>1. /\ call[c].pc = "acquire" /\ There(a) /\ ~Locked(a) /\ UNCHANGED accts
      /\ call'[c].pc = "post" /\ call'[c].acct = a
      /\ \A d \in Callers \ {c} : call'[d] = call[d]
  BY DEF Acquire, Available, PoolInv, PoolTypeOK
<1>2. /\ \A d \in Callers : ~Holds(d, a)
      /\ \A d \in Callers : Holds(d, a)' <=> d = c
      /\ \A d \in Callers, b \in Accounts \ {a} : Holds(d, b)' <=> Holds(d, b)
  BY <1>1 DEF Holds, Locked
<1>3. HeldBy[a] = {} /\ HeldBy' = [HeldBy EXCEPT ![a] = {c}]
  BY <1>2 DEF HeldBy
<1>4. a \in InPool /\ UNCHANGED <<InPool, Usage>>
  BY <1>1 DEF InPool, Usage, There
<1> QED
  BY <1>3, <1>4 DEF PoolLease!Take

LEMMA PostLeases ==
    ASSUME PoolInv, NEW c \in Callers, NEW outcome \in Outcomes, Post(c, outcome)
    PROVE  UNCHANGED <<InPool, HeldBy, Usage>>
<1>1. /\ call[c].pc = "post" /\ UNCHANGED accts
      /\ call'[c].pc = "record" /\ call'[c].acct = call[c].acct
      /\ \A d \in Callers \ {c} : call'[d] = call[d]
  BY DEF Post, PoolInv, PoolTypeOK
<1>2. \A d \in Callers, a \in Accounts : Holds(d, a)' <=> Holds(d, a)
  BY <1>1 DEF Holds
<1> QED
  BY <1>1, <1>2 DEF InPool, HeldBy, Usage, There

LEMMA RecordLeases ==
    ASSUME PoolInv, NEW c \in Callers, Record(c)
    PROVE  PoolLease!GiveBack(c)
<1> DEFINE a == call[c].acct
           mid == Touched(accts[a], call[c].tick)
           row == Recorded(mid, call[c].outcome)
<1>1. /\ call[c].pc = "record"
      /\ accts' = [accts EXCEPT ![a] = row]
      /\ call' = [call EXCEPT ![c] = After(call[c])]
  BY DEF Record, PoolInv, PoolTypeOK
<1>2. a \in Accounts /\ Holds(c, a) /\ call[c].tick \in Nat /\ call[c].outcome \in Outcomes
  BY <1>1, CallTypes DEF Holds, PoolInv
<1>3. accts[a] \in Account
  BY <1>2 DEF PoolInv, HeldIsThere, There
<1>4. mid \in Account /\ mid.used = accts[a].used
  BY <1>2, <1>3, TouchedRow
<1>5. row \in Account /\ row.used = accts[a].used + Paid(call[c].outcome)
  <2> HIDE DEF mid, a
  <2> QED
    BY <1>2, <1>4, RecordedRow
<1>6. After(call[c]).pc \in {"acquire", "done"}
  BY <1>1, AfterAttempt DEF PoolInv
<1> HIDE DEF a, row, mid
<1>7. /\ call'[c] = After(call[c])
      /\ \A d \in Callers \ {c} : call'[d] = call[d]
      /\ accts'[a] = row
      /\ \A b \in Accounts \ {a} : accts'[b] = accts[b]
  BY <1>1, <1>2 DEF PoolInv, PoolTypeOK
<1>8. /\ \A d \in Callers, b \in Accounts : Holds(d, b)' <=> Holds(d, b) /\ d # c
      /\ \A b \in Accounts : Holds(c, b) => b = a
  BY <1>6, <1>7 DEF Holds, a
<1>9. HeldBy' = PoolLease!Without({c})
  BY <1>8 DEF HeldBy, PoolLease!Without
<1>10. HeldBy[a] = {c}
  BY <1>2 DEF HeldBy, PoolInv, ExclusiveUse
<1>11. /\ \A b \in Accounts \ {a} : Usage'[b] = Usage[b]
       /\ \A b \in Accounts : Usage[b] \in Nat
  BY <1>7 DEF Usage, There, Account
<1>12. Usage'[a] \in Nat /\ Usage'[a] >= Usage[a]
  <2>1. Usage'[a] = row.used /\ Usage[a] = accts[a].used
    BY <1>2, <1>3, <1>5, <1>7 DEF Usage, There
  <2>2. accts[a].used \in Nat
    BY <1>3 DEF Account
  <2> QED
    BY <1>5, <2>1, <2>2 DEF Paid
<1>13. /\ \A b \in Accounts : Usage'[b] \in Nat /\ Usage'[b] >= Usage[b]
       /\ \A b \in Accounts : Usage'[b] # Usage[b] => HeldBy[b] = {c}
  BY <1>10, <1>11, <1>12
<1>14. Usage' \in [Accounts -> Nat]
  BY <1>13 DEF Usage
<1>15. UNCHANGED InPool
  BY <1>3, <1>5, <1>7 DEF InPool, There
<1> QED
  BY <1>9, <1>13, <1>14, <1>15 DEF PoolLease!GiveBack

\* A row that is written without its usage.
LEMMA RowLeases ==
    ASSUME PoolInv, NEW a \in Accounts, NEW row \in Account, There(a),
           accts' = [accts EXCEPT ![a] = row], UNCHANGED call, row.used = accts[a].used
    PROVE  UNCHANGED <<InPool, HeldBy, Usage>>
<1>1. accts'[a] = row /\ \A b \in Accounts \ {a} : accts'[b] = accts[b]
  BY DEF PoolInv, PoolTypeOK
<1>2. \A b \in Accounts :
        /\ There(b)' <=> There(b)
        /\ (IF There(b) THEN accts[b].used ELSE 0)' = IF There(b) THEN accts[b].used ELSE 0
  BY <1>1 DEF There
<1> QED
  BY <1>2 DEF InPool, HeldBy, Usage, Holds

LEMMA CreateLeases ==
    ASSUME PoolInv, NEW a \in Accounts, NEW p \in Priorities, NEW m \in Monthlies,
           CreateAccount(a, p, m)
    PROVE  PoolLease!Add(a)
<1> DEFINE row == NewAccount(p, m)
<1>1. 0 \in 0 .. MaxFailures /\ p \in Nat /\ m \in Nat
  BY FirecrawlPoolAssumption
<1>2. row \in Account /\ row.used = 0
  BY <1>1 DEF NewAccount, Account, AccountStatuses
<1>3. /\ accts[a] = Absent /\ UNCHANGED call
      /\ accts'[a] = row /\ \A b \in Accounts \ {a} : accts'[b] = accts[b]
  BY DEF CreateAccount, PoolInv, PoolTypeOK
<1> HIDE DEF row
<1>4. ~There(a) /\ There(a)' /\ \A b \in Accounts \ {a} : There(b)' <=> There(b)
  BY <1>2, <1>3, AccountsArePresent DEF There
<1>5. InPool' = InPool \union {a} /\ UNCHANGED HeldBy
  BY <1>3, <1>4 DEF InPool, HeldBy, Holds
<1>6. \A b \in Accounts : (IF There(b) THEN accts[b].used ELSE 0)'
                            = IF There(b) THEN accts[b].used ELSE 0
  BY <1>2, <1>3, <1>4
<1> QED
  BY <1>5, <1>6 DEF PoolLease!Add, Usage

LEMMA AdministerLeases ==
    ASSUME PoolInv, Administer
    PROVE  \/ \E a \in Accounts : PoolLease!Add(a) \/ PoolLease!Remove(a)
           \/ UNCHANGED <<InPool, HeldBy, Usage>>
<1>1. ASSUME NEW a \in Accounts, NEW p \in Priorities, NEW m \in Monthlies,
             CreateAccount(a, p, m)
      PROVE  PoolLease!Add(a)
  BY <1>1, CreateLeases
<1>2. ASSUME NEW a \in Accounts, ChangeAccount(a)
      PROVE  UNCHANGED <<InPool, HeldBy, Usage>>
  <2>1. PICK new \in Changes(accts[a]) :
          accts' = [accts EXCEPT ![a] = NetChange(accts[a], accts[a], new)]
    BY <1>2 DEF ChangeAccount, PoolInv, PoolTypeOK
  <2> DEFINE row == NetChange(accts[a], accts[a], new)
  <2>2. accts[a] \in Account /\ There(a) /\ UNCHANGED call
    BY <1>2 DEF ChangeAccount, There
  <2>3. row \in Account /\ row.used = accts[a].used
    BY <2>2, ChangedRow, WrittenRow
  <2>4. accts' = [accts EXCEPT ![a] = row]
    BY <2>1
  <2> HIDE DEF row
  <2> QED
    BY <2>2, <2>3, <2>4, RowLeases
<1>3. ASSUME NEW t \in Admins, NEW a \in Accounts, WaitForAccount(t, a)
      PROVE  UNCHANGED <<InPool, HeldBy, Usage>>
  BY <1>3 DEF WaitForAccount, InPool, HeldBy, Usage, Holds, There
<1>4. ASSUME NEW t \in Admins, WriteAccount(t)
      PROVE  UNCHANGED <<InPool, HeldBy, Usage>>
  <2>1. adm[t].acct \in Accounts /\ adm[t].was \in Account /\ adm[t].new \in Account
    BY <1>4 DEF WriteAccount, PoolInv, PoolTypeOK, Writing, Idle
  <2>2. PICK a \in Accounts : a = adm[t].acct
    BY <2>1
  <2>3. CASE There(a)
    <3> DEFINE row == NetChange(accts[a], adm[t].was, adm[t].new)
    <3>1. row \in Account /\ row.used = accts[a].used
      BY <2>1, <2>3, WrittenRow DEF There
    <3>2. accts' = [accts EXCEPT ![a] = row] /\ UNCHANGED call
      BY <1>4, <2>2, <2>3 DEF WriteAccount, PoolInv, PoolTypeOK
    <3> HIDE DEF row
    <3> QED
      BY <2>3, <3>1, <3>2, RowLeases
  <2>4. CASE ~There(a)
    BY <1>4, <2>2, <2>4 DEF WriteAccount, InPool, HeldBy, Usage, Holds, There
  <2> QED
    BY <2>3, <2>4
<1>5. ASSUME NEW a \in Accounts, DeleteAccount(a)
      PROVE  PoolLease!Remove(a)
  <2>1. /\ There(a) /\ ~Locked(a) /\ UNCHANGED call
        /\ accts'[a] = Deleted /\ \A b \in Accounts \ {a} : accts'[b] = accts[b]
    BY <1>5 DEF DeleteAccount, PoolInv, PoolTypeOK
  <2>2. HeldBy[a] = {} /\ UNCHANGED HeldBy
    BY <2>1 DEF HeldBy, Locked, Holds
  <2>3. ~There(a)'
    BY <2>1, AccountsArePresent DEF There
  <2>4. a \in InPool /\ InPool' = InPool \ {a}
    BY <2>1, <2>3 DEF InPool, There
  <2>5. /\ Usage'[a] = 0
        /\ \A b \in Accounts \ {a} : Usage'[b] = Usage[b]
    BY <2>1, <2>3 DEF Usage, There
  <2>6. Usage' = [Usage EXCEPT ![a] = 0]
    BY <2>5 DEF Usage
  <2> QED
    BY <2>2, <2>4, <2>6 DEF PoolLease!Remove
<1> QED
  BY <1>1, <1>2, <1>3, <1>4, <1>5 DEF Administer

LEMMA CoolDownLeases ==
    ASSUME PoolInv, NEW a \in Accounts, CoolDown(a)
    PROVE  UNCHANGED <<InPool, HeldBy, Usage>>
<1> DEFINE row == [accts[a] EXCEPT !.cooling = "over"]
<1>1. There(a) /\ accts' = [accts EXCEPT ![a] = row] /\ UNCHANGED call
  BY DEF CoolDown, PoolInv, PoolTypeOK
<1>2. row \in Account /\ row.used = accts[a].used
  BY <1>1 DEF There, Account
<1> HIDE DEF row
<1> QED
  BY <1>1, <1>2, RowLeases

LEMMA KillLeases ==
    ASSUME KillCalls
    PROVE  PoolLease!BreakOff(Callers)
<1>1. UNCHANGED accts /\ \A c \in Callers, a \in Accounts : ~Holds(c, a)'
  BY DEF KillCalls, Holds, Idle
<1>2. HeldBy' = PoolLease!Without(Callers)
  BY <1>1 DEF HeldBy, PoolLease!Without
<1>3. UNCHANGED <<InPool, Usage>>
  BY <1>1 DEF InPool, Usage, There
<1> QED
  BY <1>2, <1>3 DEF PoolLease!BreakOff

LEMMA EscapeLeases ==
    ASSUME PoolInv, NEW c \in Callers, Escape(c)
    PROVE  PoolLease!BreakOff({c})
<1>1. /\ UNCHANGED accts /\ call'[c].pc = "done"
      /\ \A d \in Callers \ {c} : call'[d] = call[d]
  BY DEF Escape, Done, PoolInv, PoolTypeOK
<1>2. \A d \in Callers, a \in Accounts : Holds(d, a)' <=> d # c /\ Holds(d, a)
  BY <1>1 DEF Holds
<1>3. \A a \in Accounts : HeldBy'[a] = HeldBy[a] \ {c}
  BY <1>2 DEF HeldBy
<1>4. HeldBy' = PoolLease!Without({c})
  BY <1>3 DEF HeldBy, PoolLease!Without
<1>5. UNCHANGED <<InPool, Usage>>
  BY <1>1 DEF InPool, Usage, There
<1> QED
  BY <1>4, <1>5 DEF PoolLease!BreakOff

LEMMA LeaseStep ==
    ASSUME EnrichInv, [Next]_vars
    PROVE  [PoolLease!Next]_(PoolLease!vars)
<1> SUFFICES PoolLease!Next \/ UNCHANGED <<InPool, HeldBy, Usage>>
  BY DEF PoolLease!vars
<1>1. PoolInv
  BY DEF EnrichInv
<1>2. ASSUME NEW c \in Callers, BeginCall(c)
      PROVE  UNCHANGED <<InPool, HeldBy, Usage>>
  <2>1. /\ call[c].pc = "idle" /\ call'[c].pc = "acquire" /\ UNCHANGED accts
        /\ \A d \in Callers \ {c} : call'[d] = call[d]
    BY <1>1, <1>2 DEF BeginCall, Idle, PoolInv, PoolTypeOK
  <2> QED
    BY <1>1, <2>1, UnlockedCallLeases
<1>3. ASSUME NEW c \in Callers, FallBack(c) \/ EnvAnswers(c)
      PROVE  UNCHANGED <<InPool, HeldBy, Usage>>
  <2>1. /\ call[c].pc \in {"acquire", "env"} /\ call'[c].pc \in {"env", "done"}
        /\ UNCHANGED accts
        /\ \A d \in Callers \ {c} : call'[d] = call[d]
    <3>1. CASE FallBack(c)
      BY <1>1, <3>1 DEF FallBack, PoolInv, PoolTypeOK
    <3>2. CASE EnvAnswers(c)
      BY <1>1, <3>2 DEF EnvAnswers, Done, PoolInv, PoolTypeOK
    <3> QED
      BY <1>3, <3>1, <3>2
  <2> QED
    BY <1>1, <2>1, UnlockedCallLeases
<1>4. ASSUME NEW c \in Callers, NEW length \in Lengths \union {0}, Finish(c, length)
      PROVE  UNCHANGED <<InPool, HeldBy, Usage>>
  <2>1. /\ call[c].pc = "done" /\ call'[c].pc = "idle" /\ UNCHANGED accts
        /\ \A d \in Callers \ {c} : call'[d] = call[d]
    BY <1>1, <1>4 DEF Finish, Idle, PoolInv, PoolTypeOK
  <2> QED
    BY <1>1, <2>1, UnlockedCallLeases
<1>5. ASSUME NEW c \in Callers, Attempt(c)
      PROVE  PoolLease!Next \/ UNCHANGED <<InPool, HeldBy, Usage>>
  <2>1. {c} \in SUBSET Callers
    OBVIOUS
  <2> QED
    BY <1>1, <1>3, <1>5, <2>1, TakeLeases, PostLeases, EscapeLeases, RecordLeases
       DEF Attempt, PoolLease!Next
<1>6. ASSUME NEW c \in Callers, Caller(c)
      PROVE  PoolLease!Next \/ UNCHANGED <<InPool, HeldBy, Usage>>
  BY <1>2, <1>4, <1>5, <1>6 DEF Caller, BeginEnrich, BeginPage
<1>7. CASE Elsewhere
  <2>1. ASSUME NEW j \in Jobs, DeleteJob(j)
        PROVE  UNCHANGED <<InPool, HeldBy, Usage>>
    BY <2>1 DEF DeleteJob, poolVars, InPool, HeldBy, Usage, Holds, There
  <2> QED
    BY <1>1, <1>7, <2>1, CoolDownLeases, AdministerLeases DEF Elsewhere, PoolLease!Next
<1>8. CASE Restart
  <2>1. Callers \in SUBSET Callers
    OBVIOUS
  <2> QED
    BY <1>8, <2>1, KillLeases DEF Restart, PoolLease!Next
<1>9. CASE UNCHANGED vars
  BY <1>9 DEF vars, InPool, HeldBy, Usage, Holds, There
<1> QED
  BY <1>6, <1>7, <1>8, <1>9 DEF Next

(***************************************************************************)
(* The pool implements Lease for any number of callers and accounts,       *)
(* whatever the user writes to them meanwhile.                             *)
(***************************************************************************)
THEOREM CallsLease == Spec => ImplementsLease
<1>1. Init => PoolLease!Init
  <2> SUFFICES ASSUME Init
               PROVE  PoolLease!Init
    OBVIOUS
  <2>1. /\ \A a \in Accounts, c \in Callers : ~Holds(c, a)
        /\ \A a \in Accounts : ~There(a)
    BY AccountsArePresent DEF Init, PoolInit, Holds, There, Idle
  <2> QED
    BY <2>1 DEF PoolLease!Init, InPool, HeldBy, Usage
<1> QED
  BY <1>1, LeaseStep, EnrichInvariant, PTL DEF Spec, ImplementsLease, PoolLease!Spec

-----------------------------------------------------------------------------
(***************************************************************************)
(* A call comes nearer to its end with every step, whatever its attempts   *)
(* yield and the other calls and the user do to the accounts: it has fewer *)
(* tries left, or as many and less to do in the one at hand.               *)
(***************************************************************************)
StepsAhead(pc) ==
    CASE pc = "acquire" -> 3 [] pc = "post" -> 2 [] pc = "record" -> 1 [] OTHER -> 0

Nearer(new, old) ==
    \/ old.pc # "done" /\ new.pc = "done"
    \/ /\ {old.pc, new.pc} \subseteq {"acquire", "env", "post", "record"}
       /\ \/ new.tries < old.tries
          \/ new.tries = old.tries /\ StepsAhead(new.pc) < StepsAhead(old.pc)

CallsComeNearer ==
    [][\A c \in Callers :
          call[c] # Idle /\ call'[c] # call[c] =>
              call'[c] = Idle \/ Nearer(call'[c], call[c])]_vars

LEMMA NearerStep ==
    ASSUME PoolInv, NEW c \in Callers, Attempt(c)
    PROVE  Nearer(call'[c], call[c])
<1>1. call[c].pc \in {"acquire", "env", "post", "record"} => call[c].tries \in 1 .. MaxTries
  BY CallTypes DEF Trying, PoolInv
<1>2. ASSUME NEW a \in Accounts, Acquire(c, a)
      PROVE  Nearer(call'[c], call[c])
  <2>1. call[c].pc = "acquire" /\ call'[c].pc = "post" /\ call'[c].tries = call[c].tries
    BY <1>2 DEF Acquire, PoolInv, PoolTypeOK
  <2> QED
    BY <2>1 DEF Nearer, StepsAhead
<1>3. CASE FallBack(c)
  <2>1. call[c].pc = "acquire" /\ call'[c].pc = "env" /\ call'[c].tries = call[c].tries
    BY <1>3 DEF FallBack, PoolInv, PoolTypeOK
  <2> QED
    BY <2>1 DEF Nearer, StepsAhead
<1>4. CASE EnvAnswers(c)
  <2>1. call[c].pc = "env" /\ call'[c].pc = "done"
    BY <1>4 DEF EnvAnswers, Done, PoolInv, PoolTypeOK
  <2> QED
    BY <2>1 DEF Nearer
<1>5. ASSUME NEW outcome \in Outcomes, Post(c, outcome)
      PROVE  Nearer(call'[c], call[c])
  <2>1. call[c].pc = "post" /\ call'[c].pc = "record" /\ call'[c].tries = call[c].tries
    BY <1>5 DEF Post, PoolInv, PoolTypeOK
  <2> QED
    BY <2>1 DEF Nearer, StepsAhead
<1>6. CASE Escape(c)
  <2>1. call[c].pc = "post" /\ call'[c].pc = "done"
    BY <1>6 DEF Escape, Done, PoolInv, PoolTypeOK
  <2> QED
    BY <2>1 DEF Nearer
<1>7. CASE Record(c)
  <2>1. call[c].pc = "record" /\ call'[c] = After(call[c])
    BY <1>7 DEF Record, PoolInv, PoolTypeOK
  <2>2. CASE call[c].outcome = "success" \/ call[c].tries = 1
    <3>1. call'[c].pc = "done"
      BY <2>1, <2>2 DEF After, Done
    <3> QED
      BY <2>1, <3>1 DEF Nearer
  <2>3. CASE ~(call[c].outcome = "success" \/ call[c].tries = 1)
    <3>1. call'[c].pc = "acquire" /\ call'[c].tries = call[c].tries - 1
      BY <2>1, <2>3 DEF After
    <3>2. call[c].tries - 1 < call[c].tries
      BY <1>1, <2>1
    <3> QED
      BY <2>1, <3>1, <3>2 DEF Nearer
  <2> QED
    BY <2>2, <2>3
<1> QED
  BY <1>2, <1>3, <1>4, <1>5, <1>7, <1>6 DEF Attempt

(***************************************************************************)
(* _post_with_pool ends: each step of a call takes it down a well-founded  *)
(* order, so that it makes MAX_POOL_RETRIES attempts at most and never goes*)
(* round again, and no step of another actor puts it back.                 *)
(***************************************************************************)
THEOREM CallsDescend == Spec => CallsComeNearer
<1> DEFINE Step ==
      \A c \in Callers :
          call[c] # Idle /\ call'[c] # call[c] =>
              call'[c] = Idle \/ Nearer(call'[c], call[c])
<1>1. ASSUME EnrichInv, [Next]_vars
      PROVE  [Step]_vars
  <2>1. PoolInv
    BY <1>1 DEF EnrichInv
  <2>2. ASSUME NEW c \in Callers, BeginCall(c)
        PROVE  Step
    <3>1. call[c] = Idle /\ \A d \in Callers \ {c} : call'[d] = call[d]
      BY <2>1, <2>2 DEF BeginCall, PoolInv, PoolTypeOK
    <3> QED
      BY <3>1
  <2>3. ASSUME NEW c \in Callers, Attempt(c)
        PROVE  Step
    <3>1. \A d \in Callers \ {c} : call'[d] = call[d]
      BY <2>1, <2>3, AttemptMovesOneCall
    <3>2. Nearer(call'[c], call[c])
      BY <2>1, <2>3, NearerStep
    <3> QED
      BY <3>1, <3>2
  <2>4. ASSUME NEW c \in Callers, NEW length \in Lengths \union {0}, Finish(c, length)
        PROVE  Step
    <3>1. call'[c] = Idle /\ \A d \in Callers \ {c} : call'[d] = call[d]
      BY <2>1, <2>4 DEF Finish, PoolInv, PoolTypeOK
    <3> QED
      BY <3>1
  <2>5. CASE Elsewhere
    <3>1. UNCHANGED call
      BY <2>5 DEF Elsewhere, CoolDown, DeleteJob, poolVars, Administer, CreateAccount,
                  ChangeAccount, WaitForAccount, WriteAccount, DeleteAccount
    <3> QED
      BY <3>1
  <2>6. CASE Restart
    BY <2>6 DEF Restart, KillCalls
  <2>7. CASE UNCHANGED vars
    BY <2>7
  <2> QED
    BY <1>1, <2>2, <2>3, <2>4, <2>5, <2>6, <2>7 DEF Next, Caller, BeginEnrich, BeginPage
<1> QED
  BY <1>1, EnrichInvariant, PTL DEF Spec, CallsComeNearer
=============================================================================
