------------------------------ MODULE ScrapeRun ------------------------------
(***************************************************************************)
(* Scrape runs: what the scheduler and POST /api/scraper/run do.           *)
(*                                                                         *)
(* A run scrapes the free sources of its configuration, then each gated    *)
(* one with an account of ApifyPool, then inserts what is not yet in       *)
(* scraped_jobs, and commits once.  content_hash is unique: an insert waits*)
(* for another run's insert of the same job, and raises if that is         *)
(* committed.  The handler then rolls its session back and goes on.        *)
(***************************************************************************)
EXTENDS ApifyPool

CONSTANTS
    Configs,    \* the ids of scrape_configs
    Gated,      \* how many gated sources each configuration has
    Jobs,       \* the postings to be found, by content_hash; off-topic ones left out
    Faults      \* what the environment may do: "restart", "scrape_fails", "bad_row"

ASSUME ScrapeRunAssumption ==
    /\ Gated \in [Configs -> 0 .. 2]
    /\ Faults \subseteq {"restart", "scrape_fails", "bad_row"}

VARIABLES
    configs,    \* scrape_configs: active, inactive or deleted
    cron,       \* the configurations the scheduler has triggers for
    board,      \* scraped_jobs as committed, with what was removed from it
    run         \* each thread's place in run_scrape_config

vars == <<accts, hold, adm, spent, forgotten, configs, cron, board, run>>

(***************************************************************************)
(* A run: who started it; how many gated sources are to come; the account  *)
(* it scrapes with; the jobs it has found, those it still has to look up,  *)
(* those it has inserted, the one it is about to insert; and whether its   *)
(* session has been rolled back.                                           *)
(***************************************************************************)
Running ==
    [pc: {"acquire", "scrape", "lookup", "insert"}, by: {"cron", "user"},
     config: Configs \union {"none"}, gated: 0 .. 2, acct: Accounts \union {"none"},
     found: SUBSET Jobs, todo: SUBSET Jobs, mine: SUBSET Jobs,
     job: Jobs \union {"none"}, lost: BOOLEAN]

TypeOK ==
    /\ PoolTypeOK
    /\ configs \in [Configs -> {"active", "inactive", "deleted"}]
    /\ cron \subseteq Configs
    /\ board \in [Jobs -> {"unknown", "listed", "removed"}]
    /\ run \in [Runs -> Running \union {Idle}]

\* The scheduler registers what is active when the application starts.  A
\* configuration that is created later is like one that was inactive.
Init ==
    /\ PoolInit
    /\ configs \in [Configs -> {"active", "inactive"}]
    /\ cron = {c \in Configs : configs[c] = "active"}
    /\ board = [j \in Jobs |-> "unknown"]
    /\ run = [r \in Runs |-> Idle]

Busy(r) == run[r] # Idle

Listed(j) == board[j] = "listed"

-----------------------------------------------------------------------------
(***************************************************************************)
(* Scraping.  The free sources read no table: what they find is chosen     *)
(* when the run starts.                                                    *)
(***************************************************************************)

Started(by, c, gated, found) ==
    [pc |-> IF gated > 0 THEN "acquire" ELSE "lookup", by |-> by, config |-> c,
     gated |-> gated, acct |-> "none", found |-> found, todo |-> found, mine |-> {},
     job |-> "none", lost |-> FALSE]

Start(r, by, c, gated) ==
    /\ ~Busy(r)
    /\ \A a \in Accounts : spent[a] < MaxSpent
    /\ \E found \in SUBSET Jobs : run' = [run EXCEPT ![r] = Started(by, c, gated, found)]
    /\ UNCHANGED <<poolVars, configs, cron, board>>

\* max_instances: a trigger that fires while its last run goes on is dropped.
RunScheduled(r, c) ==
    /\ c \in cron
    /\ configs[c] = "active"
    /\ \A q \in Runs : ~(Busy(q) /\ run[q].by = "cron" /\ run[q].config = c)
    /\ Start(r, "cron", c, Gated[c])

\* Answers 404 or 409 for a configuration that is not active.
RunByHand(r, c) ==
    /\ configs[c] = "active"
    /\ Start(r, "user", c, Gated[c])

\* Without a configuration: the gated sources are unknown to aggregate, and skipped.
RunAdHoc(r) == Start(r, "user", "none", 0)

\* Mutant: off by one.
OnwardOnceMore(gated) == IF gated > 0 THEN "acquire" ELSE "lookup"

\* Where a run goes on when it is through with a gated source.
Onward(gated) == IF gated > 1 THEN "acquire" ELSE "lookup"

AcquireAccount(r, a) ==
    /\ run[r].pc = "acquire"
    /\ Acquire(r, a)
    /\ run' = [run EXCEPT ![r].pc = "scrape", ![r].acct = a]
    /\ UNCHANGED <<configs, cron, board>>

NextSource(r, more) ==
    run' = [run EXCEPT ![r].pc = Onward(run[r].gated), ![r].gated = @ - 1, ![r].acct = "none",
                       ![r].found = @ \union more, ![r].todo = @ \union more]

\* ApifyPoolExhausted: the source is skipped.
SkipSource(r) ==
    /\ run[r].pc = "acquire"
    /\ Available(r) = {}
    /\ NextSource(r, {})
    /\ UNCHANGED <<poolVars, configs, cron, board>>

ScrapeSource(r, more, cost) ==
    /\ run[r].pc = "scrape"
    /\ RecordSuccess(r, run[r].acct, cost)
    /\ NextSource(r, more)
    /\ UNCHANGED <<configs, cron, board>>

ScrapeFails(r) ==
    /\ "scrape_fails" \in Faults
    /\ run[r].pc = "scrape"
    /\ RecordFailure(r, run[r].acct)
    /\ NextSource(r, {})
    /\ UNCHANGED <<configs, cron, board>>

-----------------------------------------------------------------------------
(***************************************************************************)
(* _persist.  A job is looked up among the committed ones and the run's    *)
(* own, and inserted if it is not there.                                   *)
(***************************************************************************)

Lookup(r, j) ==
    /\ run[r].pc = "lookup"
    /\ j \in run[r].todo
    /\ run' = IF Listed(j) \/ j \in run[r].mine
              THEN [run EXCEPT ![r].todo = @ \ {j}]
              ELSE [run EXCEPT ![r].todo = @ \ {j}, ![r].job = j, ![r].pc = "insert"]
    /\ UNCHANGED <<poolVars, configs, cron, board>>

\* Another run has inserted the job and not ended.
WaitsFor(r, q) == run[r].pc = "insert" /\ Busy(q) /\ q # r /\ run[r].job \in run[q].mine

\* Mutant: ON CONFLICT DO NOTHING that does not wait for the other run.
InsertUnlessTaken(r) ==
    /\ run[r].pc = "insert"
    /\ ~Listed(run[r].job)
    /\ run' = [run EXCEPT ![r].pc = "lookup", ![r].job = "none",
                          ![r].mine = IF \E q \in Runs : WaitsFor(r, q)
                                      THEN @ ELSE @ \union {run[r].job}]
    /\ UNCHANGED <<poolVars, configs, cron, board>>

Insert(r) ==
    /\ run[r].pc = "insert"
    /\ ~Listed(run[r].job)
    /\ \A q \in Runs : ~WaitsFor(r, q)
    /\ run' = [run EXCEPT ![r].pc = "lookup", ![r].job = "none",
                          ![r].mine = @ \union {run[r].job}]
    /\ UNCHANGED <<poolVars, configs, cron, board>>

\* Runs that wait for each other in a circle, of whatever length, r among them.
InCircle(r) ==
    \E circle \in SUBSET Runs :
        /\ r \in circle
        /\ \A q \in circle : /\ \E p \in circle : WaitsFor(q, p)
                             /\ \E p \in circle : WaitsFor(p, q)

\* A duplicate key, or a wait that closes a circle, which Postgres breaks.
Raises(r) == run[r].pc = "insert" /\ (Listed(run[r].job) \/ InCircle(r))

\* Mutant: what the rollback took is looked up again.
UndoAndRetry(r) ==
    /\ RollbackAccounts({r})
    /\ run' = [run EXCEPT ![r].pc = "lookup", ![r].job = "none", ![r].mine = {},
                          ![r].todo = @ \union run[r].mine \union {run[r].job},
                          ![r].lost = TRUE]
    /\ UNCHANGED <<adm, configs, cron, board>>

\* The rollback takes the run's rows and its accounts; what is left to do goes on.
Undo(r) ==
    /\ RollbackAccounts({r})
    /\ run' = [run EXCEPT ![r].pc = "lookup", ![r].job = "none", ![r].mine = {},
                          ![r].lost = TRUE]
    /\ UNCHANGED <<adm, configs, cron, board>>

Collide(r) == Raises(r) /\ Undo(r)

\* Whatever else flush raises is taken for a collision too: a value that the table does not
\* take, say, which Postgres finds before it waits for anyone.
RefuseRow(r) == "bad_row" \in Faults /\ run[r].pc = "insert" /\ Undo(r)

Finished(r) == run[r].pc = "lookup" /\ run[r].todo = {}

Recorded(r) == run[r].config # "none" => configs[run[r].config] # "deleted"

Commit(r) ==
    /\ Finished(r)
    /\ Recorded(r)
    /\ CommitAccounts(r)
    /\ board' = [j \in Jobs |-> IF j \in run[r].mine THEN "listed" ELSE board[j]]
    /\ run' = [run EXCEPT ![r] = Idle]
    /\ UNCHANGED <<configs, cron>>

\* last_run_at cannot be written to a configuration that is gone: everything is undone.
CommitRaises(r) ==
    /\ Finished(r)
    /\ ~Recorded(r)
    /\ RollbackAccounts({r})
    /\ run' = [run EXCEPT ![r] = Idle]
    /\ UNCHANGED <<adm, configs, cron, board>>

-----------------------------------------------------------------------------
(***************************************************************************)
(* The user's other handlers, and restarts.                                *)
(***************************************************************************)

UpdateConfig(c, state) ==
    /\ configs[c] # "deleted"
    /\ configs' = [configs EXCEPT ![c] = state]
    /\ UNCHANGED <<poolVars, cron, board, run>>

DeleteJob(j) ==
    /\ Listed(j)
    /\ board' = [board EXCEPT ![j] = "removed"]
    /\ UNCHANGED <<poolVars, configs, cron, run>>

\* Shutdown does not wait for runs; the scheduler registers anew.
Restart ==
    /\ "restart" \in Faults
    /\ RollbackAccounts(Runs)
    /\ adm' = [t \in Admins |-> Idle]
    /\ run' = [r \in Runs |-> Idle]
    /\ cron' = {c \in Configs : configs[c] = "active"}
    /\ UNCHANGED <<configs, board>>

-----------------------------------------------------------------------------

Scrape(r) ==
    \/ \E a \in Accounts : AcquireAccount(r, a)
    \/ SkipSource(r)
    \/ \E more \in SUBSET Jobs, cost \in Costs : ScrapeSource(r, more, cost)
    \/ ScrapeFails(r)

Persist(r) ==
    \/ \E j \in Jobs : Lookup(r, j)
    \/ Insert(r) \/ Collide(r)
    \/ Commit(r) \/ CommitRaises(r)

Begin(r) ==
    \/ \E c \in Configs : RunScheduled(r, c) \/ RunByHand(r, c)
    \/ RunAdHoc(r)

User ==
    \/ Administer /\ UNCHANGED <<configs, cron, board, run>>
    \/ \E c \in Configs, s \in {"active", "inactive", "deleted"} : UpdateConfig(c, s)
    \/ \E j \in Jobs : DeleteJob(j)

Next ==
    \/ \E r \in Runs : Begin(r) \/ Scrape(r) \/ Persist(r) \/ RefuseRow(r)
    \/ User
    \/ Restart

Spec == Init /\ [][Next]_vars

(***************************************************************************)
(* A run that is under way goes on, where what it waits for has a time     *)
(* limit: httpx has, and Postgres looks for circles of waits.  The client  *)
(* of Apify has none for an actor run, so for Scrape this is justified with*)
(* no account to scrape with, when gated sources are skipped.  An insert   *)
(* that waits is woken each time it may go on, and gets its turn at last.  *)
(* No run relies on a row being refused.                                   *)
(***************************************************************************)
FairSpec ==
    Spec /\ \A r \in Runs : WF_vars(Scrape(r) \/ Persist(r)) /\ SF_vars(Insert(r))

-----------------------------------------------------------------------------

(***************************************************************************)
(* When a run ends that was never rolled back, every job it has found is in*)
(* the table, or the user has removed it: also the ones the run took for   *)
(* duplicates, whatever became of the other run's insert since.            *)
(***************************************************************************)
FoundIsKept ==
    [][\A r \in Runs :
          Commit(r) /\ ~run[r].lost => \A j \in run[r].found : board'[j] # "unknown"]_vars

(***************************************************************************)
(* Every run ends, though it keeps the jobs it has inserted from other runs*)
(* while it waits for theirs, and two of them may have met the same jobs in*)
(* different orders.                                                       *)
(***************************************************************************)
RunsEnd == \A r \in Runs : Busy(r) ~> ~Busy(r)

(***************************************************************************)
(* record_usage "logs the run" and moves its credit, "so each run acquires *)
(* a credit-tracked account": without a proviso, as long as no             *)
(* configuration is deleted under a run.                                   *)
(***************************************************************************)
UsageIsTracked ==
    (\A c \in Configs : configs[c] # "deleted") => \A a \in Accounts : Ledger(a)
=============================================================================
