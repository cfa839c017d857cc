----------------------------- MODULE Migrations -----------------------------
(***************************************************************************)
(* The revisions of the schema, and what they do to the data.              *)
(*                                                                         *)
(* The container runs `alembic upgrade head` whenever it starts; an older  *)
(* release upgrades to an older head, and a release is taken back with     *)
(* `alembic downgrade`.  env.py runs all revisions in between in one       *)
(* transaction, before the server starts, so that a deployment is a step:  *)
(* one that raises changes nothing, and the server stays down.  Between    *)
(* deployments the tables are written over the columns their revision has. *)
(*                                                                         *)
(* Revisions are numbered in their order, ef8d being 1 and f087 being 2.   *)
(* Those that move no data (3, 6, 7) change nothing here.                  *)
(***************************************************************************)
EXTENDS Integers

CONSTANTS
    Postings,       \* the ids of scraped_jobs
    Depths,         \* bound: how often the description of a scraped posting can be stripped
    Slots,          \* the ids of scrape_configs with the variant_target of a seed
    Pages,          \* what may be charged to a Firecrawl account at once, in its unit
    Limits,         \* what users may enter as its monthly credits
    MaxUsed         \* bound: the credits an account is charged

ASSUME MigrationsAssumption ==
    /\ Slots # {}
    /\ Depths \subseteq Nat
    /\ Pages \subseteq Nat
    /\ Limits \subseteq Nat
    /\ MaxUsed \in Nat

VARIABLES
    db,         \* the database as committed
    said        \* history: credits_used when the account was last written by a release

migrationVars == <<db, said>>

Head == 14

Revisions == 0 .. Head

\* ai: the title has an AI phrase; html: how often strip_html still changes the description.
Posting == [ai: BOOLEAN, html: Nat, status: {"new", "scored"}, applied: BOOLEAN,
            irrelevant: BOOLEAN]

\* added: how often a source that revision 5 appends is in the list.
Config == [keywords: {"loose", "refined", "own"}, added: 0 .. 2]

\* Cents up to revision 11, credits from 12 on.
Account == [monthly: Nat, used: Nat]

Nothing == [row |-> "none"]

\* source: how long the source_type of the master CV is.
Database == [rev: Revisions,
             jobs: [Postings -> Posting \union {Nothing}],
             configs: [Slots -> Config \union {Nothing}],
             account: Account \union {Nothing},
             source: {"none", "manual", "short", "long"}]

MigrationsTypeOK ==
    /\ db \in Database
    /\ said \in Nat
    /\ db.rev < 14 => db.source # "long"

Empty == [rev     |-> 0,
          jobs    |-> [j \in Postings |-> Nothing],
          configs |-> [i \in Slots |-> Nothing],
          account |-> Nothing,
          source  |-> "none"]

MigrationsInit == db = Empty /\ said = 0

Listed(d) == {j \in Postings : d.jobs[j] # Nothing}

Configured(d) == {i \in Slots : d.configs[i] # Nothing}

EachConfig(d, Change(_)) ==
    [d EXCEPT !.configs = [i \in Slots |-> IF i \in Configured(d) THEN Change(@[i]) ELSE @[i]]]

Without(d, gone) ==
    [d EXCEPT !.jobs = [j \in Postings |-> IF j \in gone THEN Nothing ELSE @[j]]]

-----------------------------------------------------------------------------
(***************************************************************************)
(* Upgrades.                                                               *)
(***************************************************************************)

\* 4: a configuration, unless the variant has one.
Seeded(d) ==
    IF Configured(d) # {} THEN d
    ELSE LET i == CHOOSE i \in Slots : TRUE
         IN  [d EXCEPT !.configs[i] = [keywords |-> "loose", added |-> 0]]

\* Mutant: without WHERE NOT (:src = ANY(sources)).
ExtendedAlways(d) == EachConfig(d, LAMBDA c : [c EXCEPT !.added = IF @ = 2 THEN 2 ELSE @ + 1])

\* 5: a source is appended where it is not in the list.
Extended(d) == EachConfig(d, LAMBDA c : [c EXCEPT !.added = IF @ = 0 THEN 1 ELSE @])

\* 8: is_offtopic_title, of rows with status "new".
OffTopic(d) == {j \in Listed(d) : ~d.jobs[j].ai /\ d.jobs[j].status = "new"}

\* strip_html takes the tags out, and turns escaped tags into tags: &lt;p&gt; into <p>.
Stripped(row) == [row EXCEPT !.html = IF @ = 0 THEN 0 ELSE @ - 1]

Cleaned(d) ==
    Without([d EXCEPT !.jobs = [j \in Postings |->
               IF j \in Listed(d) THEN Stripped(@[j]) ELSE @[j]]],
            OffTopic(d))

\* 9: whatever the status, and whatever the user has made of the keywords.
Irrelevant(d) == {j \in Listed(d) : ~d.jobs[j].ai}

Refined(d) ==
    Without(EachConfig(d, LAMBDA c : [c EXCEPT !.keywords = "refined"]), Irrelevant(d))

\* Mutant: the new column is left at its default.
UsedAfresh(cents) == 0 * cents

\* 12: ROUND(usd * 1000).
UsedCredits(cents) == 10 * cents

\* 12: a dollar and more is taken for the number of credits the user meant.
MonthlyCredits(cents) == IF cents >= 100 THEN (cents + 50) \div 100 ELSE 525

InCredits(d) ==
    IF d.account = Nothing THEN d
    ELSE [d EXCEPT !.account = [monthly |-> MonthlyCredits(@.monthly),
                                used    |-> UsedCredits(@.used)]]

Upgraded(d, n) ==
    CASE n = 4  -> Seeded(d)
      [] n = 5  -> Extended(d)
      [] n = 8  -> Cleaned(d)
      [] n = 9  -> Refined(d)
      [] n = 12 -> InCredits(d)
      [] OTHER  -> d

\* A foreign key of applications has no ON DELETE: a DELETE of the posting raises.
Raises(d, n) ==
    \E j \in (CASE n = 8 -> OffTopic(d) [] n = 9 -> Irrelevant(d) [] OTHER -> {}) :
        d.jobs[j].applied

-----------------------------------------------------------------------------
(***************************************************************************)
(* Downgrades.                                                             *)
(***************************************************************************)

\* 1 and 2 drop the tables.
Dropped(d) == [d EXCEPT !.jobs = Empty.jobs]

Reduced(d) ==
    [d EXCEPT !.configs = Empty.configs, !.source = "none",
              !.jobs = [j \in Postings |->
                  IF j \in Listed(d) THEN [@[j] EXCEPT !.applied = FALSE] ELSE @[j]]]

\* 4: every configuration of the seeded variants goes, the user's own included.
Unseeded(d) == [d EXCEPT !.configs = Empty.configs]

\* 5: array_remove takes every occurrence.
Shortened(d) == EachConfig(d, LAMBDA c : [c EXCEPT !.added = 0])

\* 9: the keywords of the seed, whatever they were.
Loosened(d) == EachConfig(d, LAMBDA c : [c EXCEPT !.keywords = "loose"])

\* 11: the pool is dropped.
Unpooled(d) == [d EXCEPT !.account = Nothing]

\* 12: usd as NUMERIC(10, 2) of a thousandth of the credits.
Cents(credits) == (credits + 5) \div 10

InDollars(d) ==
    IF d.account = Nothing THEN d
    ELSE [d EXCEPT !.account = [monthly |-> Cents(@.monthly), used |-> Cents(@.used)]]

\* 13
Undismissed(d) ==
    [d EXCEPT !.jobs = [j \in Postings |->
        IF j \in Listed(d) THEN [@[j] EXCEPT !.irrelevant = FALSE] ELSE @[j]]]

\* 14: a source_type that does not fit the old column.
Narrowed(d) == [d EXCEPT !.source = IF @ = "long" THEN "manual" ELSE @]

Downgraded(d, n) ==
    CASE n = 14 -> Narrowed(d)
      [] n = 13 -> Undismissed(d)
      [] n = 12 -> InDollars(d)
      [] n = 11 -> Unpooled(d)
      [] n = 9  -> Loosened(d)
      [] n = 5  -> Shortened(d)
      [] n = 4  -> Unseeded(d)
      [] n = 2  -> Reduced(d)
      [] n = 1  -> Dropped(d)
      [] OTHER  -> d

-----------------------------------------------------------------------------

AtRevision(d, n) == [d EXCEPT !.rev = n]

\* What the revisions from the one at hand to n make of the database.
Upward(n) ==
    LET after[k \in db.rev .. n] ==
            IF k = db.rev THEN db ELSE AtRevision(Upgraded(after[k - 1], k), k)
    IN  after

Downward(n) ==
    LET after[k \in n .. db.rev] ==
            IF k = db.rev THEN db ELSE AtRevision(Downgraded(after[k + 1], k + 1), k)
    IN  after

Upgrade(n) ==
    /\ n > db.rev
    /\ \A k \in db.rev + 1 .. n : ~Raises(Upward(n)[k - 1], k)
    /\ db' = Upward(n)[n]
    /\ UNCHANGED said

Downgrade(n) ==
    /\ n < db.rev
    /\ db' = Downward(n)[n]
    /\ said' = IF n < 11 THEN 0 ELSE said

-----------------------------------------------------------------------------
(***************************************************************************)
(* What releases write.                                                    *)
(***************************************************************************)

\* From revision 8 on titles are filtered and descriptions stripped, once.
Scrape(j, ai, html) ==
    /\ db.rev >= 1
    /\ j \notin Listed(db)
    /\ db.rev >= 8 => ai
    /\ LET row == [ai |-> ai, html |-> html, status |-> "new", applied |-> FALSE,
                   irrelevant |-> FALSE]
       IN  db' = [db EXCEPT !.jobs[j] = IF db.rev >= 8 THEN Stripped(row) ELSE row]
    /\ UNCHANGED said

Apply(j) ==
    /\ db.rev >= 2
    /\ j \in Listed(db)
    /\ db' = [db EXCEPT !.jobs[j].applied = TRUE]
    /\ UNCHANGED said

Score(j) ==
    /\ db.rev >= 2
    /\ j \in Listed(db)
    /\ db' = [db EXCEPT !.jobs[j].status = "scored"]
    /\ UNCHANGED said

Dismiss(j) ==
    /\ db.rev >= 13
    /\ j \in Listed(db)
    /\ db' = [db EXCEPT !.jobs[j].irrelevant = TRUE]
    /\ UNCHANGED said

\* A list that names a source twice is not to be had in the browser.
AddConfig(i, added) ==
    /\ db.rev >= 2
    /\ i \notin Configured(db)
    /\ db' = [db EXCEPT !.configs[i] = [keywords |-> "own", added |-> added]]
    /\ UNCHANGED said

EditConfig(i, added) ==
    /\ i \in Configured(db)
    /\ db' = [db EXCEPT !.configs[i] = [keywords |-> "own", added |-> added]]
    /\ UNCHANGED said

DropConfig(i) ==
    /\ i \in Configured(db)
    /\ db' = [db EXCEPT !.configs[i] = Nothing]
    /\ UNCHANGED said

AddAccount(limit) ==
    /\ db.rev >= 11
    /\ db.account = Nothing
    /\ db' = [db EXCEPT !.account = [monthly |-> limit, used |-> 0]]
    /\ said' = 0

\* What the table's amounts are in credits, a tenth of a cent each.
CreditsOf(amount) == IF db.rev >= 12 THEN amount ELSE 10 * amount

Charge(pages) ==
    /\ db.account # Nothing
    /\ CreditsOf(db.account.used + pages) <= MaxUsed
    /\ db' = [db EXCEPT !.account.used = @ + pages]
    /\ said' = CreditsOf(db.account.used + pages)

SaveCv(length) ==
    /\ db.rev >= 2
    /\ length = "long" => db.rev >= 14
    /\ db' = [db EXCEPT !.source = length]
    /\ UNCHANGED said

Release ==
    \/ \E j \in Postings :
          \/ \E ai \in BOOLEAN, html \in Depths : Scrape(j, ai, html)
          \/ Apply(j) \/ Score(j) \/ Dismiss(j)
    \/ \E i \in Slots :
          \/ \E added \in {0, 1} : AddConfig(i, added) \/ EditConfig(i, added)
          \/ DropConfig(i)
    \/ \E limit \in Limits : AddAccount(limit)
    \/ \E pages \in Pages : Charge(pages)
    \/ \E length \in {"manual", "short", "long"} : SaveCv(length)

MigrationsNext ==
    \/ \E n \in Revisions : Upgrade(n) \/ Downgrade(n)
    \/ Release

MigrationsSpec == MigrationsInit /\ [][MigrationsNext]_migrationVars

-----------------------------------------------------------------------------

(***************************************************************************)
(* Deploying and rolling back any number of times lists no source twice (a *)
(* re-run "is a no-op"), though users take sources out and put them in     *)
(* under any revision.  A source listed twice is scraped twice per run.    *)
(***************************************************************************)
SourcesOnce == \A i \in Configured(db) : db.configs[i].added <= 1

(***************************************************************************)
(* A rollback to dollars and the deployment after it leave the usage of an *)
(* account within half a cent, which is 5 credits.  (Its monthly credits do*)
(* not survive: 1500 are 1.50 dollars, which come back as 2 credits.)      *)
(***************************************************************************)
RollbackKeepsUsage ==
    db.account # Nothing => CreditsOf(db.account.used) - said \in -5 .. 5
=============================================================================
