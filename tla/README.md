# JobHunter Platform: a TLA+ verification project

JobHunter is a FastAPI backend with a React frontend that collects job
postings, tailors a CV and cold emails to each of them with Claude skills run
as subprocesses, and sends the emails. This directory models the backend: the
state it keeps in Postgres, on disk and in a mailbox, and what its request
threads, subprocesses and servers do to that state at the same time; of the frontend, the
Easy Apply modal and the progress hook, which keep state of their own.

Paths below are relative to the repository; `app/` stands for `backend/app/`.

## 1. The system

### How it runs

* One uvicorn process. The handlers are plain `def`, so each request has a
  thread of the pool and a SQLAlchemy session of its own (`app/database.py`,
  `autoflush=False`). Postgres runs at READ COMMITTED. Only the
  two account pools lock rows on purpose.
* A skill is a `claude --print` subprocess of the container. It talks back over
  HTTP with a shared secret: it fetches its context, reports progress and
  completes its job (`app/api/callbacks.py`).
* APScheduler threads of the same process run scrapes.
* A restart of the container kills request threads, scheduler threads and
  subprocesses. The database and the `cv_storage` volume survive.

Three facts about the session shape the models:

1. *A commit writes net changes.* The UPDATE names the columns whose value
   differs from the one that was loaded. A handler that loaded `draft`, waits,
   and assigns `draft` writes no status, whatever another transaction has
   committed meanwhile. `Orm.Written` is that rule.
2. *Nothing is checked at the end.* No version column, no `SELECT ... FOR UPDATE`
   outside the two account pools; the only unique constraint that can bite is
   `scraped_jobs.content_hash`, and then the whole session is rolled back. Foreign keys without
   `ON DELETE` do bite: an application with a CV or a draft, and a posting with an application, cannot be deleted.
3. *I/O happens between the first query and the commit*: an IMAP append, an SMTP
   dialogue, pandoc and LibreOffice, an HTTP scrape.

### Inventory

| Component | State | Operations | Talks to | What is hard | What makes it correct |
|---|---|---|---|---|---|
| **Agent jobs** `services/claude_service.py`, `api/callbacks.py` | `agent_jobs` rows; subprocesses | `spawn_claude`, `update_progress`, `complete_job`, `get_context` | every generator; the skills | failed spawn, silent death, repeated and late callbacks, restart | an ended job stays ended; an answer has its effect once for the right row; a spawned job is heard of |
| **CV tailoring** `services/cv_generator.py`, `api/cv.py`, `_apply_cv_tailor` | `generated_cvs` rows | generate, callback, edit | agent jobs, applications, master CV | three commits per request, several jobs per application, answers out of order | the right application's row is filled, links are one to one, a delivered row never waits again |
| **Scoring and rendering** `api/cv.py`, `services/docx_service.py`, `services/scorer_service.py` | paths and score columns; `cv-<id>.docx`, `cv-<id>.pdf` | rescore, download, preview, invalidation by an edit | tailoring, pandoc, soffice | seconds between read and commit, two files and one commit, shared file names | what is served is what the row says |
| **Cold emails** `services/email_generator.py`, `api/emails.py`, `_apply_cold_email` | `email_drafts` rows, IMAP Drafts folder | generate, follow-up, callback with IMAP append, edit, approve, mark sent | agent jobs, mailer | upsert without a constraint, I/O in the middle, regeneration over approved rows | one draft per type, an approval is for a text, links name copies |
| **Sending, application status** `api/emails.py`, `services/application_service.py`, `services/mailer_service.py`, `api/applications.py` | draft status, `sent_at`, `applications` row | send, `transition_status`, PATCH | cold emails, SMTP | SMTP before the commit, double send, a lost reply | an accepted mail is on record |
| **Easy apply** `api/applications.py`, `easy-apply/EasyApplyModal.tsx` | applications; the modal's phase and its cached list of emails | create, easy apply, review, Send now, Save draft, retry, delete | tailoring, cold emails, progress socket | idempotence by a query, five commits in one request, a list fetched before there is a draft, a PUT and then a POST | one application per posting, the jobs of a request keep their application, what is mailed was read by somebody |
| **Apify pool** `services/apify_pool.py`, `api/apify.py` | accounts, usage log | acquire, record usage, reset, reactivate | scrape runs | row locks held through a run, budget margin, suspension | an account is overdrawn by one scrape at most, usage is never forgotten |
| **Scrape runs** `services/scraper_service.py`, `scrapers/aggregator.py` | `scraped_jobs`, run statistics | run a configuration, run ad hoc, persist | Apify pool, scheduler | a collision rolls back the whole session; runs wait for each other's inserts | what was found is in the table, a run ends |
| **Scheduler** `app/scheduler.py` | in-memory cron jobs | register, run | scrape runs | registered at boot only, overlap with manual runs | an active configuration runs, an inactive one does not |
| **Firecrawl pool** `services/firecrawl_service.py`, `api/firecrawl.py` | accounts | acquire, retry, record usage, CRUD | enrichment, imports | row locks held through a request, retries that go to the same account, the user's writes over a charge | one call per account, usage is kept, a charge leaves the margin, retries rotate |
| **Enrichment** `api/enrichment.py`, `services/multi_scraper.py` | `scraped_jobs.description` | enrich a posting, research a company, scrape the pages of an import in parallel | Firecrawl pool | a length read before the scrape | a description gives way to a longer one only |
| **Master CV** `api/cv.py`, `services/cv_parser.py`, `services/portfolio_cv_api.py`, two scripts | `master_cv` versions, rendered files by version and template | save, upload, import, seed, rebrand, preview, download | tailoring | two saves at once, files shared by name, files cut short by converters | one active version, a download is of the version read or visibly torn |
| **Mailbox settings** `api/mailbox.py`, `services/mailer_service.py` | one row | put, delete, test | cold emails | a test that activates settings changed under it | active settings are tested ones |
| **Progress socket** `api/ws.py`, `hooks/useProgress.ts` | the hook's last frame | poll a job every 2 s up to 600 s | agent jobs, easy apply | a completion after the time limit, a callback after the end, a socket that closes without an error | a job shown as ended has ended |
| **Portfolio** `services/portfolio_auditor.py`, `services/portfolio_cv_api.py`, `api/portfolio.py` | `portfolio_assets` rows | scan, import, add, review, edit, delete | master CV, imports | lookups without a constraint and with autoflush off, urls nobody looks up, a review under a scan | one row per file or url, a curated hint stays |
| **Database schema** `backend/alembic/versions` | the data under each revision | upgrade, downgrade, what releases write in between | everything | data rewritten by revisions, rounding, users' edits in between | no source twice, usage survives a rollback |
| Jobs list, authentication, templates, scrapers, other frontend | see `PROJECT.json` | | | | |

The skills themselves live in the `claude-plugin` submodule, which is not part of
the repository; they are modelled as what `callbacks.py` may receive from them.

`PROJECT.json` has every component with its status, every definition with the
lines it models (`map`), and every hazard at its line.

## 2. The modules

```
Orm            what a commit writes
 ├ AgentJobs       agent_jobs and the subprocesses          AgentJobsProofs
 │  ├ TailoredCv       generate_cv, its callback, edits      TailoredCvProofs
 │  │   │  implements CvShelf (abstract)
 │  │   └ RenderedCv   score, download, files                RenderedCvProofs
 │  ├ ColdEmail        drafts, the upserting callback, IMAP  ┐
 │  │   └ SentEmail    SMTP, applications                    ┴ SentEmailProofs
 │  └ ProgressSocket   what browsers see of a job
 │      └ EasyApply    the request, the modal, the review    EasyApplyProofs
 ├ ApifyPool       accounts, row locks, their administration
 │  │  implements Lease (abstract)
 │  └ ScrapeRun        scheduler, scraping, persisting       ScrapeRunProofs
 ├ FirecrawlPool   accounts, calls with retries
 │  │  implements Lease (abstract)
 │  └ Enrichment       what pages are scraped for            EnrichmentProofs
 ├ Mailbox         settings and their test                 ┐
 ├ MasterCv        versions, renderings                    ├ Parts    PartsProofs
 ├ Portfolio       scans, imports, review                  │
Migrations     revisions, releases in between              ┘
```

Arrows are `EXTENDS`. A module that extends another conjoins its own changes to
the extended module's action when the code commits both in one transaction
(`CompleteTailoring` is `CompleteOk` and `ApplyCvTailor`), and adds the actions
of its own threads. `Parts` puts the four modules that share no state side by side, a step being one part's. `MC*` modules hold the constants that a `.cfg` cannot write, and the
cuts described under *Bounds*. `ColdEmail`, `TailoredCv` and `EasyApply` share `AgentJobs` and nothing else: a
job's type says whose it is. `EasyApply` has the rows of the other two only as far as its request and its modal read
them: whether an application has a CV, and the text of its initial draft.

**What is one action.** A handler that only queries and commits is one action: at
READ COMMITTED, with the handlers as short as they are, the interesting
interleavings are around I/O. A handler with I/O or with several commits is split
exactly there, and each thread has a program counter (`gen`, `dl`, `cb`, `snd`, `tab`, `run`, `call`, `adm`, `tester`, `author`, `reader`, `scan`, `import`).
What a thread has read before the I/O is in its record, and is used after it
as the code uses it.

**The guards** are the code's early returns, turned round: an operation that
answers 400, 404, 409, 422 or 502 and changes nothing has no step.

| Module | Variables | Code |
|---|---|---|
| `AgentJobs` | `jobs`, `procs` | table row; whether its subprocess lives (no code reads that) |
| `TailoredCv` | `cvs`, `gen` | `generated_cvs` (application, status, text, `generation_log.agent_job_id`); threads in `generate_cv` between its three commits |
| `RenderedCv` | `art`, `files`, `dl` | `docx_path`/`pdf_path` and `ats_score`; the two files; threads in `download_cv` after the read, after pandoc, after soffice |
| `ColdEmail` | `drafts`, `folder`, `cb` | `email_drafts` by application, type and rank; the IMAP folder; threads in `complete_job` between query, append and commit |
| `SentEmail` | `apps`, `out`, `mails`, `snd` | application status and `email_sent_at`; recipient and `sent_at`; mails SMTP took; threads in `send_email` |
| `ApifyPool` | `accts`, `hold`, `adm` | `apify_accounts` as committed; the rows each run has locked, as its open transaction has them; the user's handlers between load and commit |
| `ScrapeRun` | `configs`, `cron`, `board`, `run` | whether configurations are active; the scheduler's triggers; `scraped_jobs` by content hash; threads in `run_scrape_config` |
| `FirecrawlPool` | `accts`, `call`, `adm`, `clock` | `firecrawl_accounts` as committed; threads in `_post_with_pool`; the user's handlers that wait for a row; the order of `last_used_at` |
| `Enrichment` | `text`, `want` | `description` and its source by job; what each thread scrapes for, with the length it has read |
| `ProgressSocket` | `watch` | what each `useProgress` hook is connected to and the last frame it keeps |
| `EasyApply` | `posted`, `apps`, `tailored`, `draft`, `tab`, `emails` | the postings; applications by id; which of them a CV refers to; their initial draft; each modal with its request in `easy_apply`; the query cache of `useEmails` |
| `Mailbox` | `box`, `tester` | the row of `mailbox_config`; threads in the connection test |
| `MasterCv` | `masters`, `author`, `reader`, `files`, `served` | `master_cv`; threads and scripts on their way to a version; threads in a download; the files by name; what each download got |
| `Portfolio` | `assets`, `disk`, `scan`, `import` | `portfolio_assets` by file or url; what the files say; threads in a scan or an import between lookup and commit |
| `Migrations` | `db` | the revision, and of each table what revisions rewrite |

**Texts** are records that say who wrote them, for which application and when
(`Tailored(j)`, `Typed(i, v)`, `Drafted(j)`): what the properties tell apart.

**History variables** are not in the code and no action reads them. `want` is the
type a cold-email job was asked for. `spent` and `charged` are what an account's scrapes have cost,
`tried` and `begun` (in `call`) which accounts a call has had and when it began.
`crossed`, `raced`, `suspect`, `cut`, `forgotten`, `twice`, `overtaken`, `bare`, `mixed`, `collided`, `doubled` and `held`
mark the applications, jobs, rows and accounts to which a named race or failure has happened, so
that a property can say "unless exactly this", and a reader can see that
nothing else breaks it. `seen` is the texts a user has reviewed, `passed` the settings a test has logged in with, `said` the usage
as a release last wrote it.

**Faults.** The constant `Faults` names what the environment may do in a run:
a spawn that fails, a skill that reports failure, one that dies silently,
repeated callbacks, a container restart, a converter that fails, one that exits with
0 and writes nothing, a mail server that refuses or whose reply is lost, a socket that breaks, a row the database refuses for its
data (`bad_row`: `scraper_service.py:194` takes whatever `flush` raises for a duplicate), an answer of Firecrawl that is neither an
`HTTPError` nor a `ValueError` (`odd_answer`). In `Mailbox`,
`MasterCv`, `Portfolio` and `Migrations` failures and restarts may always happen.

**Mutants.** Definitions whose comment begins "Mutant" are not part of the system.
Each is the definition next to it with a plausible bug, and `PROJECT.json` says
which property it breaks.

### Transactions that stay open

A scrape run is one transaction from its first query to its commit, minutes later. Its
rows are therefore in two places: `accts` and `board` are what everybody sees, `hold[r]` and
`run[r].mine` what run `r` has written and nobody else sees, but waits for or skips:

* `acquire_account` skips rows that another run has locked (`Available`);
* the user's UPDATE of a locked row waits (`WriteAccount`), then writes net changes;
* an insert of a `content_hash` that another run has inserted and not committed waits
  (`WaitsFor`); when that run commits it raises, when it rolls back it goes on, and when two
  runs wait for each other Postgres makes one of them raise (`Raises`).

A raise in `_persist` is caught, and `db.rollback()` undoes everything the run has written so
far, its charges included (`Undo`, of `Collide` and `RefuseRow`); the loop goes on with the jobs that are left.

A Firecrawl call commits after each attempt, so `FirecrawlPool` is simpler: a row is locked while a
call is at `post` or `record`, and what the call writes to it is decided in `Record` from the row as it
was locked. An exception nobody catches ends the call and gives the row back as it was (`Escape`). A handler of the user waits for nothing but the row. `ChangeAccount` is the handler that
finds it free, `WaitForAccount` and `WriteAccount` the one that does not.

### The modal

`EasyApply` is the one composition that reaches into the browser. A request is six places long (`InRequest`): the application, the
pending CV, and for each job its row and its process; each is a commit, and each can be the last. When it has answered, two
hooks watch its jobs. The modal's phase is derived, at each render, from what the hooks show and from the list of emails
that react-query has cached; `Review` and `ShowError` are those renders. `FetchEmails` is the query under way, which
the answer starts, or a reconnect; nothing else does, and that is finding 5. The tab's cache survives the modal, so that the same tab's next
modal may find it (`LaunchEmail`, `Close`).

Two handlers need no modal: `POST /api/emails/generate` and `/generate-followup` insert and launch a `cold_email` job for any
application there is (`AskEmails`, `AskedEnds`). An application is held by its CVs and drafts (`Held`), which refer to it with a foreign key;
`agent_jobs.reference_id` does not.

### Files that are torn

`docx_service.py:61` and `:134` raise with whatever the converter has left on disk, a `TimeoutExpired` (`:46-61`, `:117-128`) is not
caught at all, and a restart stops the converter where it is. What is then in the file is `Torn`, in `RenderedCv` and in `MasterCv`. The two
differ in what they do next. `download_cv` serves what the paths of the row point at, and those are committed only after both conversions: alone, a
failed conversion leaves a torn file that the next download writes anew. The master CV's download trusts whatever exists under the name
(`cv.py:602`): it goes on serving the torn file, until there is a new version.

### A deployment is one step

`env.py` runs all revisions in one transaction, in the container's start command, before the server: `Upgrade` and
`Downgrade` compute the whole path. One that raises changes nothing. Between them `Release` writes what the release of that
revision lets users and skills write.

### CvShelf

The abstract specification of tailoring has one variable, the list of CVs by
application and status, and no jobs, threads or files. A skill only ever settles
the newest CV of an application, the user may settle any, a settled CV does
not wait again and nothing is removed. `TailoredCv` implements it
(`ImplementsShelf`); the refinement mapping projects `cvs` to application and
status. `TailoredCv` in turn implements `JobsSpec`, `RenderedCv` implements
`CvSpec`, `ColdEmail` implements `JobsSpec` and `SentEmail` implements `DraftSpec`.

### Lease

The abstract specification of both account pools knows neither rows nor transactions: which accounts are in the pool, who has
each, and what usage is entered for it. An account in the pool that nobody has may be taken; whoever has it gives it back, and only
then, and only for what it has, is usage entered, which never goes down; a lease may be broken off, which enters nothing; an account
may be added, and removed when nobody has it. The refinement mapping is in each pool: `InPool` (the row is there), `HeldBy` (who has
it locked), `Usage` (the credit or the pages of the committed row). So `Acquire` is `Take`; the commit of a run, which may publish
several charges to several accounts, and the `Record` of a call are `GiveBack`; a rollback and a restart are `BreakOff`; and all else,
a PATCH that has waited and writes its net change included, is a stutter or `Add` or `Remove`. `ExclusiveUse`, that two runs or two calls never have
one account, follows from `Lease` and is a lemma of the proofs.

## 3. The runs

| Run | Instance | Shows |
|---|---|---|
| `rendered_cv` | 2 applications, 2 CVs, 2 jobs, 2 request threads, all faults of spawning and of the skill; and 1 CV, 2 downloads at once, two typed texts and the empty one, converters that fail, are cut off or are silent; 809,149 states | `NoOrphanTailoring`: a callback always finds a row, even after a failed spawn. `OwnApplicationOnly`: a text lands only with its application. `LogNamesOneJobPerCv`: links are one to one although written in the last of three commits. `CachedPathHasFile`, `EditedArtifactFresh`: an edit is what is served unless a download overlapped it, a converter was silent, or one of several downloads cut a file short that another serves. `JobsNeverReopen`. `ImplementsShelf`. `AnswerReachesNewest` (liveness) |
| `sent_email` | 1 application; 2 jobs completing at once with 2 types; and 1 draft, 2 senders, at most 2 mails, edits, approvals, regeneration, all mail faults; 964,935 states | `OneDraftPerType` unless completions crossed, `ImapLinkHasCopy`, `MailIsRecorded` unless the reply or the thread was lost, `ApprovalCoversText` unless a completion held the draft, with the sender's net-change commit in play |
| `scrape_run` | 2 runs of a configuration with 2 gated sources, 1 account, 1 administrator, 1 job, restarts, failing scrapes and refused rows; 2,301,966 states | `ImplementsLease`: no two runs have one account, and credit is entered by the commit of the run that has it only. `UsageIsKept`: the credit is what was spent, whatever the user writes, unless a rollback lost it. `OverdrawnOnceAtMost`. `FoundIsKept`: what a run takes for a duplicate stays in the table |
| `scrapes_end` | 2 runs, 2 jobs, 1 configuration, no account; 244,728 states | `RunsEnd` (liveness): runs that insert the same jobs in opposite orders all end, one with a rollback |
| `enrichment` | 2 callers, 1 posting and 1 account, or other pages and 2 accounts, 1 administrator, restarts, servers that refuse or answer oddly; 3,405,451 states | `ImplementsLease`: no two calls have one account, and no write of the user changes its usage. `UsageIsKept` unless a restart or an exception came between answer and commit, `HeadroomKept`: a charge leaves the margin. `RetryRotates`: a call takes an account again only after those of its priority it has not tried. `TextGrows`: a description gives way to a longer one only, unless two enrichments of it overlap |
| `easy_apply` | 1 posting; 2 modals, 2 applications, a pair of jobs, every fault; or 1 modal that asks twice, 2 pairs of jobs; in both, emails asked for without a modal; 1,217,066 states | `OneApplicationPerPosting` unless two requests crossed or one was created by hand. `JobsKeepTheirApplication`: an application that has a CV or a draft when a job is inserted for it is not deleted any more; the jobs of Easy Apply are all of that kind. `LastWordHolds`: an end that was shown stays true, whatever callbacks come later. `ReviewedBeforeSent` unless a completion fell between the PUT and the POST of Send now |
| `parts` | `Mailbox` (2 settings, 2 tests), `MasterCv` (3 versions, 2 authors, 2 readers), `Portfolio` (1 file, 2 urls, 2 scans, 2 imports), `Migrations` (1 posting, 1 configuration, 1 account): each alone; 1,359,484 states | `MailGoesByTestedSettings` unless a test committed over a changed row. `OneActiveMaster` unless two saves read the same row, and then `DownloadMatchesRow`: never another version's content, though it may be a torn file. `OneRowPerKey` unless lookups overlapped or the url came by a way that looks nothing up, `CuratedHintKept` unless the review fell into a scan. `SourcesOnce` and `RollbackKeepsUsage`, after any deployments and rollbacks |
| `own_row` | 1 application, 2 CVs, no faults | finding 1 |
| `follow_up` | 1 application, 2 types, two requests | finding 2 |
| `stale_artifact` | 1 CV, 2 downloads, edits, no faults | finding 3 |
| `usage_forgotten` | 2 runs, 1 account, 1 job, no faults | finding 4 |
| `modal_stuck` | 1 modal, 1 pair of jobs, no faults | finding 5 |

### Bounds, and why they are enough

**Cuts.** Five runs give TLC only a part of the steps of their specification; every step they take is a step of it, so
what they find is real, and the theorems of section 5 hold without any cut. The cuts follow what the properties relate:

* `MCRenderedCv`: *nothing rendered* (two applications, CVs and jobs) or *one CV* that is rendered. No step of
  rendering reads another row. What a second CV adds is a callback that goes elsewhere, and that leaves this row alone.
* `MCSentEmail`: *regenerating* (two jobs and completions at once, a user who approves) or *sending one* draft (edited,
  approved, regenerated by one job). Duplicates and copies are a matter of completions, records of mails one of senders.
* `MCEnrichment`: *one account* with a posting, or *pages alone* with two accounts. Rotation is a question of the pool, lengths are one of the posting. Once an account
  has a page unrecorded (`cut`), only what is in both goes on: pages alone, with one account.
* `MCEasyApply`: *one pair* of jobs with two modals and every fault, or *one modal* that asks twice, without failures. The second pair exists
  because an overtaking completion must be another job's.
* `MCParts`: `Parts` has four parts that share no variable; one moves while the others are where they began (`PartsStayApart`, a lemma of the proofs, is why that is enough): every reachable state of
  each part by itself is there. Within `Portfolio` files and urls take turns likewise, within
  `Migrations` the postings and the other tables. Rows of these kinds meet in one action alone, a PATCH that gives a
  file's row a url, which happens while no scan and no import is under way (`Quiet`). Within `MasterCv` saves of every kind collide while nothing is downloaded;
  the versions that are downloaded come of scripts that save one after the other.

**Constants.**

* `MaxJobs`, `MaxCvs` = 2: every property speaks of one row or of two of one
  application; with two, rows and jobs may be for the same application or not, in
  either order.
* `Workers`, `Viewers`, `Callbacks`, `Senders` = 2: every race above is between two.
* `Versions`: two typed texts, so that an edit may follow an edit, and 0, the empty
  text, which makes a row that is `edited` without content.
* `MaxTwins` = 2: the second row of a type is the first wrong one. With both in
  place every further completion with that type is rolled back, so there is no third
  except from a third thread.
* `MaxMails` = 2: a draft sent twice.
* `Results`: results with both types, or with a follow-up alone, which the crossing of
  follow-ups needs; one with no body at all is in `sent_email`.
* `Progress` = {0}: no property reads the percentage; that a report is a step of its
  own, at any time, is what matters.
* `Runs` = 2, `Accounts` = 1: contention for an account and for a job is between two runs; with
  `Gated` = 2 a run comes back to the account it already has. `scrapes_end` has no account: a run
  that finds none goes on, so accounts add nothing to wait for. It has two jobs, which
  make the shortest circle of waits.
* `Monthlies` = {4}, `Costs` = {3}, `Reserve` = 1: the first scrape leaves just the reserve, so the
  second may overdraw; the user can then reactivate the account. `MaxSpent` stops new runs once that much
  was spent from an account.
* `Callers` = 2, `Accounts` = 2: contention is between two calls, rotation between two accounts.
  With `MaxTries` = 2 and `MaxFailures` = 2 a call may suspend an account by itself. `Monthlies` = {3},
  `Margin` = 1: an account is exhausted by its second page, and can be reactivated. `MaxClock` = 1: a call begins only
  while fewer than that many accounts were given to calls, so both callers may begin before the first of them gets its account; their retries
  then go as far as they go.
* `Postings` = 1, `Tabs` = 2, `Applications` = 2: two requests create at most one application each, and one by hand makes the second.
  No step of one posting reads another. Two pairs of jobs for one application are what a retry and a second Easy Apply make.
* `Templates` = {"plain"}: files of two templates never share a name. `MaxMasters` = 3: two saves that collide and one that
  builds on what they have left.
* `MaxRank` = 2, `Contents` = 2: a file listed twice, and a file that has changed since it was loaded. `Urls` = 2: a row that goes from one
  url to another. `Depths` = {0, 1, 2}: a description with no tags, with tags, and with escaped ones.
* `Pages` = {1, 4}, `MaxUsed` = 24: sums on both sides of every half cent (5 credits), up to two cents. `Limits`: 525 is what the
  upgrade gives an account below a dollar, 1500 one above.
* Symmetry is used on threads, modals, urls and Firecrawl accounts only, and in no run with a liveness property.

Deadlock checking is on except in `easy_apply`, `modal_stuck` and `parts`, where everything really may have been done: ids are used up,
the posting is gone, all parts are at their bounds. Where `restart` is a fault it always has a next step
and says little; the other runs without it stop nowhere before their violation.

### Fairness

`CvFairSpec` (and `MCRenderedCv.MCSpec`, which repeats it), `ScrapeRun.FairSpec` and `EasyApply.FairSpec` have any. In the first, each skill that runs eventually completes its job or
exits (`SkillEnds`): the CLI is a finite program, and reporting progress for ever is
not enough. A request thread about to spawn gets there: there is nothing for it
to wait for. There is no fairness on users or faults. What the code does *not*
give is an end for a job whose subprocess has died: `AnswerReachesNewest` names
that outcome (`Lost`) as the one that remains.

In the second, a run that is under way goes on (weak fairness). Of the scrapers this is justified for the free sources, whose clients
(httpx, and what `python-jobspy` does for itself, which is taken on trust) have time limits; the client of Apify has none for an actor run
(`linkedin_apify.py:45`, `wellfound_apify.py:43`), so a run that waits for one may last as long as Apify likes. `scrapes_end` has no account, and gated
sources are skipped. A wait for another run's insert is ended by that run, or by Postgres. That a row is refused is owed by nobody. An insert that waits is woken each time the run it waits for ends,
and gets its turn at last (strong fairness of `Insert`): with weak fairness alone TLC shows a run
that starves while ever new runs insert the job and roll back.

In the third, requests and renders go on, sockets are polled and capped at 600 s, and a skill that runs completes,
fails or ends. The user owes nothing, and need not close the modal, which has no button for it in that phase. It is used by `modal_stuck` alone: without it
the counterexample could be a system that just stops.

## 4. Findings

1. **A callback fills another request's row** (`own_row`). `cv_generator.py:53`
   wires the job to its row "for later callback dispatch"; `callbacks.py:215-220`
   never reads the link and fills the newest row of the application.
2. **A follow-up request rewrites every draft** (`follow_up`). `emails.py:49-50`
   promises "only the requested email_type row"; the type goes nowhere, and the callback upserts every type of the result. TLC's shortest
   trace has it insert an initial draft that nobody asked for; the same action rewrites one that is there.
3. **An edit during a download is undone** (`stale_artifact`). `cv.py:668`
   invalidates the paths; the download commits them again (`cv.py:758-760`).
4. **A collision forgets what a scrape has cost** (`usage_forgotten`). `record_usage` only flushes;
   the rollback in `_persist` (`scraper_service.py:195`) undoes the charge, the usage log and the
   lock. `apify_pool.py:8` and `scraper_service.py:29-30` promise a tracked account.
5. **Easy Apply never comes to the review** (`modal_stuck`). `EasyApplyModal.tsx:60` fetches the emails when the request
   answers, which is before the skill has written one. When both jobs have completed nothing fetches them again
   (`providers.tsx:9-15`: no refetch on focus), the initial email stays null, and the modal stays in a phase in which
   it cannot be closed. Only a browser that has been offline in between fetches once more, or a second Easy Apply on the same posting finds
   the drafts of the first. `docs/plans/2026-04-30-jobhunter-pool-apply-feedback.md:79` has the draft ready for review follow the progress.

Besides, the provisos of the passing properties are worth a reader's attention: two
completions at once leave two initial drafts, and every later completion of that
application with an initial email answers 500 (`crossed`); an approval given while a completion is
appending to IMAP ends up on another text (`raced`), and so does one given in the milliseconds between the load and the commit of an edit, which
`ColdEmail` has as one step; a lost SMTP reply leaves
a mail nobody recorded (`cut`); when two enrichments of a posting overlap, the shorter page may come last.
`RetryRotates` is as weak as it reads: `last_used_at` comes second to the priority, so all retries of a call
may go to one account that fails, until that is suspended, while another of lower priority would do. And an account with
exactly the margin left stays `active` but is never taken: `acquire_account` wants the margin and one page
(`firecrawl_service.py:92`), `record_usage` exhausts below the margin (`:157`).

Further provisos: two easy-apply requests at once leave two applications, and then every Easy Apply on that posting
answers 500 (`twice`); a completion between the PUT and the POST of Send now is mailed unread (`overtaken`); a connection test that
outlives a change of the settings activates what it has not tried, or leaves an active row with a failed test (`mixed`); two saves of the
master CV leave two active versions with one number, and a download may serve the file of the other (`collided`); a portfolio file
with two rows makes `one_or_none` raise in every later scan that reads it, and POST, PATCH and the import of scraped pages set urls that other rows have (`doubled`); a job for
emails that was asked for by hand loses its application when that is deleted, which nothing refuses as long as it has neither CV nor draft (`bare`).

Known from reading the code, and modelled:

* A converter that exits with 0 and writes nothing is noticed only on the first
  render. `docx_service.py:134` tests that the output is there, and on a second render it is, from the first. The rows to which
  that has happened are `suspect` in `RenderedCv`.
* A master CV whose rendering failed half way or was killed is served torn from then on, until the next version (`cv.py:602`, see *Files that are torn*).
* A Firecrawl answer that is JSON but no object, say, ends the call with an exception that only the request handler sees; a page the server has counted
  is in no row (`firecrawl_service.py:289-293`, `Escape`).
* A failure of `log_dir.mkdir` (`claude_service.py:75-76`) is outside the `try`: the job stays `running` with no process (`LaunchFails`).
* `strip_html` parses once (`html_strip.py:41-58`), so that escaped tags come out as tags, and revision 8, run again, takes those too
  (`RerunsAreNoOps` says for which descriptions it is a no-op).
* `ws.py`'s timeout frame tells the client to fall back to polling; `EasyApplyModal.tsx` treats it as a failure.
* Revisions 8 and 9 delete postings and take for granted that foreign keys let them (`008_cleanup_jobs.py:66`: "Cascade-safe: scraped_jobs FKs allow
  NULL cleanup elsewhere."). `applications.job_id` does not: with one application to such a posting the upgrade raises and the
  container never starts (`Raises`). Revision 9 also replaces keywords the user has entered, and deletes postings the user has triaged.
* Revision 12 down and up again turns 1500 monthly credits into 1.50 dollars and those into 2 credits
  (`RollbackKeepsUsage` is about usage only); revision 11 down drops the accounts.

Known from reading the code, below the models' resolution: `apify_accounts.credit_used_usd` has two decimals and `apify_usage_log`
four, so the running total is rounded at every commit. `reset_monthly_quotas` has no caller: an exhausted account stays so until it is
reactivated by hand. `progress_log` is read, extended and written back, so two reports at once lose an entry; nothing but the socket
reads it. The Easy Apply email is written from the newest CV of the application while that is still pending (`callbacks.py:301-334`),
though the plan (`:76`) has it read the tailored CV. `generated_cvs.master_cv_id` is fixed at the request, while
the skill fetches whichever version is active when it starts. `docs/user-guide.md:179` has APScheduler trigger each active configuration; one that
is created or reactivated has no trigger until the next restart (`cron` in `ScrapeRun`).

## 5. The proofs

The theorems hold for every number of jobs, CVs, threads, applications and texts, and
every set of faults. They use only the `ASSUME`s of the modules, none of which bounds a size.

* `AgentJobsProofs`: `JobsTyping`, and `EndedJobsStayEnded` from it: no action
  writes `running` to a row that is there, not even a late completion that
  writes its net change.
* `TailoredCvProofs`: `CvInvariant` is the inductive invariant `CvInv`. None of the
  three properties is inductive alone. `LogNamesOneJobPerCv` needs to know what a
  request holds between its commits: that its row exists and its job is for the
  same application (`RequestsHoldTheirRows`), and that no row is wired to that
  job yet and no other request has it (`RequestsOwnTheirJobs`). The last holds
  because an inserted id is new, which is what the typing `procs[j] = "none" <=>
  jobs[j] = NoJob` and the former conjunct give. `NoOrphanTailoring` needs that an
  inserted job is for a request's row. From the invariant: `CvTyping`,
  `CallbackFindsARow`, `TextStaysHome`, `LogIsOneToOne`, `CvImplementsJobs`,
  `CvJobsNeverReopen` and `CvImplementsShelf`, whose core is that the newest row of an
  application in `cvs` is the newest on the shelf.
* `RenderedCvProofs`: `RenderImplementsCv` first, so that `CvInv` is had for free,
  then `RenderInvariant`. `EditedArtifactFresh` is about what is on disk when paths are
  committed, so the invariant says what each download has read and written so far:
  `DownloadsHaveText` in general, `DownloadsOfEditAgree` for a row whose edit no
  download overlapped. One lemma per action; steps of other rows are dealt
  with once, because an action touches one row.

* `ScrapeRunProofs`: `ScrapeInvariant`. The pool is proved about on its own first, one lemma per
  operation of `ApifyPool`, so that the steps of runs only cite them. `UsageIsKept` needs that a locked row is
  there and locked once, and that an account nobody has created has cost nothing. `OverdrawnOnceAtMost` is about what a commit
  publishes, so the invariant says of every locked row that was charged that it is within
  the budget up to one cost (`ChargedWithinBudget`), which holds because the account a run scrapes with
  had a budget when it got it and is its own since (`ScrapesWithItsAccount`). From the
  invariant: `ScrapeTyping`, `OneRunPerAccount`, `CreditIsSpent`, `OneScrapeOverBudget`.
  `FoundStays` has a small invariant of its own (`FoundInv`): what is found and not in the table is still to be
  looked up or inserted, or the run was rolled back.

* `EnrichmentProofs`: `EnrichInvariant`, again with the pool on its own first. `UsageIsKept` needs `HeldIsThere`:
  a row a call has is not deleted under it. `HeadroomKept` needs `HeldHasBudget`: the row still has the budget it was
  taken with, because the user's PATCH waits for the call. `RetryRotates` needs `TriedSince`, what a call has tried was used
  since it began, and `BegunBefore`. `TextGrows` needs that a job without overlap has one enricher (`OneEnricher`) and
  that the length it has read is still the description's (`LengthIsCurrent`). From the invariant: `EnrichTyping`,
  `OneCallPerAccount`, `PaidIsRecorded`, `MarginIsLeft`, `RetriesRotate`, `TextsGrow`.

* `SentEmailProofs`, of `ColdEmail`: `DraftInv`. A completion works for seconds with what it has found, so the invariant says what that is still worth:
  the rows are there (`FillsHoldTheirRows`), and unless completions of the application cross, it is alone and finds at its commit what it has
  queried (`LooksAreCurrent`), which is what keeps `OneDraftPerType`. `CopiesAreFiled`: a message id that a thread has is in the
  folder. `ApprovalsAreRaced`: a row approved while a completion holds it as a draft is on record. From it: `DraftTyping`, `DraftsAreUpserted`,
  `LinksHold`, `ApprovalsHold`, `DraftsImplementJobs`.
* `SentEmailProofs`, of `SentEmail`: `SendInv` is little more than `MailIsRecorded` itself, with typing and `SendersHoldTheirDrafts`, because a sender's commit is
  `ColdEmail`'s action of marking a draft sent. That step simulation (`SendsImplementDrafts`) brings `ApprovalCoversText` over (`SendsKeepApprovals`);
  `SendTyping` and `MailsAreRecorded` come from the invariant.
* `EasyApplyProofs`: `EasyInv`. `JobsKeepTheirApplication` needs to know why every job but a `bare` one is inserted for an
  application that is held (`JobsAreHeld`): by a CV, for the jobs of a request (`RequestsHoldTheirRows`: a request past `InsertCv` has one), by a CV or a draft for
  those asked for by hand; and that what is held cannot be deleted (`HeldStay`). `OneApplicationPerPosting` needs that a request that has found nothing is alone with its posting, and right, until it commits
  (`CreatesAreAlone`). `ReviewedBeforeSent` needs the step before: what is about to be sent was seen (`SavedIsSeen`). `LastWordHolds` is
  `EndedStepStaysEnded` of `AgentJobs`, once each hook is known to watch a row that exists (`WatchesAreSound`). `ModalsAreSound` ties a modal's
  phase to what it holds. Which steps reach a phase, and which touch an application, is stated once (`PlacesAreReached`, `AppsMove`). From them:
  `EasyTyping`, `PostingsHaveOne`, `JobsKeepApps`, `ShownEndsHold`, `SentIsReviewed`, `EasyApplyImplementsJobs`.
* `PartsProofs`: three invariants. `BoxInv`: a test that is not outdated has loaded the row that is there (`TestsAreCurrent`).
  `MasterInv`: versions grow with ids (`VersionsFollowIds`), and unless saves have collided
  versions differ and the one save under way holds the active row (`VersionsDiffer`, `SavesAreCurrent`), so that a file's name stands for one row, and what is in it is that row's content or torn (`FilesAreNamed`).
  `PortfolioInv`: rows of a key are inserted in order (`RanksInOrder`), lookups that overlap are on record (`LookupsAreAlone`), what was not found is
  still not there (`LookupsAreCurrent`), and a row loaded as a draft is one or is `held` (`DraftsAreHeld`). From them: `MailGoesByTests`, `OneMasterIsActive`,
  `DownloadsMatch`, `KeysHaveOneRow`, `HintsAreKept`.

**Termination, without fairness.** `JobsInsertedOnce`: `InsertedOnce`, that no two runs have the same job uncommitted, is inductive because an insert waits for whoever has
inserted the job, and a commit removes it from `mine` as it enters the table. `RunsDescend` and `CallsDescend` give each run and
each call a variant that whatever changes it lowers: sources left, jobs left, steps left;
tries left, steps left. That none of them waits for ever is `RunsEnd`, and TLC's.

**The refinements of Lease.** `CallsLease` comes from the invariant of the pool, one lemma for each operation: what matters is
that `NetChange` writes no usage and that a held row stays (`HeldIsThere`). `RunsLease` needs one invariant more,
`ChargesAdd`: a row that a run has locked has at least the credit of the committed row, or a commit could take usage back. The run
of charges inside one transaction maps to one `GiveBack`.

**Revisions** (in `PartsProofs`). `MigrationsInv` says of a database at every revision on the way of an upgrade or a downgrade
what `Kept` says: it is well typed, fits its columns, lists no source twice, and its account's usage is what a release last wrote
up to rounding: exact in credits until it was cents for the first time, then whole cents (`AccountIsKept`, `CentsAndCredits`).
Paths of revisions are recursive functions on numbers; each revision has a lemma of its own (`ExtendedRows`, `InCreditsRows`, ...), and the paths are
followed by well-founded minima instead of the library's induction theorems (see below). From the invariant:
`SourcesListedOnce` and `RollbacksKeepUsage`. `RerunsAreNoOps` is about any database, reachable or not, and revisions 4, 5 and 8, which
say they may run again: 4 and 5 are idempotent; 8 takes no further posting, and changes no description but one with escaped tags. The lemma `PartsStayApart` puts the four parts
into one server, and `PartsTyping` is the type invariant of that.

**Carried over by refinement.** `RenderKeepsCv`, `SendsKeepDrafts`, `SendsKeepApprovals` and `EasyJobsNeverReopen`: what was proved of a
module holds of every module that implements it.

`CvInv` and `RenderInv` were given to TLC as invariants before
they were proved.

**Only model-checked**: `AnswerReachesNewest` and `RunsEnd`, which are liveness, and so are the violated properties. All other properties of
the passing runs are theorems. The library's induction theorems take an operator as a parameter, which no installed prover can instantiate; what is
argued by induction here, the paths of revisions, goes by a least counterexample in a set of numbers instead.

## 6. Not modelled, and why

* The wording of prompts, results, mails, documents and scores; `score_cv`'s arithmetic, the layout in `master_cv_renderer`, the
  word lists of the title filter.
* `progress_log` and `current_step`, and the context payloads.
* `GET` handlers that change nothing; the kanban's statistics, and the activity log.
* The job board scrapers: one request and a mapping of fields each. Authentication: stateless tokens for one user.
* The result of a `job_score` job, which writes one score per posting and touches nothing else.
* The statistics of scrape runs, cron expressions, the outcomes of `record_usage` that no caller
  reports, and the cents `credit_used_usd` is rounded to.
* The connection test of a Firecrawl account, which writes nothing; the page it costs is in no row.
* What company research and imports do with a page.
* A posting that a run's sources list twice is looked up once (it matters only after a rollback).
* `MasterCv`: files outlive a new template of a deployment. The side import of portfolio items during a JSON
  import of the CV is `BeginImport`/`CommitImport` of `Portfolio`.
* `EasyApply`: the send is SMTP and commit in one step (`SentEmail` takes it apart), follow-ups and the IMAP copies are left out. `AskEmails` looks the application up
  and inserts the job in one step (one that is deleted in between is like one deleted just after). Other requests for a CV (`POST /api/cv/generate`) insert one first, as
  a request of the modal does, and are left out.
* `Portfolio`: items without a url, which every import adds once more, and columns that only show. A file's row that a PATCH gives a url is entered twice, under the file and
  under the url, and the two entries are then reviewed and deleted each for itself: more than the code does, and every property holds of it nevertheless. `BeginScan` may read any
  of the files, whatever the paths asked for and the files that cannot be parsed.
* `Migrations`: what a description says, but for how often it can be stripped; types, indexes and constraints no data depends on. A posting without a title (kept by revision 8, deleted by 9) counts as
  off topic. A configuration that lists a source twice, which the API accepts and the browser cannot send.

## 7. What could follow

* An abstract specification of the drafts, as `CvShelf` is one of the CVs: who may change a text under which status.
* That a database brought to the last revision is one a newly created server could have.
* `EasyApply` on `TailoredCv` and `ColdEmail` themselves, in place of the rows it has of them: a larger composition that reaches states only
  through the provisos each of them already names.

## 8. Running it

```
tlc -workers 2 -config MCRenderedCv.cfg MCRenderedCv      # and so on, see PROJECT.json "runs"
tlapm TailoredCvProofs.tla                                 # and the other *Proofs modules
```
