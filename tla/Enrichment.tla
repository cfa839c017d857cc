----------------------------- MODULE Enrichment -----------------------------
(***************************************************************************)
(* The handlers that scrape pages with FirecrawlPool.                      *)
(*                                                                         *)
(* POST /api/enrichment/job/{id} replaces the description of a posting by  *)
(* its page, if that is longer.  The length it compares with was read      *)
(* before the call, which commits the session's transaction after each     *)
(* attempt.  Company research, CV import and portfolio import scrape pages *)
(* for purposes of their own.  A text is its length.                       *)
(***************************************************************************)
EXTENDS FirecrawlPool

CONSTANTS
    Jobs,       \* the ids of scraped_jobs, with a source_url
    Lengths     \* how long descriptions and pages may be

ASSUME EnrichmentAssumption == Lengths \subseteq Nat /\ "page" \notin Jobs

VARIABLES
    text,       \* description by job, its length and source
    want,       \* what each caller scrapes for, with the length it has read
    crossed     \* history: the jobs with two enrichments under way at once

vars == <<accts, call, adm, clock, charged, cut, text, want, crossed>>

Text == [length: Lengths, source: {"aggregator", "firecrawl_enriched"}]

Removed == [source |-> "removed"]

\* "page" stands for whatever else a page is scraped for.
Wanted == [job: Jobs, before: Lengths] \union {[job |-> "page"]}

TypeOK ==
    /\ PoolTypeOK
    /\ text \in [Jobs -> Text \union {Removed}]
    /\ want \in [Callers -> Wanted \union {Idle}]
    /\ \A c \in Callers : want[c] = Idle <=> call[c] = Idle
    /\ crossed \subseteq Jobs

Init ==
    /\ PoolInit
    /\ text \in [Jobs -> [length: Lengths, source: {"aggregator"}]]
    /\ want = [c \in Callers |-> Idle]
    /\ crossed = {}

Enriches(c, j) == want[c] # Idle /\ want[c].job = j

Listed(j) == text[j] # Removed

-----------------------------------------------------------------------------

BeginEnrich(c, j) ==
    /\ Listed(j)
    /\ BeginCall(c)
    /\ want' = [want EXCEPT ![c] = [job |-> j, before |-> text[j].length]]
    /\ crossed' = IF \E b \in Callers : Enriches(b, j) THEN crossed \union {j} ELSE crossed
    /\ UNCHANGED text

BeginPage(c) ==
    /\ BeginCall(c)
    /\ want' = [want EXCEPT ![c] = [job |-> "page"]]
    /\ UNCHANGED <<text, crossed>>

\* Mutant: whatever the page holds.
AnyLength(length, before) == length > 0

Longer(length, before) == length > before

\* The handler's end: a job that is gone makes the commit raise.
Finish(c, length) ==
    /\ call[c].pc = "done"
    /\ call[c].page \/ length = 0
    /\ text' = IF /\ want[c].job # "page"
                  /\ Listed(want[c].job)
                  /\ Longer(length, want[c].before)
               THEN [text EXCEPT ![want[c].job] =
                       [length |-> length, source |-> "firecrawl_enriched"]]
               ELSE text
    /\ call' = [call EXCEPT ![c] = Idle]
    /\ want' = [want EXCEPT ![c] = Idle]
    /\ UNCHANGED <<accts, adm, clock, charged, cut, crossed>>

DeleteJob(j) ==
    /\ Listed(j)
    /\ text' = [text EXCEPT ![j] = Removed]
    /\ UNCHANGED <<poolVars, want, crossed>>

Restart ==
    /\ KillCalls
    /\ want' = [c \in Callers |-> Idle]
    /\ UNCHANGED <<text, crossed>>

-----------------------------------------------------------------------------

Caller(c) ==
    \/ \E j \in Jobs : BeginEnrich(c, j)
    \/ BeginPage(c)
    \/ Attempt(c) /\ UNCHANGED <<text, want, crossed>>
    \/ \E length \in Lengths \union {0} : Finish(c, length)

Elsewhere ==
    \/ (\E a \in Accounts : CoolDown(a)) /\ UNCHANGED <<text, want, crossed>>
    \/ Administer /\ UNCHANGED <<text, want, crossed>>
    \/ \E j \in Jobs : DeleteJob(j)

Next ==
    \/ \E c \in Callers : Caller(c)
    \/ Elsewhere
    \/ Restart

Spec == Init /\ [][Next]_vars

-----------------------------------------------------------------------------

(***************************************************************************)
(* A description gives way to a longer one only: "Only overwrite if        *)
(* Firecrawl produced something longer than what we had".  Unless two      *)
(* enrichments of the job overlap: then the shorter may come last.         *)
(***************************************************************************)
TextGrows ==
    [][\A j \in Jobs \ crossed :
          Listed(j) /\ text'[j] \in Text /\ text'[j] # text[j] =>
              text'[j].length > text[j].length]_text
=============================================================================
