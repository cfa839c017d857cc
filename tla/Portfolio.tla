----------------------------- MODULE Portfolio -----------------------------
(***************************************************************************)
(* The portfolio assets: drafts from a scan of CLAUDE.md files and from    *)
(* imports of a site, reviewed by the user.                                *)
(*                                                                         *)
(* A scan looks every file up by source_path and commits all rows at once; *)
(* an import of the portfolio API looks its urls up and commits at once.   *)
(* The table has no unique constraint.  Sessions have autoflush off, so a  *)
(* query does not see the rows its own transaction has added.              *)
(*                                                                         *)
(* A row is known by its key, the file or url it stands for, and its rank  *)
(* among the rows with that key; a rank is never used again.  A file's row *)
(* that is given a url is entered for the url a second time.  Items of an  *)
(* import without a url have no key: each import adds them once more, and  *)
(* they are left out.                                                      *)
(***************************************************************************)
EXTENDS Naturals, Orm

CONSTANTS
    Sources,     \* the CLAUDE.md files under the scan paths
    Urls,        \* the urls an import may come with
    Contents,    \* what a file may say: its content_hash and the hint inferred from it
    MaxRank,     \* bound: rows ever inserted with one key
    Scanners,    \* threads that may be inside a scan at once
    Importers    \* threads that may be inside an import at once

ASSUME PortfolioAssumption ==
    /\ MaxRank \in Nat \ {0}
    /\ Sources \intersect Urls = {}
    /\ "curated" \notin Contents

VARIABLES
    assets,     \* the portfolio_assets table
    disk,       \* what each file says
    scan,       \* each scan's place
    import,     \* each import's place
    doubled,    \* history: keys with two lookups under way at once, or another way in
    held        \* history: rows reviewed or curated while a scan had them loaded as drafts

portfolioVars == <<assets, disk, scan, import, doubled, held>>

Keys == Sources \union Urls

Ranks == 1 .. MaxRank

AssetIds == Keys \X Ranks

\* hint: relevance_hint; hash: metrics.content_hash.  What an import says never changes.
Asset == [status: {"draft", "published", "skipped"}, hint: Contents \union {"curated", "api"},
          hash: Contents \union {"api"}]

NoAsset == [status |-> "absent"]

DeletedAsset == [status |-> "deleted"]

Idle == [pc |-> "idle"]

\* A file's row as the scan has loaded it, with its rank (0: none), and what the file said.
Hit == [rank: Ranks \union {0}, row: Asset \union {NoAsset}, says: Contents]

\* hits: the files the scan has read; twin: those that two of its paths lead to.
Hits == UNION {[files -> Hit] : files \in SUBSET Sources}

Scanning == [pc: {"commit"}, hits: Hits, twin: SUBSET Sources]

Importing == [pc: {"commit"}, new: SUBSET Urls]

PortfolioTypeOK ==
    /\ assets \in [AssetIds -> Asset \union {NoAsset, DeletedAsset}]
    /\ disk \in [Sources -> Contents]
    /\ scan \in [Scanners -> Scanning \union {Idle}]
    /\ import \in [Importers -> Importing \union {Idle}]
    /\ doubled \subseteq Keys
    /\ held \subseteq AssetIds

PortfolioInit ==
    /\ assets = [x \in AssetIds |-> NoAsset]
    /\ \E says \in Contents : disk = [s \in Sources |-> says]
    /\ scan = [s \in Scanners |-> Idle]
    /\ import = [i \in Importers |-> Idle]
    /\ doubled = {}
    /\ held = {}

InTable(x) == assets[x] \notin {NoAsset, DeletedAsset}

Rows(key) == {n \in Ranks : InTable(<<key, n>>)}

\* Two rows of one key: one_or_none raises.
Doubled(key) == \E m, n \in Rows(key) : m # n

Fresh(key) == {n \in Ranks : assets[<<key, n>>] = NoAsset}

NextRank(key) == CHOOSE n \in Fresh(key) : \A m \in Fresh(key) : n <= m

-----------------------------------------------------------------------------
(***************************************************************************)
(* POST /api/portfolio/audit                                               *)
(***************************************************************************)

Found(key) ==
    IF Rows(key) = {} THEN [rank |-> 0, row |-> NoAsset, says |-> disk[key]]
    ELSE LET n == CHOOSE n \in Rows(key) : TRUE
         IN  [rank |-> n, row |-> assets[<<key, n>>], says |-> disk[key]]

\* Scan t is under way and has read the file.
Scans(t, s) == scan[t] # Idle /\ s \in DOMAIN scan[t].hits

(***************************************************************************)
(* The files under the scan paths, which the request may choose, are read, *)
(* but for those that cannot be, and looked up one after the other; that   *)
(* takes less time than the review of a row, and is one step.  A file      *)
(* doubled in the table ends this scan and every later one that reads it:  *)
(* 500, nothing is written.                                                *)
(***************************************************************************)
BeginScan(t, files, twin) ==
    /\ scan[t] = Idle
    /\ twin \subseteq files
    /\ \A s \in files : ~Doubled(s)
    /\ scan' = [scan EXCEPT ![t] = [pc |-> "commit", twin |-> twin,
                                    hits |-> [s \in files |-> Found(s)]]]
    /\ doubled' = doubled
         \union {s \in files : \E u \in Scanners : Scans(u, s)}
         \union {s \in twin : Rows(s) = {}}
    /\ UNCHANGED <<assets, disk, import, held>>

\* Mutant: a changed file overwrites the hint of any row.
RefreshedAlways(row, hit) ==
    IF hit.row.hash = hit.says THEN row
    ELSE [row EXCEPT !.hash = Written(@, hit.row.hash, hit.says),
                     !.hint = Written(@, hit.row.hint, hit.says)]

\* A changed file refreshes its row; the hint only of a row that was a draft when loaded.
Refreshed(row, hit) ==
    IF hit.row.hash = hit.says THEN row
    ELSE [row EXCEPT !.hash = Written(@, hit.row.hash, hit.says),
                     !.hint = IF hit.row.status = "draft"
                              THEN Written(@, hit.row.hint, hit.says) ELSE @]

\* Mutant: a new draft is stored without the hash of its file.
DraftUnhashed(says) == [status |-> "draft", hint |-> says, hash |-> "none"]

Draft(says) == [status |-> "draft", hint |-> says, hash |-> says]

\* A new file gets a row each time it is reached: the second query misses the first row.
Copies(t, s) == IF s \in scan[t].twin THEN 2 ELSE 1

NewRow(t, new, x) ==
    /\ x[1] \in new
    /\ x[2] \in NextRank(x[1]) .. NextRank(x[1]) + Copies(t, x[1]) - 1

(***************************************************************************)
(* The one commit.  A row deleted meanwhile that is to be refreshed raises *)
(* (StaleDataError) and everything is rolled back.                         *)
(***************************************************************************)
CommitScan(t) ==
    /\ scan[t] # Idle
    /\ LET hits == scan[t].hits
           new == {s \in DOMAIN hits : hits[s].rank = 0}
           gone == {s \in DOMAIN hits \ new : /\ hits[s].row.hash # hits[s].says
                                              /\ ~InTable(<<s, hits[s].rank>>)}
       IN  \/ /\ gone # {}
              /\ UNCHANGED assets
           \/ /\ gone = {}
              /\ \A s \in new : Fresh(s) # {} /\ NextRank(s) + Copies(t, s) - 1 \in Ranks
              /\ assets' = [x \in AssetIds |->
                   IF NewRow(t, new, x) THEN Draft(hits[x[1]].says)
                   ELSE IF x[1] \in DOMAIN hits \ new /\ x[2] = hits[x[1]].rank /\ InTable(x)
                   THEN Refreshed(assets[x], hits[x[1]])
                   ELSE assets[x]]
    /\ scan' = [scan EXCEPT ![t] = Idle]
    /\ UNCHANGED <<disk, import, doubled, held>>

\* A CLAUDE.md is edited.
EditFile(s, says) ==
    /\ disk' = [disk EXCEPT ![s] = says]
    /\ UNCHANGED <<assets, scan, import, doubled, held>>

-----------------------------------------------------------------------------
(***************************************************************************)
(* POST /api/portfolio/import-url, and the side import of a master CV      *)
(***************************************************************************)

\* Mutant: the import does not look at what is there.
UnseenAll(urls) == urls

Unseen(urls) == {url \in urls : Rows(url) = {}}

\* import_portfolio_drafts, once the export has been fetched: urls are its projects.
BeginImport(i, urls) ==
    /\ import[i] = Idle
    /\ import' = [import EXCEPT ![i] = [pc |-> "commit", new |-> Unseen(urls)]]
    /\ doubled' = IF \E k \in Importers : import[k] # Idle THEN doubled \union Urls
                  ELSE doubled
    /\ UNCHANGED <<assets, disk, scan, held>>

Imported(status) == [status |-> status, hint |-> "api", hash |-> "api"]

Added(urls, row) ==
    [x \in AssetIds |-> IF x[1] \in urls /\ x[2] = NextRank(x[1]) THEN row ELSE assets[x]]

CommitImport(i) ==
    /\ import[i] # Idle
    /\ \A url \in import[i].new : Fresh(url) # {}
    /\ assets' = Added(import[i].new, Imported("draft"))
    /\ import' = [import EXCEPT ![i] = Idle]
    /\ UNCHANGED <<disk, scan, doubled, held>>

\* The second path, scraped pages read by the model, looks nothing up; nor does POST,
\* whose rows skip the review.
AddUnchecked(urls, status) ==
    /\ \A url \in urls : Fresh(url) # {}
    /\ assets' = Added(urls, Imported(status))
    /\ doubled' = doubled \union urls
    /\ UNCHANGED <<disk, scan, import, held>>

-----------------------------------------------------------------------------
(***************************************************************************)
(* The review.  publish and skip look at no status; PATCH may set a hint,  *)
(* and a url, which it does not look up.                                   *)
(***************************************************************************)

Loaded(x) ==
    \E t \in Scanners : /\ Scans(t, x[1])
                        /\ scan[t].hits[x[1]].rank = x[2]
                        /\ scan[t].hits[x[1]].row.status = "draft"

ReviewAsset(x, status) ==
    /\ InTable(x)
    /\ assets' = [assets EXCEPT ![x].status = status]
    /\ held' = IF Loaded(x) THEN held \union {x} ELSE held
    /\ UNCHANGED <<disk, scan, import, doubled>>

CurateHint(x) ==
    /\ InTable(x)
    /\ assets' = [assets EXCEPT ![x].hint = "curated"]
    /\ held' = IF Loaded(x) THEN held \union {x} ELSE held \ {x}
    /\ UNCHANGED <<disk, scan, import, doubled>>

\* What an import has added is known by its new url from then on, and no more by the old one.
PatchUrl(x, url) ==
    /\ InTable(x)
    /\ x[1] # url
    /\ Fresh(url) # {}
    /\ assets' = [y \in AssetIds |-> IF y = <<url, NextRank(url)>> THEN assets[x]
                                     ELSE IF y = x /\ x[1] \in Urls THEN DeletedAsset
                                     ELSE assets[y]]
    /\ doubled' = doubled \union {url}
    /\ UNCHANGED <<disk, scan, import, held>>

\* DELETE; a PATCH that clears the url takes what an import has added from its url as well.
DeleteAsset(x) ==
    /\ InTable(x)
    /\ assets' = [assets EXCEPT ![x] = DeletedAsset]
    /\ held' = held \ {x}
    /\ UNCHANGED <<disk, scan, import, doubled>>

RestartPortfolio ==
    /\ scan' = [t \in Scanners |-> Idle]
    /\ import' = [i \in Importers |-> Idle]
    /\ UNCHANGED <<assets, disk, doubled, held>>

-----------------------------------------------------------------------------

PortfolioNext ==
    \/ \E t \in Scanners :
          CommitScan(t) \/ \E files, twin \in SUBSET Sources : BeginScan(t, files, twin)
    \/ \E i \in Importers : CommitImport(i) \/ \E urls \in SUBSET Urls : BeginImport(i, urls)
    \/ \E urls \in SUBSET Urls, status \in {"draft", "published"} : AddUnchecked(urls, status)
    \/ \E s \in Sources, says \in Contents : EditFile(s, says)
    \/ \E x \in AssetIds :
          \/ \E status \in {"published", "skipped"} : ReviewAsset(x, status)
          \/ CurateHint(x) \/ DeleteAsset(x)
          \/ \E url \in Urls : PatchUrl(x, url)
    \/ RestartPortfolio

PortfolioSpec == PortfolioInit /\ [][PortfolioNext]_portfolioVars

-----------------------------------------------------------------------------

(***************************************************************************)
(* "Re-running the import doesn't balloon the drafts queue", nor does a    *)
(* scan: a file or url has one row, unless two lookups overlapped, a scan  *)
(* reached the file twice, or the url came by a way that looks nothing up: *)
(* scraped pages, POST or PATCH.  A file with two rows makes every later   *)
(* scan of it fail.                                                        *)
(***************************************************************************)
OneRowPerKey == \A key \in Keys \ doubled : ~Doubled(key)

(***************************************************************************)
(* "Don't overwrite a human's curated relevance_hint once reviewed": the   *)
(* hint of a reviewed asset changes by the user's hand only, unless the    *)
(* review fell between a scan's read and its commit.                       *)
(***************************************************************************)
CuratedHintKept ==
    [][\A x \in AssetIds \ held :
          /\ InTable(x)
          /\ assets[x].status # "draft"
          /\ assets'[x] # DeletedAsset
          => assets'[x].hint \in {assets[x].hint, "curated"}]_assets
=============================================================================
