------------------------------- MODULE MCParts -------------------------------
(***************************************************************************)
(* The four parts never meet, so that what can be said of each is said by  *)
(* the runs in which it alone moves: a step is taken by one part while the *)
(* others are where they began.  Within Portfolio the same goes for the    *)
(* files and the urls, which meet only where a file's row is given a url,  *)
(* within Migrations for the postings and the other tables.  The master CV *)
(* is saved in every way, and by several at once, while nothing is         *)
(* downloaded; the versions that are downloaded come of scripts that save  *)
(* one after the other.                                                    *)
(***************************************************************************)
EXTENDS Parts, TLC

MailboxAlone == MasterInit /\ PortfolioInit /\ MigrationsInit /\ MailboxStep

Unread ==
    /\ \A r \in Readers : reader[r] = NotReading /\ served[r].got = 0
    /\ \A f \in FileNames : files[f] = 0

\* Once saves have collided nothing is said of downloads.
OneSaves ==
    /\ ~collided
    /\ \A a \in Authors : author[a].pc \in {"idle", "save"}

MasterAlone ==
    /\ BoxInit /\ PortfolioInit /\ MigrationsInit
    /\ MasterStep
    /\ Unread' \/ OneSaves'

Untouched(keys) ==
    /\ \A key \in keys, n \in Ranks : assets[<<key, n>>] = NoAsset
    /\ IF keys = Urls THEN \A i \in Importers : import[i] = Idle
                      ELSE \A t \in Scanners : scan[t] = Idle

\* A file's row is given a url while nothing else goes on.
Quiet ==
    /\ \A t \in Scanners : scan[t] = Idle
    /\ \A i \in Importers : import[i] = Idle
    /\ \A key \in Keys, n \in Ranks \ {1} : assets[<<key, n>>] = NoAsset

PortfolioAlone ==
    /\ BoxInit /\ MasterInit /\ MigrationsInit
    /\ PortfolioStep
    /\ Untouched(Sources)' \/ Untouched(Urls)' \/ Quiet'

\* The configurations are then what the seeds make of them.
PostingsAlone ==
    /\ db.account = Nothing
    /\ db.source = "none"
    /\ db.configs \in {f.configs : f \in {Empty, Seeded(Empty), Extended(Seeded(Empty)),
                                         Refined(Extended(Seeded(Empty)))}}

MigrationsAlone ==
    /\ BoxInit /\ MasterInit /\ PortfolioInit
    /\ MigrationsStep
    /\ db'.jobs = Empty.jobs \/ PostingsAlone'

AloneNext == MailboxAlone \/ MasterAlone \/ PortfolioAlone \/ MigrationsAlone

AloneSpec == Init /\ [][AloneNext]_vars

\* The threads of all parts go by the same names.
Symmetry == Permutations(Testers) \union Permutations(Urls)
=============================================================================
