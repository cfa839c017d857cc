---------------------------- MODULE MCEnrichment ----------------------------
(***************************************************************************)
(* Enrichment with two callers and two accounts.  The second account is    *)
(* there only when no posting is: what is said of the texts is said with   *)
(* one account and other pages, what is said of the pool is said with two  *)
(* and other pages.  What goes on with an account that has a page          *)
(* unrecorded is seen with one account and other pages.                    *)
(***************************************************************************)
EXTENDS Enrichment, FiniteSets, TLC

MCFaults == {"restart", "no_page", "odd_answer"}

OneAccount == Cardinality({a \in Accounts : accts[a] # Absent}) <= 1

PagesAlone ==
    /\ crossed = {}
    /\ \A j \in Jobs : text[j] = Removed /\ \A c \in Callers : ~Enriches(c, j)

\* The specification, cut to the states of these kinds.
Instance == (OneAccount \/ PagesAlone) /\ (cut = {} \/ (OneAccount /\ PagesAlone))

MCSpec == Init /\ [][Next /\ Instance']_vars

MCSymmetry == Permutations(Callers) \union Permutations(Accounts)
=============================================================================
