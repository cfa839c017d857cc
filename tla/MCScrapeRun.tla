----------------------------- MODULE MCScrapeRun -----------------------------
(***************************************************************************)
(* ScrapeRun with two runs, of a configuration with two gated sources for  *)
(* what they spend and keep, and with one for whether they end.            *)
(***************************************************************************)
EXTENDS ScrapeRun, TLC

MCOneSource == [c \in Configs |-> 1]

MCTwoSources == [c \in Configs |-> 2]

MCFaults == {"restart", "scrape_fails", "bad_row"}

MCNoFaults == {}

MCSymmetry == Permutations(Runs)
=============================================================================
