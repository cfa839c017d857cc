---------------------------- MODULE MCEasyApply ----------------------------
(***************************************************************************)
(* EasyApply on one posting, seen from two sides.  Every step is a step of *)
(* Next that stays on a side; a run may go from one to the other where     *)
(* they overlap.                                                           *)
(***************************************************************************)
EXTENDS EasyApply, TLC

MCJobTypes == {"cv_tailor", "cold_email"}

MCViewers == Tabs \X MCJobTypes

MCProgress == {0}

MCFaults == {"spawn_fails", "skill_fails", "silent_exit", "duplicate", "restart",
             "socket_breaks", "no_master", "mail_fails"}

MCNoFaults == {}

\* Two modals and two applications, one pair of jobs, every fault.
OnePair == \A j \in JobIds : j > 2 => jobs[j] = NoJob

(***************************************************************************)
(* One modal that asks, sees its jobs end, is closed and asks once more:   *)
(* a second pair of jobs over the drafts of the first, with no failure     *)
(* but a subprocess that falls silent.                                     *)
(***************************************************************************)
OneModal ==
    /\ procs[1] = "gone"
    /\ \A j \in JobIds : jobs[j] # NoJob => jobs[j].status # "failed"
    /\ \A t, u \in Tabs : tab[t] # Closed /\ tab[u] # Closed => t = u
    /\ \A t \in Tabs : tab[t].pc # "error"
    /\ \A a \in Applications : a > 1 => apps[a] = NoApp
    /\ \A v \in Viewers :
          watch[v].job # 0 /\ ~watch[v].open => watch[v].shown = "completed"

MCSpec == Init /\ [][Next /\ (OnePair \/ OneModal)']_vars

TabSymmetry == Permutations(Tabs)
=============================================================================
