----------------------------- MODULE MCSentEmail -----------------------------
(***************************************************************************)
(* SentEmail, and through it ColdEmail, on one application, seen from two  *)
(* sides.  Every step is a step of Next; a run may go from one side to the *)
(* other, but a step of one side alone is not followed by one of the other *)
(* that it has put out of bounds.                                          *)
(***************************************************************************)
EXTENDS SentEmail, TLC

MCJobTypes == {"cold_email"}

MCResults == {{"initial", "follow_up_1"}, {"follow_up_1"}, {"initial"}, {}}

MCProgress == {0}

MCAppStatuses == {"targeting", "applied", "email_sent"}

MCFaults == {"duplicate", "restart", "mail_fails"}

MCNoFaults == {}

(***************************************************************************)
(* Two jobs for the application, and two completions at once that fill in  *)
(* a follow-up, while the user approves and nobody sends or edits.  A      *)
(* completion begins once both jobs are there (inserting a job touches     *)
(* nothing a completion reads) and while its own is running.               *)
(***************************************************************************)
Regenerating ==
    /\ \A s \in Senders : snd'[s] = Idle
    /\ \A d \in DraftIds : ~out'[d].to /\ ~out'[d].sentAt /\ drafts'[d].status # "edited"
    /\ \A a \in Applications : apps'[a] = [status |-> "targeting", emailSentAt |-> FALSE]
    /\ \A t \in Callbacks :
          Busy(t)' =>
            /\ \A j \in JobIds : jobs[j] # NoJob
            /\ "follow_up_1" \in cb'[t].types
            /\ (Busy(t) \/ jobs[cb'[t].job].status = "running")

(***************************************************************************)
(* One job and the initial draft alone, edited, approved and regenerated   *)
(* while it is sent; two requests at once send it when no completion is    *)
(* under way, and one beside a completion.                                 *)
(***************************************************************************)
SendingOne ==
    /\ \A d \in DraftIds :
          d \in {<<a, "initial", 1>> : a \in Applications} \/ drafts'[d] = NoDraft
    /\ \A j \in JobIds : j > 1 => jobs'[j] = NoJob
    /\ \A t, u \in Callbacks : Busy(t)' /\ Busy(u)' => t = u
    /\ \A t \in Callbacks :
          Busy(t)' => "follow_up_1" \notin cb'[t].types /\ \E s \in Senders : snd'[s] = Idle

MCSpec == Init /\ [][Next /\ (Regenerating \/ SendingOne)]_vars

ThreadSymmetry == Permutations(Senders) \union Permutations(Callbacks)
=============================================================================
