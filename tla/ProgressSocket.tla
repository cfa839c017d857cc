--------------------------- MODULE ProgressSocket ---------------------------
(***************************************************************************)
(* The progress of an agent job as a browser sees it.                      *)
(*                                                                         *)
(* /ws/progress/{id} reads the row every two seconds, sends it when it has *)
(* changed, and hangs up after an end or after 600 seconds.  useProgress   *)
(* keeps the last frame; it has an onerror handler and no onclose handler, *)
(* so a socket that is closed without an error leaves that frame standing. *)
(* No row of agent_jobs is ever deleted, and the token is valid.           *)
(***************************************************************************)
EXTENDS AgentJobs

CONSTANT Viewers    \* the useProgress hooks in the browsers

VARIABLE watch      \* what each viewer is connected to, and the last it was shown

Ended == {"completed", "failed"}

\* "broken" is a status "failed" that the client made up.
Watch == [job: JobIds \union {0},
          shown: {"nothing", "timeout", "broken"} \union JobStatuses, open: BOOLEAN]

NotWatching == [job |-> 0, shown |-> "nothing", open |-> FALSE]

Watching(j) == [job |-> j, shown |-> "nothing", open |-> TRUE]

WatchTypeOK ==
    /\ JobsTypeOK
    /\ watch \in [Viewers -> Watch]

WatchInit ==
    /\ JobsInit
    /\ watch = [v \in Viewers |-> NotWatching]

StatusOf(v) == jobs[watch[v].job].status

\* One round of the loop that finds a new status, and the client's answer to an end.
Poll(v) ==
    /\ watch[v].open
    /\ watch[v].shown # StatusOf(v)
    /\ watch' = [watch EXCEPT ![v].shown = StatusOf(v), ![v].open = StatusOf(v) \notin Ended]
    /\ UNCHANGED jobVars

\* 600 seconds have gone by: the job is no longer looked at.
GiveUp(v) ==
    /\ watch[v].open
    /\ watch' = [watch EXCEPT ![v].shown = "timeout", ![v].open = FALSE]
    /\ UNCHANGED jobVars

\* The socket is gone; an error turns the last frame, if there was one, into a failure.
BrokenOff(v, withError) ==
    IF ~watch[v].open THEN watch[v]
    ELSE [watch[v] EXCEPT !.open = FALSE,
                          !.shown = IF withError /\ @ # "nothing" THEN "broken" ELSE @]

Break(v) ==
    /\ "socket_breaks" \in Faults
    /\ watch[v].open
    /\ \E withError \in BOOLEAN : watch' = [watch EXCEPT ![v] = BrokenOff(v, withError)]
    /\ UNCHANGED jobVars

\* The hooks of these viewers unmount, or are given no job.
HangUp(vs) == watch' = [v \in Viewers |-> IF v \in vs THEN NotWatching ELSE watch[v]]

\* The container goes down, and every socket with it.
BreakAll ==
    \E errors \in SUBSET Viewers : watch' = [v \in Viewers |-> BrokenOff(v, v \in errors)]

(***************************************************************************)
(* What a browser has been told of the end of a job holds: the hook hangs  *)
(* up at the first end and is never corrected, so a job shown as completed *)
(* or failed must have ended, for good, whatever callbacks come later.     *)
(***************************************************************************)
LastWordHolds ==
    \A v \in Viewers : watch[v].shown \in Ended => StatusOf(v) \in Ended
=============================================================================
