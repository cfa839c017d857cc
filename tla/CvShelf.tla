------------------------------- MODULE CvShelf -------------------------------
(***************************************************************************)
(* What tailoring promises a user, without jobs, callbacks, threads or     *)
(* files.  Every request puts one CV on the shelf of its application,      *)
(* newest last.  A skill only ever settles the newest CV of an             *)
(* application: the ones the user has moved on from stay as they are.  The *)
(* user may overwrite any of them.  A settled CV never waits again, and    *)
(* nothing leaves the shelf.                                               *)
(***************************************************************************)
EXTENDS Naturals

CONSTANTS Applications, MaxCvs

VARIABLE shelf

Slots == 1 .. MaxCvs

Statuses == {"pending", "ready", "no_match", "edited"}

Empty == [status |-> "absent"]

CV == [app: Applications, status: Statuses]

Init == shelf = [i \in Slots |-> Empty]

Newest(i) ==
    \A k \in Slots : shelf[k] # Empty /\ shelf[k].app = shelf[i].app => k <= i

Request(i, app) ==
    /\ shelf[i] = Empty
    /\ \A k \in Slots : k < i => shelf[k] # Empty
    /\ shelf' = [shelf EXCEPT ![i] = [app |-> app, status |-> "pending"]]

SkillSettles(i) ==
    /\ shelf[i] # Empty
    /\ Newest(i)
    /\ \E s \in {"ready", "no_match"} : shelf' = [shelf EXCEPT ![i].status = s]

UserSettles(i) ==
    /\ shelf[i] # Empty
    /\ shelf' = [shelf EXCEPT ![i].status = "edited"]

Next ==
    \E i \in Slots :
        \/ \E app \in Applications : Request(i, app)
        \/ SkillSettles(i)
        \/ UserSettles(i)

Spec == Init /\ [][Next]_shelf
=============================================================================
