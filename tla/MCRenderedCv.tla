----------------------------- MODULE MCRenderedCv -----------------------------
(***************************************************************************)
(* RenderedCv with TailoredCv beneath it, seen from two sides: tailoring,  *)
(* with two applications, CVs and jobs and nothing rendered; and one CV    *)
(* that is scored, edited and downloaded, for rows are rendered            *)
(* independently of one another.  Neither side keeps a fair action from    *)
(* happening: where it bars one outcome of a spawn or a skill, the others  *)
(* are open.                                                               *)
(***************************************************************************)
EXTENDS RenderedCv

MCJobTypes == {"cv_tailor"}

MCProgress == {0}

\* Everything that can go wrong around the handlers.
MCFaults ==
    {"spawn_fails", "skill_fails", "silent_exit", "duplicate", "restart",
     "render_fails", "quiet_render"}

\* Nothing goes wrong: every spawn works and every skill answers once.
MCNoFaults == {}

NothingRendered ==
    /\ \A i \in CvIds : Untouched(i)
    /\ \A v \in Viewers : dl[v] = Idle
    /\ \A i \in CvIds : cvs[i] = NoCv \/ cvs[i].text # Typed(i, 2)

OneCv ==
    /\ cvs[1] # NoCv => cvs[1].app = CHOOSE app \in Applications : TRUE
    /\ cvs[2] = NoCv
    /\ jobs[2] = NoJob
    /\ jobs[1] # NoJob => jobs[1].status # "failed"
    /\ \A w, x \in Workers : gen[w] # Idle /\ gen[x] # Idle => w = x

MCSpec ==
    /\ Init /\ [][Next /\ (NothingRendered \/ OneCv)']_vars
    /\ \A j \in JobIds : WF_cvVars(SkillEnds(j))
    /\ \A w \in Workers : WF_cvVars(SpawnLaunch(w) \/ SpawnFails(w))
=============================================================================
