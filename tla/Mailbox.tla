------------------------------ MODULE Mailbox ------------------------------
(***************************************************************************)
(* The one row of mailbox_config: the settings of the user's mail account, *)
(* and whether they may be used.                                           *)
(*                                                                         *)
(* Saving settings makes them inactive; the connection test loads the row, *)
(* logs in to two servers for seconds, and then sets the row's flag to     *)
(* what it found.  Nothing ties that commit to the settings it has tried.  *)
(* Mail goes out by the active row, or else by the account of the          *)
(* environment.                                                            *)
(***************************************************************************)
EXTENDS Naturals, Orm

CONSTANTS
    Accounts,    \* settings a user may save; without a password the old one is kept
    Testers,     \* threads that may be inside POST /api/mailbox/test at once
    EnvAccount   \* the MAIL_* variables name an account

ASSUME MailboxAssumption == EnvAccount \in BOOLEAN

VARIABLES
    box,        \* the row, NoBox without one
    tester,     \* each test's place
    passed,     \* history: the settings some test has logged in with
    mixed       \* history: a test has committed over a row written since it loaded it,
                \* and nothing has been saved since

boxVars == <<box, tester, passed, mixed>>

\* test: last_test_status.
Box == [account: Accounts, active: BOOLEAN, test: {"none", "ok", "failed"}]

NoBox == [account |-> "none"]

Waiting == [pc |-> "waiting"]

\* row: as loaded; stale: the row has been written or deleted since.
Testing == [pc: {"login"}, row: Box, stale: BOOLEAN]

BoxTypeOK ==
    /\ box \in Box \union {NoBox}
    /\ tester \in [Testers -> Testing \union {Waiting}]
    /\ passed \subseteq Accounts
    /\ mixed \in BOOLEAN

BoxInit ==
    /\ box = NoBox
    /\ tester = [t \in Testers |-> Waiting]
    /\ passed = {}
    /\ mixed = FALSE

\* Every test under way holds an old row now, but those that have written it.
Outdated(writers) ==
    [u \in Testers |-> IF tester[u] # Waiting /\ u \notin writers
                       THEN [tester[u] EXCEPT !.stale = TRUE] ELSE tester[u]]

-----------------------------------------------------------------------------

\* Mutant: a change of the settings leaves the flag alone.
SaveSettingsStillActive(account) ==
    /\ box' = IF box = NoBox THEN [account |-> account, active |-> FALSE, test |-> "none"]
              ELSE [box EXCEPT !.account = account]
    /\ tester' = Outdated({})
    /\ mixed' = FALSE
    /\ UNCHANGED passed

\* PUT /api/mailbox/config.  422 for a first row without a password.
SaveSettings(account) ==
    /\ box' = [account |-> account, active |-> FALSE, test |-> "none"]
    /\ tester' = Outdated({})
    /\ mixed' = FALSE
    /\ UNCHANGED passed

\* DELETE /api/mailbox/config.  The next row has the id of this one.
DeleteSettings ==
    /\ box # NoBox
    /\ box' = NoBox
    /\ tester' = Outdated({})
    /\ mixed' = FALSE
    /\ UNCHANGED passed

\* POST /api/mailbox/test, 409 without settings.
OpenTest(t) ==
    /\ tester[t] = Waiting
    /\ box # NoBox
    /\ tester' = [tester EXCEPT ![t] = [pc |-> "login", row |-> box, stale |-> FALSE]]
    /\ UNCHANGED <<box, passed, mixed>>

(***************************************************************************)
(* The logins are over and the row is committed: only what differs from    *)
(* the row as loaded.  Without a row the UPDATE finds none and raises.     *)
(***************************************************************************)
CloseTest(t, ok) ==
    /\ tester[t] # Waiting
    /\ LET row == tester[t].row
       IN  /\ passed' = IF ok THEN passed \union {row.account} ELSE passed
           /\ box' = IF box = NoBox THEN NoBox
                     ELSE [box EXCEPT
                       !.active = Written(@, row.active, ok),
                       !.test = Written(@, row.test, IF ok THEN "ok" ELSE "failed")]
           /\ mixed' = (mixed \/ (box # NoBox /\ tester[t].stale))
           /\ tester' = [Outdated({t}) EXCEPT ![t] = Waiting]

\* The container restarts.
RestartTests ==
    /\ tester' = [t \in Testers |-> Waiting]
    /\ UNCHANGED <<box, passed, mixed>>

\* _resolve, for append_draft and send: the accounts a mail may go by (none: MailerDisabled).
Resolve ==
    IF box # NoBox /\ box.active THEN {box.account}
    ELSE IF EnvAccount THEN {"environment"} ELSE {}

BoxNext ==
    \/ \E account \in Accounts : SaveSettings(account)
    \/ DeleteSettings
    \/ \E t \in Testers : OpenTest(t) \/ \E ok \in BOOLEAN : CloseTest(t, ok)
    \/ RestartTests

BoxSpec == BoxInit /\ [][BoxNext]_boxVars

-----------------------------------------------------------------------------

(***************************************************************************)
(* "is_active=False until the user runs the test endpoint successfully":   *)
(* mail goes by settings that a test has logged in with, and the flag says *)
(* what last_test_status says.  Only a test that commits over a row saved, *)
(* replaced or tested meanwhile can mix the two up, and what it leaves     *)
(* stays until the settings are saved again.                               *)
(***************************************************************************)
MailGoesByTestedSettings ==
    mixed \/ /\ Resolve \subseteq passed \union {"environment"}
             /\ box # NoBox => (box.active <=> box.test = "ok")
=============================================================================
