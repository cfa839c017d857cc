-------------------------------- MODULE Parts --------------------------------
(***************************************************************************)
(* Four parts of one server that share no state: the mailbox settings, the *)
(* master CV, the portfolio, and the schema with what its revisions do to  *)
(* the data.  A step is one part's.                                        *)
(***************************************************************************)
EXTENDS Mailbox, MasterCv, Portfolio, Migrations

vars == <<boxVars, masterVars, portfolioVars, migrationVars>>

Init == BoxInit /\ MasterInit /\ PortfolioInit /\ MigrationsInit

MailboxStep == BoxNext /\ UNCHANGED <<masterVars, portfolioVars, migrationVars>>

MasterStep == MasterNext /\ UNCHANGED <<boxVars, portfolioVars, migrationVars>>

PortfolioStep == PortfolioNext /\ UNCHANGED <<boxVars, masterVars, migrationVars>>

MigrationsStep == MigrationsNext /\ UNCHANGED <<boxVars, masterVars, portfolioVars>>

Next == MailboxStep \/ MasterStep \/ PortfolioStep \/ MigrationsStep

Spec == Init /\ [][Next]_vars

(***************************************************************************)
(* The tables and the places of all threads are of their types.            *)
(***************************************************************************)
TypeOK == BoxTypeOK /\ MasterTypeOK /\ PortfolioTypeOK /\ MigrationsTypeOK
=============================================================================
