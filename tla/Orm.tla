--------------------------------- MODULE Orm ---------------------------------
(***************************************************************************)
(* What a commit of the SQLAlchemy session writes.                         *)
(*                                                                         *)
(* The UPDATE of a row names only the columns whose value differs from the *)
(* one the session loaded; Postgres, at READ COMMITTED, leaves the others  *)
(* at whatever another transaction has committed meanwhile.  So a handler  *)
(* that assigns to a column the value it had already loaded writes nothing,*)
(* and the row that results may be one that no handler ever saw.           *)
(***************************************************************************)

\* A column now at cur, loaded as was, to which the handler has assigned new.
Written(cur, was, new) == IF new = was THEN cur ELSE new
=============================================================================
