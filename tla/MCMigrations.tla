---------------------------- MODULE MCMigrations ----------------------------
(* Openers of different releases on one database, for TLC. *)
EXTENDS Migrations

CONSTANTS old, new, other

\* Two processes of the newest release and one of the release before it.
MCLatest == [o \in Openers |-> IF o = old THEN 2 ELSE 3]

=============================================================================
