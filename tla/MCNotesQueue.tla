---------------------------- MODULE MCNotesQueue ----------------------------
(* Instances of NotesQueue for TLC. *)
EXTENDS NotesQueue, TLC

CONSTANTS c1, c2, v1, v2, p, q, home, acme

\* The two commits belong to repositories of different organisations.
TwoOrgs == c1 :> home @@ c2 :> acme

\* An instance with one commit.
HomeOnly == c1 :> home
=============================================================================
