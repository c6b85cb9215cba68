--------------------------- MODULE MCCredentials ---------------------------
(* An instance of Credentials for TLC: the users but root may be exchanged,  *)
(* and the groups.                                                           *)
EXTENDS Credentials, TLC

Renaming == Permutations(Uid \ {Root}) \cup Permutations(Gid)

=============================================================================
