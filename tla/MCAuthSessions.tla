--------------------------- MODULE MCAuthSessions ---------------------------
(* Small instances of AuthSessions for TLC. *)
EXTENDS AuthSessions, TLC

Symmetry == Permutations(Requests) \cup Permutations(Sessions) \cup Permutations(Tokens)
=============================================================================
