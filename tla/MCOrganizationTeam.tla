------------------------ MODULE MCOrganizationTeam ------------------------
(* Small instances of OrganizationTeam for TLC. *)
EXTENDS OrganizationTeam, TLC

CONSTANTS ann, bob, cid  \* the users: ann owns, bob is staff, cid is nobody yet

MCStaff == ann :> "OWNER" @@ bob :> "STAFF" @@ cid :> "none"

Symmetry == Permutations(Requests) \cup Permutations(Invitations)
=============================================================================
