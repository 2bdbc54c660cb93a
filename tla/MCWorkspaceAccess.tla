------------------------- MODULE MCWorkspaceAccess -------------------------
(* WorkspaceAccess for TLC. *)
EXTENDS WorkspaceAccess, TLC

\* Users, sessions, requests, workspaces and invitations are interchangeable.
Interchangeable ==
    Permutations(User) \cup Permutations(Workspace) \cup Permutations(Session)
    \cup Permutations(Request) \cup Permutations(Invitation)

=============================================================================
