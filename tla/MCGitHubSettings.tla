-------------------------- MODULE MCGitHubSettings --------------------------
(* Instances of GitHubSettings for TLC. *)
EXTENDS GitHubSettings

=============================================================================
