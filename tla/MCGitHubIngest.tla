--------------------------- MODULE MCGitHubIngest ---------------------------
(* Values of the constants of GitHubIngest for TLC.                        *)
EXTENDS GitHubIngest, TLC

CONSTANTS r1, r2

(* Every repository has a directory of its own, named after it here so     *)
(* that a permutation of the repositories permutes the directories too.   *)
OwnPath == [r \in Repos |-> r]

(* Where no repository is a seed, the repositories are interchangeable.    *)
RepoSymmetry == Permutations(Repos)
=============================================================================
