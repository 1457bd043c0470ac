--------------------------- MODULE MCPodcastJobs ----------------------------
(***************************************************************************)
(* Instances of PodcastJobs for TLC.                                       *)
(***************************************************************************)
EXTENDS PodcastJobs, TLC

Sym == Permutations(Calls) \cup Permutations(Reports)
=============================================================================
