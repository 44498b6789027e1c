-------------------------- MODULE MCDownloadCache --------------------------
(* Instances of DownloadCache for TLC. *)
EXTENDS DownloadCache, TLC

\* Two dated builds of the same file, a daily alias of it, and two releases.
MCUrls == {"dated1", "dated2", "daily", "rel1"}
MCNameOf == [dated1 |-> "linux", dated2 |-> "linux", daily |-> "linux",
             rel1 |-> "rel1.iso"]
MCMoving == {"daily"}
MCReleaseAt == [v \in 0 .. MaxVersion |-> "rel1"]
MCConfigs == {"daily", "current"}
Symmetry == Permutations(Procs)
=============================================================================
