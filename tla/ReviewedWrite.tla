--------------------------- MODULE ReviewedWrite ---------------------------
(***************************************************************************)
(* What the Go backend promises about one confirmed plan: the target disk  *)
(* stays untouched until every selected source has been turned into an     *)
(* image, the writer is started at most once, and a plan ends either       *)
(* refused with the disk untouched, written, or damaged by a writer that   *)
(* failed half way (disk operations are not transactional).                *)
(***************************************************************************)
EXTENDS Naturals

CONSTANTS Disks,     \* disks the writer can be pointed at
          NoDisk,    \* no disk has been touched
          Images,    \* what the preparation can produce for a source
          NoImage    \* a source that is not prepared

VARIABLES wanted,    \* the number of sources in the plan
          stage,     \* "preparing", "writing", "written", "damaged", "refused"
          target,    \* the disk the writer was started on
          payload    \* the image handed to the writer for each source

rvars == <<wanted, stage, target, payload>>

Init ==
  /\ wanted \in Nat \ {0}
  /\ stage = "preparing"
  /\ target = NoDisk
  /\ payload = <<>>

Refuse ==
  /\ stage = "preparing"
  /\ stage' = "refused"
  /\ UNCHANGED <<wanted, target, payload>>

StartWriter ==
  /\ stage = "preparing"
  /\ stage' = "writing"
  /\ target' \in Disks
  /\ payload' \in [1 .. wanted -> Images \ {NoImage}]
  /\ UNCHANGED wanted

FinishWriter ==
  /\ stage = "writing"
  /\ stage' \in {"written", "damaged"}
  /\ UNCHANGED <<wanted, target, payload>>

Next == Refuse \/ StartWriter \/ FinishWriter

\* A plan is refused or its writer starts; a writer may wait for its user forever.
Spec == Init /\ [][Next]_rvars /\ WF_rvars(Refuse \/ StartWriter)
=============================================================================
