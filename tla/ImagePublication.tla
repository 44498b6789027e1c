-------------------------- MODULE ImagePublication --------------------------
(***************************************************************************)
(* What remaster_live_tools_source promises its caller: "output is         *)
(* published atomically after success".  The final path goes once, in one  *)
(* step, from no image to a whole one; a run may fail before that, or      *)
(* after it while it writes its manifest, and every run comes to an end.   *)
(***************************************************************************)

VARIABLES stage,     \* "building", "published", "done" or "failed"
          output     \* the file at the final path: "none" or "whole"

pvars == <<stage, output>>

Init == stage = "building" /\ output = "none"

Publish ==
  /\ stage = "building"
  /\ stage' = "published"
  /\ output' = "whole"

Report ==
  /\ \/ stage \in {"building", "published"} /\ stage' = "failed"
     \/ stage = "published" /\ stage' = "done"
  /\ UNCHANGED output

Next == Publish \/ Report

Spec == Init /\ [][Next]_pvars /\ WF_pvars(Next)
=============================================================================
