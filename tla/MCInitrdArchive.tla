-------------------------- MODULE MCInitrdArchive --------------------------
(* Instances of InitrdArchive for TLC. *)
EXTENDS InitrdArchive

S(kind, files) == [kind |-> kind, files |-> files]
MCSegments ==
  {S("zero", << >>), S("junk", << >>), S("cpio", [ucode |-> "amd"]), S("cpio", [init |-> "early"]),
   S("gzip", [init |-> "main", hook |-> "main"]), S("gzip", [init |-> "second"]),
   S("xz", [init |-> "main"])}
MCEdits == {[hook |-> "edited"], [init |-> "edited"]}
=============================================================================
