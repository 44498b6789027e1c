-------------------------- MODULE MCLiveRemaster --------------------------
(* Instances of LiveRemaster for TLC. *)
EXTENDS LiveRemaster

MCMembers == {"initrd.img", "initrd-rt.img"}
MCVersions == {"amd64", "rt"}

Both == {<<"initrd.img", "amd64">>, <<"initrd-rt.img", "rt">>}
Shared == {<<"initrd.img", "amd64">>, <<"initrd-rt.img", "amd64">>}
Conflicting == Both \cup {<<"initrd.img", "rt">>}

Debian ==
  [profile |-> "debian", optional |-> FALSE, crypto |-> TRUE, overlay |-> TRUE,
   aliased |-> TRUE, resolv |-> "absent", policyrc |-> "absent", entries |-> Both,
   default |-> "amd64"]

MCJobs ==
  {Debian,
   [Debian EXCEPT !.crypto = FALSE, !.resolv = "file", !.policyrc = "vendor", !.entries = Shared],
   [Debian EXCEPT !.profile = "kali", !.optional = TRUE, !.aliased = FALSE, !.entries = {}],
   [Debian EXCEPT !.profile = "ubuntu", !.crypto = FALSE, !.overlay = FALSE, !.resolv = "link"],
   [Debian EXCEPT !.entries = Conflicting, !.aliased = FALSE]}
=============================================================================
