---------------------------- MODULE MCIsoRebuild ----------------------------
(* Instances of IsoRebuild for TLC. *)
EXTENDS IsoRebuild

MCKernels == {"live/vmlinuz", "live/vmlinuz-rt", "install/vmlinuz"}
MCInitrds == {"live/initrd.img", "live/initrd.img-rt", "install/initrd.gz", "install/gtk/initrd.gz"}
MCAbis == {"6.12", "6.12-rt", "6.19"}

E(kind, kernel, initrd) == [kind |-> kind, kernel |-> kernel, initrd |-> initrd]
Live == E("live", "live/vmlinuz", "live/initrd.img")
LiveRt == E("live", "live/vmlinuz-rt", "live/initrd.img-rt")
Text0 == E("install", "install/vmlinuz", "install/initrd.gz")
Gtk == E("install", "install/vmlinuz", "install/gtk/initrd.gz")

\* A live image with one kernel, one with two, and a netinst image.
OneKernel ==
  [scope |-> "live-host", action |-> "add-deb-packages", complete |-> TRUE, target |-> "6.19",
   entries |-> {Live, Text0, Gtk}, abi |-> [k \in MCKernels |-> "6.12"], text |-> {Text0},
   default |-> {Live}, detected |-> TRUE, named |-> {}, squashfs |-> TRUE, sameArch |-> TRUE]
TwoKernels ==
  [OneKernel EXCEPT !.entries = @ \cup {LiveRt}, !.named = {"6.12"},
                    !.abi["live/vmlinuz-rt"] = "6.12-rt"]
Netinst ==
  [OneKernel EXCEPT !.scope = "d-i", !.action = "add-kernel-modules", !.entries = {Text0, Gtk},
                    !.default = {}]

Replace(j) == [j EXCEPT !.action = "replace-kernel"]
Update(j) == [j EXCEPT !.action = "update-kernel", !.scope = "d-i"]
Udebs(j) == [j EXCEPT !.action = "add-udeb-packages", !.scope = "d-i"]

Sound == {OneKernel, [OneKernel EXCEPT !.named = {"6.12"}], Replace(OneKernel), Replace(TwoKernels),
          Netinst, Update(Netinst), Update(TwoKernels), Udebs(OneKernel)}
Refused == {[OneKernel EXCEPT !.squashfs = FALSE], [OneKernel EXCEPT !.sameArch = FALSE],
            [OneKernel EXCEPT !.scope = "d-i"], [Update(Netinst) EXCEPT !.complete = FALSE],
            [Netinst EXCEPT !.text = {}], [Netinst EXCEPT !.detected = FALSE],
            [Netinst EXCEPT !.scope = "live-host", !.action = "add-deb-packages"]}
MCJobs == Sound \cup {[TwoKernels EXCEPT !.named = {}]} \cup Refused
=============================================================================
