---------------------------- MODULE LiveRemaster ----------------------------
(***************************************************************************)
(* One pass of remaster_live_tools_source (rebuild_iso.py): extract the    *)
(* ISO, customize its root filesystem in a chroot, generate the initrds,   *)
(* master a new image and publish it.  The chroot work runs inside nested  *)
(* context managers; ctx is their stack, and pc = "unwind" runs the        *)
(* finally block of the innermost one, after success and after a failure.  *)
(* Any step may fail or be interrupted, a cleanup step too, and the        *)
(* process may be killed.                                                  *)
(***************************************************************************)
EXTENDS Naturals, Sequences, SequencesExt

CONSTANTS Jobs,       \* the sources and choices considered
          Members,    \* initrd members of the ISO that its live entries name
          Versions    \* kernel versions in the live root

VARIABLES job,        \* source and choices of this run
          pc,         \* the next step
          ctx,        \* open context managers, innermost first
          failed,     \* an exception is propagating
          root,       \* the extracted root filesystem
          boot,       \* /boot/initrd.img-<version> in it
          mounts,     \* what is mounted below the workspace
          local,      \* the context managers' local variables
          initrd,     \* the initrd members in the extracted ISO tree
          squash,     \* the packed root filesystem: <<>> or <<root>>
          part,       \* the temporary output next to the final path
          final,      \* the file at the final path: <<>> or <<image>>
          workspace   \* the run's workspace directory

vars == <<job, pc, ctx, failed, root, boot, mounts, local, initrd, squash, part, final,
          workspace>>
chrootVars == <<root, boot, mounts, local>>
isoVars == <<initrd, squash, part, final, workspace>>

-----------------------------------------------------------------------------
(* Data.                                                                   *)

\* entries: the kernel each live boot entry pairs with an initrd member.
\* resolv, policyrc: the source's own resolv.conf and policy-rc.d.
\* aliased: the update-initramfs command is also reachable as /sbin or /bin.
JobType ==
  [profile : {"debian", "kali", "ubuntu"}, optional : BOOLEAN, crypto : BOOLEAN,
   overlay : BOOLEAN, aliased : BOOLEAN, resolv : {"absent", "file", "link"},
   policyrc : {"absent", "vendor"}, entries : SUBSET (Members \X Versions),
   default : Versions]

\* Every other bind ("/proc", "/sys") behaves as "run".
Binds == <<"dev", "dev/pts", "run">>
IsoBind == "mnt/debian-usb-iso"
Targets == {"root", "dev", "dev/pts", "run", IsoBind}
\* umount --recursive also takes what is mounted below its target.
Below(t) == CASE t = "root" -> Targets [] t = "dev" -> {"dev", "dev/pts"}
              [] t \notin {"root", "dev"} -> {t}

\* mounted: mounted_targets; saved: resolv_backup and resolv_replaced;
\* created, active: the shim and the diversions; generated: initrds by version.
NoLocals == [mounted |-> <<>>, saved |-> "untouched", created |-> FALSE,
             active |-> <<>>, generated |-> {}]

ASSUME JobsAssumption == Jobs \subseteq JobType /\ "vendor" \notin Versions

Required(j) ==
  {"packages"} \cup (IF j.profile \in {"debian", "kali"} THEN {"policy"} ELSE {})
    \cup (IF j.crypto THEN {"crypto"} ELSE {}) \cup (IF j.overlay THEN {"overlay"} ELSE {})

\* One kernel for each member: its entry's, or the default live kernel.
KernelConflict(j) == \E e, f \in j.entries : e[1] = f[1] /\ e[2] # f[2]
KernelOf(j, m) ==
  IF \E e \in j.entries : e[1] = m THEN (CHOOSE e \in j.entries : e[1] = m)[2] ELSE j.default
KernelsUsed(j) == {KernelOf(j, m) : m \in Members}

\* has: which of "policy", "packages", "crypto" and "overlay" the root has.
\* units: "lifted" until their masks are staged again; "left" when that raised
\* and some of them are still unmasked.  policyrc: also "partial", half restored.
\* command: the file behind update-initramfs.
\* diverted: the path spellings whose files dpkg writes elsewhere.
Init ==
  /\ job \in Jobs
  /\ pc = "preflight"
  /\ ctx = <<>>
  /\ failed = FALSE
  /\ root = [has |-> {}, units |-> "vendor", policyrc |-> job.policyrc, resolv |-> job.resolv,
             command |-> "real", diverted |-> {}]
  /\ boot = [v \in Versions |-> [made |-> 0, has |-> {}]]
  /\ mounts = {}
  /\ local = NoLocals
  /\ initrd = [m \in Members |-> [kernel |-> "vendor", has |-> {}]]
  /\ squash = <<>>
  /\ part \in {"none", "stale"}
  /\ final = <<>>
  /\ workspace = "none"

Goto(label) == pc' = label

-----------------------------------------------------------------------------
(* Steps and failures.                                                     *)

Top == Head(ctx)
Inside(name) == \E i \in DOMAIN ctx : ctx[i] = name
Open(name) == ctx' = <<name>> \o ctx

\* The steps with no effect on what is modelled: reads, checks, log lines,
\* apt-get update, the apt simulation and apt-get clean, boot arguments, ...
After ==
  [preflight |-> "extract", update |-> "simulate", simulate |-> "install",
   isopolicy |-> "metadata", metadata |-> "squash", bootargs |-> "checksums",
   checksums |-> "clearpart", clean |-> "unwind"]

Advance ==
  /\ pc \in DOMAIN After
  /\ Goto(After[pc])
  /\ UNCHANGED <<job, ctx, failed, chrootVars, isoVars>>

Body == DOMAIN After \cup
  {"extract", "unsquash", "rootpolicy", "defer", "divert", "alias", "shim", "deny", "lift",
   "aptconf", "mount", "bind", "resolv", "install", "optional", "masks", "extras",
   "kernels", "generate", "copy", "squash", "clearpart", "master", "publish"}

\* Any step raises (or is interrupted) before its effect; a failure half way
\* through an effect is a failure of the step after it.
StepFails ==
  /\ pc \in Body
  /\ failed' = TRUE
  /\ Goto(IF pc = "preflight" THEN "failed" ELSE IF ctx = <<>> THEN "finally" ELSE "unwind")
  /\ UNCHANGED <<job, ctx, chrootVars, isoVars>>

Kill ==
  /\ pc \notin {"done", "failed", "killed"}
  /\ Goto("killed")
  /\ UNCHANGED <<job, ctx, failed, chrootVars, isoVars>>

-----------------------------------------------------------------------------
(* Up to the package phase.                                                *)

Extract ==
  /\ pc = "extract"
  /\ workspace' = "present"
  /\ Goto("unsquash")
  /\ UNCHANGED <<job, ctx, failed, chrootVars, initrd, squash, part, final>>

\* unsquashfs, stage_debian_live_locale, _stage_debian_live_root_policy
StageRootPolicy ==
  /\ pc = "unsquash"
  /\ root' = [root EXCEPT !.has = IF job.profile \in {"debian", "kali"}
                                  THEN @ \cup {"policy"} ELSE @]
  /\ Goto("defer")
  /\ UNCHANGED <<job, ctx, failed, boot, mounts, local, isoVars>>

Defer ==
  /\ pc = "defer"
  /\ Open("deferred")
  /\ Goto("divert")
  /\ UNCHANGED <<job, failed, chrootVars, isoVars>>

\* dpkg-divert --rename parks the command; an interrupt may hide its success.
Divert ==
  /\ pc = "divert"
  /\ root' = [root EXCEPT !.diverted = @ \cup {"command"}, !.command = "none"]
  /\ \/ /\ local' = [local EXCEPT !.active = Append(@, "command")]
        /\ Goto(IF job.aliased THEN "alias" ELSE "shim")
        /\ UNCHANGED failed
     \/ failed' = TRUE /\ Goto("unwind") /\ UNCHANGED local
  /\ UNCHANGED <<job, ctx, boot, mounts, isoVars>>

\* The same file under its merged-/usr spelling; nothing is renamed.
DivertAlias ==
  /\ pc = "alias"
  /\ root' = [root EXCEPT !.diverted = @ \cup {"alias"}]
  /\ \/ local' = [local EXCEPT !.active = Append(@, "alias")] /\ Goto("shim") /\ UNCHANGED failed
     \/ failed' = TRUE /\ Goto("unwind") /\ UNCHANGED local
  /\ UNCHANGED <<job, ctx, boot, mounts, isoVars>>

PlaceShim ==
  /\ pc = "shim"
  /\ root' = [root EXCEPT !.command = "shim"]
  /\ local' = [local EXCEPT !.created = TRUE]
  /\ Goto("deny")
  /\ UNCHANGED <<job, ctx, failed, boot, mounts, isoVars>>

DenyServices ==
  /\ pc = "deny"
  /\ Open("service")
  /\ root' = [root EXCEPT !.policyrc = "deny"]
  /\ Goto("lift")
  /\ UNCHANGED <<job, failed, boot, mounts, local, isoVars>>

LiftMasks ==
  /\ pc = "lift"
  /\ Open("unmask")
  /\ root' = [root EXCEPT !.units = "lifted"]
  /\ Goto("aptconf")
  /\ UNCHANGED <<job, failed, boot, mounts, local, isoVars>>

WriteAptConfig ==
  /\ pc = "aptconf"
  /\ Open("apt")
  /\ Goto("mount")
  /\ UNCHANGED <<job, failed, chrootVars, isoVars>>

-----------------------------------------------------------------------------
(* _mounted_chroot, around the packages and around mkinitramfs.            *)

BindTargets == <<"root">> \o Binds \o (IF Inside("apt") THEN <<IsoBind>> ELSE <<>>)

\* mount(8) succeeds; an interrupt may come before the target is recorded.
Mount(t, next) ==
  /\ mounts' = mounts \cup {t}
  /\ \/ local' = [local EXCEPT !.mounted = Append(@, t)] /\ Goto(next) /\ UNCHANGED failed
     \/ failed' = TRUE /\ Goto("unwind") /\ UNCHANGED local

MountRoot ==
  /\ pc = "mount"
  /\ Open("mounted")
  /\ Mount("root", "bind")
  /\ UNCHANGED <<job, root, boot, isoVars>>

MountBind ==
  /\ pc = "bind"
  /\ LET n == Len(local.mounted) + 1 IN
       Mount(BindTargets[n], IF n = Len(BindTargets) THEN "resolv" ELSE "bind")
  /\ UNCHANGED <<job, ctx, root, boot, isoVars>>

\* The host's resolv.conf replaces the source's; through a symlink it is
\* written elsewhere or, when it is the same file, not at all.
ReplaceResolv ==
  /\ pc = "resolv"
  /\ \/ \* the host has no resolv.conf to offer
        UNCHANGED <<root, local>>
     \/ /\ local' = [local EXCEPT !.saved = root.resolv]
        /\ root' = [root EXCEPT !.resolv = IF @ = "link" THEN @ ELSE "host"]
  /\ Goto(IF Inside("apt") THEN "update" ELSE "generate")
  /\ UNCHANGED <<job, ctx, failed, boot, mounts, isoVars>>

RestoreResolv ==
  /\ pc = "unwind" /\ Top = "mounted" /\ local.saved # "untouched"
  /\ local' = [local EXCEPT !.saved = "untouched"]
  /\ \/ root' = [root EXCEPT !.resolv = local.saved] /\ UNCHANGED failed
     \/ \* a link that dangled was "absent": what unlink removes is the link
        local.saved = "link" /\ root' = [root EXCEPT !.resolv = "absent"] /\ UNCHANGED failed
     \/ failed' = TRUE /\ UNCHANGED root
  /\ UNCHANGED <<job, pc, ctx, boot, mounts, isoVars>>

\* Newest first, normally and then lazily; a target that stays is an error,
\* reported after the others were tried.
Unmount ==
  /\ pc = "unwind" /\ Top = "mounted" /\ local.saved = "untouched" /\ local.mounted # <<>>
  /\ local' = [local EXCEPT !.mounted = Front(@)]
  /\ \/ mounts' = mounts \ Below(Last(local.mounted)) /\ UNCHANGED failed
     \/ failed' = TRUE /\ UNCHANGED mounts
  /\ UNCHANGED <<job, pc, ctx, root, boot, isoVars>>

-----------------------------------------------------------------------------
(* Package work.                                                           *)

\* apt-get install: dpkg may unpack a new update-initramfs under either
\* spelling (over the file, unless that spelling is diverted), and triggers
\* may then call the command, which regenerates every initrd in /boot.
Packages(next) ==
  \E path \in {"none", "command"} \cup (IF job.aliased THEN {"alias"} ELSE {}),
     triggered \in BOOLEAN :
    LET command == IF path \in {"none"} \cup root.diverted THEN root.command ELSE "real"
        has     == root.has \cup {"packages"} IN
    /\ root' = [root EXCEPT !.has = has, !.command = command]
    /\ boot' = IF triggered /\ command = "real"
               THEN [v \in Versions |-> [made |-> boot[v].made + 1, has |-> has]]
               ELSE boot
    /\ Goto(next)
    /\ UNCHANGED <<job, ctx, failed, mounts, local, isoVars>>

Install == pc = "install" /\ Packages(IF job.optional THEN "optional" ELSE "clean")
InstallOptional == pc = "optional" /\ Packages("clean")

-----------------------------------------------------------------------------
(* The finally blocks.                                                     *)

\* Leave the innermost context: keep unwinding, or go on with the body.
Leave(raising) ==
  /\ failed' = raising
  /\ ctx' = Tail(ctx)
  /\ Goto(IF Len(ctx) > 1 THEN "unwind"
          ELSE IF raising THEN "finally"
          ELSE IF Top = "deferred" THEN "masks" ELSE "copy")

Leaving(name) == pc = "unwind" /\ ctx # <<>> /\ Top = name

LeaveMounted ==
  /\ Leaving("mounted") /\ local.saved = "untouched" /\ local.mounted = <<>>
  /\ Leave(failed)
  /\ UNCHANGED <<job, chrootVars, isoVars>>

\* rmtree(ignore_errors)
LeaveApt ==
  /\ Leaving("apt")
  /\ Leave(failed)
  /\ UNCHANGED <<job, chrootVars, isoVars>>

\* Broken variant: the masks come back only when the packages went in.
RemaskOnSuccess ==
  /\ Leaving("unmask")
  /\ root' = [root EXCEPT !.units = IF failed THEN @ ELSE "masked"]
  /\ Leave(failed)
  /\ UNCHANGED <<job, boot, mounts, local, isoVars>>

LeaveUnmask ==
  /\ Leaving("unmask")
  /\ root' = [root EXCEPT !.units = "masked"]
  /\ Leave(failed)
  /\ UNCHANGED <<job, boot, mounts, local, isoVars>>

LeaveService ==
  /\ Leaving("service")
  /\ root' = [root EXCEPT !.policyrc = job.policyrc]
  /\ Leave(failed)
  /\ UNCHANGED <<job, boot, mounts, local, isoVars>>

RemoveShim ==
  /\ Leaving("deferred") /\ local.created
  /\ root' = [root EXCEPT !.command = "none"]
  /\ local' = [local EXCEPT !.created = FALSE]
  /\ UNCHANGED <<job, pc, ctx, failed, boot, mounts, isoVars>>

\* Newest first; removing the renaming diversion brings the command back.
Undivert ==
  /\ Leaving("deferred") /\ ~local.created /\ local.active # <<>>
  /\ root' = [root EXCEPT !.diverted = @ \ {Last(local.active)},
                          !.command = IF Last(local.active) = "command" THEN "real" ELSE @]
  /\ local' = [local EXCEPT !.active = Front(@)]
  /\ UNCHANGED <<job, pc, ctx, failed, boot, mounts, isoVars>>

LeaveDeferred ==
  /\ Leaving("deferred") /\ ~local.created /\ local.active = <<>>
  /\ Leave(failed \/ root.command # "real")
  /\ UNCHANGED <<job, chrootVars, isoVars>>

\* A finally block raises, or is interrupted, and the rest of it is skipped: of
\* the two that are one step here, a part may be done.  The outer ones still run.
CleanupRaises ==
  /\ pc = "unwind" /\ ctx # <<>>
  /\ \/ Top = "unmask" /\ \E u \in {"left", "masked"} : root' = [root EXCEPT !.units = u]
     \/ Top = "service" /\ \E p \in {root.policyrc, "partial", job.policyrc} :
                              root' = [root EXCEPT !.policyrc = p]
     \/ Top \notin {"unmask", "service"} /\ UNCHANGED root
  /\ Leave(TRUE)
  /\ UNCHANGED <<job, boot, mounts, local, isoVars>>

-----------------------------------------------------------------------------
(* From the customized root to the published image.                        *)

StageMasks ==
  /\ pc = "masks"
  /\ root' = [root EXCEPT !.units = "masked"]
  /\ Goto("extras")
  /\ UNCHANGED <<job, ctx, failed, boot, mounts, local, isoVars>>

\* _stage_encrypted_persistence_policy, _stage_live_initrd_overlay, locales
StageExtras ==
  /\ pc = "extras"
  /\ root' = [root EXCEPT !.has = @ \cup (Required(job) \cap {"crypto", "overlay"})]
  /\ Goto("kernels")
  /\ UNCHANGED <<job, ctx, failed, boot, mounts, local, isoVars>>

\* Members that share a kernel share a generation; conflicts are refused.
PairKernels ==
  /\ pc = "kernels"
  /\ failed' = KernelConflict(job)
  /\ Goto(IF KernelConflict(job) THEN "finally" ELSE "mount")
  /\ UNCHANGED <<job, ctx, chrootVars, isoVars>>

Pending == KernelsUsed(job) \ local.generated

\* depmod and mkinitramfs for the next kernel version
Generate ==
  /\ pc = "generate"
  /\ \E v \in Pending :
       /\ boot' = [boot EXCEPT ![v] = [made |-> @.made + 1, has |-> root.has]]
       /\ local' = [local EXCEPT !.generated = @ \cup {v}]
       /\ Goto(IF Pending = {v} THEN "unwind" ELSE "generate")
  /\ UNCHANGED <<job, ctx, failed, root, mounts, isoVars>>

\* Broken variant: the default kernel's initrd goes over every member.
CopyFirst ==
  /\ pc = "copy"
  /\ initrd' = [m \in Members |-> [kernel |-> job.default, has |-> boot[job.default].has]]
  /\ Goto("isopolicy")
  /\ UNCHANGED <<job, ctx, failed, chrootVars, squash, part, final, workspace>>

CopyInitrds ==
  /\ pc = "copy"
  /\ initrd' = [m \in Members |-> [kernel |-> KernelOf(job, m),
                                    has |-> boot[KernelOf(job, m)].has]]
  /\ Goto("isopolicy")
  /\ UNCHANGED <<job, ctx, failed, chrootVars, squash, part, final, workspace>>

Squash ==
  /\ pc = "squash"
  /\ squash' = <<root>>
  /\ Goto("bootargs")
  /\ UNCHANGED <<job, ctx, failed, chrootVars, initrd, part, final, workspace>>

ClearPart ==
  /\ pc = "clearpart"
  /\ part' = "none"
  /\ Goto("master")
  /\ UNCHANGED <<job, ctx, failed, chrootVars, initrd, squash, final, workspace>>

\* Broken variant: xorriso's own status is not looked at.
MasterUnchecked ==
  /\ pc = "master"
  /\ part' \in {"whole", "partial"}
  /\ Goto("publish")
  /\ UNCHANGED <<job, ctx, failed, chrootVars, initrd, squash, final, workspace>>

\* xorriso; its error leaves a partial file
Master ==
  /\ pc = "master"
  /\ \/ part' = "whole" /\ Goto("publish") /\ UNCHANGED failed
     \/ part' = "partial" /\ failed' = TRUE /\ Goto("finally")
  /\ UNCHANGED <<job, ctx, chrootVars, initrd, squash, final, workspace>>

\* A non-empty regular file, handed to the user, replaces the final path.
Publish ==
  /\ pc = "publish"
  /\ final' = <<[file |-> part, root |-> squash[1], initrd |-> initrd]>>
  /\ part' = "none"
  /\ Goto("finally")
  /\ UNCHANGED <<job, ctx, failed, chrootVars, initrd, squash, workspace>>

\* An incomplete output is unlinked; if that raises, the rest is skipped.
DropPart ==
  /\ pc = "finally"
  /\ IF final = <<>> /\ part # "none"
     THEN \/ part' = "none" /\ Goto("cleanup") /\ UNCHANGED failed
          \/ failed' = TRUE /\ Goto("failed") /\ UNCHANGED part
     ELSE Goto("cleanup") /\ UNCHANGED <<part, failed>>
  /\ UNCHANGED <<job, ctx, chrootVars, initrd, squash, final, workspace>>

\* Broken variant: an unreadable mount table counts as an empty one.
CleanupUnseen ==
  /\ pc = "cleanup"
  /\ workspace' \in {workspace, IF workspace = "present" THEN "removed" ELSE workspace}
  /\ Goto(IF failed THEN "failed" ELSE "manifest")
  /\ UNCHANGED <<job, ctx, failed, chrootVars, initrd, squash, part, final>>

\* Left in place (with a warning) when mounts remain below it, when the mount
\* table cannot be read, or when the removal fails.
CleanupWorkspace ==
  /\ pc = "cleanup"
  /\ \/ workspace = "present" /\ mounts = {} /\ workspace' = "removed"
     \/ UNCHANGED workspace
  /\ Goto(IF failed THEN "failed" ELSE "manifest")
  /\ UNCHANGED <<job, ctx, failed, chrootVars, initrd, squash, part, final>>

\* The manifest is written after the image was published.
WriteManifest ==
  /\ pc = "manifest"
  /\ \/ Goto("done")
     \/ Goto("failed")
  /\ UNCHANGED <<job, ctx, failed, chrootVars, isoVars>>

-----------------------------------------------------------------------------

Prepare == Extract \/ StageRootPolicy \/ Defer \/ Divert \/ DivertAlias \/ PlaceShim
           \/ DenyServices \/ LiftMasks \/ WriteAptConfig
Chroot == MountRoot \/ MountBind \/ ReplaceResolv \/ Install \/ InstallOptional \/ Generate
Unwind == RestoreResolv \/ Unmount \/ LeaveMounted \/ LeaveApt \/ LeaveUnmask
          \/ LeaveService \/ RemoveShim \/ Undivert \/ LeaveDeferred \/ CleanupRaises
Finish == StageMasks \/ StageExtras \/ PairKernels \/ CopyInitrds \/ Squash \/ ClearPart
          \/ Master \/ Publish \/ DropPart \/ CleanupWorkspace \/ WriteManifest
Program == Advance \/ StepFails \/ Prepare \/ Chroot \/ Unwind \/ Finish

Ended == pc \in {"done", "failed", "killed"}
Idle == Ended /\ UNCHANGED vars

Next == Program \/ Kill \/ Idle

Spec == Init /\ [][Next]_vars
\* Every command the run starts ends.
FairSpec == Spec /\ WF_vars(Program)

-----------------------------------------------------------------------------
(* Properties.                                                             *)

Published == final # <<>>
image == final[1]

\* README.md: "The masks are reinstated [...] on success and failure, before
\* the policy file is removed or restored": whatever fails, the firmware units
\* are unmasked only while policy-rc.d refuses to start services, and so are
\* maintainer scripts run.  The one exception is a masking that raises itself:
\* the policy file is then restored over units still unmasked, in a run that has
\* failed and takes no further step in that root than to undo the rest.
UnitsGuarded ==
  /\ root.units = "lifted" => root.policyrc = "deny"
  /\ root.units = "left" => failed /\ pc \notin Body
  /\ pc \in {"install", "optional"} => root.policyrc = "deny"

\* The scaffolding of the chroot work is in no published image: masks staged,
\* the source's own policy-rc.d, resolv.conf and update-initramfs back, no
\* diversion left.  (A source whose resolv.conf is a symlink may lose it.)
PublishedRootClean ==
  Published =>
    /\ image.root.units = "masked"
    /\ image.root.policyrc = job.policyrc
    /\ job.resolv # "link" => image.root.resolv = job.resolv
    /\ image.root.command = "real" /\ image.root.diverted = {}

\* Each initrd member of a published image belongs to the kernel it is booted
\* with and was generated from everything this run put into the root.
PublishedInitrdsCurrent ==
  Published => \A m \in Members :
    image.initrd[m] = [kernel |-> KernelOf(job, m), has |-> Required(job)]

\* "One generation per ABI": package triggers never generate an initrd,
\* whichever spelling of the command a package upgrade unpacks.
OneGenerationPerKernel == ~failed => \A v \in Versions : boot[v].made <= 1

\* What is published is a clean root under current, once generated initrds.
PublishedImageSound ==
  PublishedRootClean /\ PublishedInitrdsCurrent /\ OneGenerationPerKernel

\* The workspace is never removed through a bind mount of the host, and a run
\* that reports success has left nothing mounted.
MountsKeepWorkspace == workspace = "removed" \/ pc = "done" => mounts = {}

\* The final path only ever holds a whole image, and every run ends.
Stage ==
  IF pc = "done" THEN "done" ELSE IF pc \in {"failed", "killed"} THEN "failed"
  ELSE IF Published THEN "published" ELSE "building"
IP == INSTANCE ImagePublication WITH
        stage <- Stage, output <- IF Published THEN image.file ELSE "none"
ImplementsPublication == IP!Spec
=============================================================================
