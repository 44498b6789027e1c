----------------------------- MODULE IsoRebuild -----------------------------
(***************************************************************************)
(* rebuild_debian_installer_iso (rebuild_iso.py): one plan of the Rebuild  *)
(* Installer ISO workflow.  The source ISO is extracted, one action works  *)
(* on the installer initrd or on the live root filesystem, and a new image *)
(* is mastered to the output path.  Any step may fail, and the process may *)
(* be killed.  The chroot scaffolding of the package phase is that of      *)
(* LiveRemaster.                                                           *)
(***************************************************************************)
EXTENDS Naturals, FiniteSets

CONSTANTS Jobs,      \* source images and plans considered
          Kernels,   \* kernel members of the images
          Initrds,   \* initrd members of the images
          Abis       \* kernel versions

VARIABLES job,       \* the source image and the plan
          pc,        \* the next step
          iso,       \* the extracted tree that becomes the new image
          tree,      \* the unpacked installer initrd
          live,      \* the unpacked live root filesystem
          chosen,    \* the version whose live boot files are copied out
          sums,      \* what md5sum.txt and sha256sum.txt were computed from
          output,    \* the file at the output path
          before     \* what was there when the run started

rebuildVars == <<job, pc, iso, tree, live, chosen, sums, output, before>>
given == <<job, before>>
workVars == <<tree, live, chosen>>

-----------------------------------------------------------------------------
(* Data.                                                                   *)

Entry == [kind : {"live", "install"}, kernel : Kernels, initrd : Initrds]

\* entries, abi: the boot entries and the version of each kernel member.
\* text, default: the entries _select_text_installer_entry and _select_entry
\* pick.  detected: can the installer's version be read from its initrd?
\* named: the versions that the default live kernel's file name has in it.
JobType ==
  [scope : {"d-i", "live-host"},
   action : {"add-kernel-modules", "add-udeb-packages", "update-kernel", "replace-kernel",
             "add-deb-packages"},
   complete : BOOLEAN, target : Abis, entries : SUBSET Entry, abi : [Kernels -> Abis],
   text : SUBSET Entry, default : SUBSET Entry, detected : BOOLEAN, named : SUBSET Abis,
   squashfs : BOOLEAN, sameArch : BOOLEAN]

\* modules: what lies below /lib/modules; index: what depmod saw of it.
NoInitrd == [modules |-> {}, index |-> {}, has |-> {}]
Made(v, has) == [modules |-> {<<v, "stock">>}, index |-> {<<v, "stock">>}, has |-> has]

\* boot: /boot/initrd.img-<version>; the kernels follow the module trees.
NoRoot == [abis |-> {}, has |-> {}, boot |-> [v \in Abis |-> NoInitrd]]

\* The selectors pick at most one entry, of the kind they are named for.
ASSUME JobsAssumption ==
  /\ Jobs \subseteq JobType
  /\ \A j \in Jobs :
       /\ \A e \in j.text : e \in j.entries /\ e.kind = "install" /\ j.text = {e}
       /\ \A e \in j.default : e \in j.entries /\ e.kind = "live" /\ j.default = {e}

\* No version is part of another one's name, so that a file name that has a version
\* in it has its own kernel's.
ASSUME NamesAssumption ==
  \A j \in Jobs : \A e \in j.default : j.named \subseteq {j.abi[e.kernel]}

\* An initrd is made for one version of the kernel, whichever entries share it, and
\* the live system and the installer share no member.
ASSUME ImagesAssumption ==
  /\ IsFiniteSet(Abis)
  /\ \A j \in Jobs : \A d, e \in j.entries :
       /\ d.initrd = e.initrd => j.abi[d.kernel] = j.abi[e.kernel]
       /\ d.kernel = e.kernel \/ d.initrd = e.initrd => d.kind = e.kind

LiveEntries == {e \in job.entries : e.kind = "live"}
The(S) == CHOOSE x \in S : TRUE
SourceRoot(j) == [abis |-> {j.abi[e.kernel] : e \in {f \in j.entries : f.kind = "live"}},
                  has |-> {}, boot |-> [v \in Abis |-> NoInitrd]]
\* rootfs: the packed root; packages: what filesystem.manifest, .packages and
\* .size describe; extras: the UDEB repository and the live hooks.
SourceTree(j) ==
  [kernel |-> j.abi,
   initrd |-> [i \in Initrds |->
     LET users == {e \in j.entries : e.initrd = i} IN
       IF users = {} THEN NoInitrd ELSE Made(j.abi[The(users).kernel], {})],
   rootfs |-> SourceRoot(j), packages |-> SourceRoot(j), extras |-> {}]

File(state, image) == [state |-> state, image |-> image]
NoOutput == File("none", <<>>)
Partial == File("partial", <<>>)
Old == File("previous", <<>>)
Rebuilt(t, s) == File("rebuilt", <<[tree |-> t, sums |-> s]>>)

RebuildInit ==
  /\ job \in Jobs
  /\ pc = "validate"
  /\ iso = SourceTree(job)
  /\ tree = NoInitrd
  /\ live = NoRoot
  /\ chosen \in {job.target}
  /\ sums = <<>>
  /\ output \in {NoOutput, Old}
  /\ before = output

Goto(label) == pc' = label

\* Every step may raise before its effect; the log, the workspace and a
\* half-written output stay where they are.
Ends == {"done", "failed", "killed"}
StepFails ==
  /\ pc \notin Ends
  /\ Goto("failed")
  /\ UNCHANGED <<given, iso, workVars, sums, output>>

Kill ==
  /\ pc \notin Ends
  /\ Goto("killed")
  /\ UNCHANGED <<given, iso, workVars, sums, output>>

-----------------------------------------------------------------------------
(* The plan.                                                               *)

ScopeOf(action) == IF action \in {"replace-kernel", "add-deb-packages"} THEN "live-host" ELSE "d-i"

Validate ==
  /\ pc = "validate"
  /\ job.scope = ScopeOf(job.action)
  /\ job.complete
  /\ Goto("extract")
  /\ UNCHANGED <<given, iso, workVars, sums, output>>

Extract ==
  /\ pc = "extract"
  /\ Goto(IF job.scope = "d-i" THEN "unpack" ELSE "unsquash")
  /\ UNCHANGED <<given, iso, workVars, sums, output>>

-----------------------------------------------------------------------------
(* _apply_installer_rebuild_action.                                        *)

Text == The(job.text)
Version == job.abi[Text.kernel]
Target == IF job.action = "update-kernel" THEN job.target ELSE Version

UnpackInstaller ==
  /\ pc = "unpack"
  /\ job.text # {} /\ job.detected
  /\ tree' = iso.initrd[Text.initrd]
  /\ Goto(IF job.action = "update-kernel" THEN "replace" ELSE "inject")
  /\ UNCHANGED <<given, iso, live, chosen, sums, output>>

\* The kernel support cache and the target's UDEBs are ready by now.
ReplaceTree ==
  /\ pc = "replace"
  /\ tree' = [tree EXCEPT !.modules =
                {m \in @ : m[1] # Version} \cup {<<job.target, "stock">>}]
  /\ Goto("inject")
  /\ UNCHANGED <<given, iso, live, chosen, sums, output>>

\* _extract_udeb_payloads: kernel UDEBs bring modules, the others files.
InjectUdebs ==
  /\ pc = "inject"
  /\ tree' = [tree EXCEPT !.has = @ \cup {"request"},
                !.modules = IF job.action = "add-udeb-packages" THEN @
                            ELSE @ \cup {<<Target, "added">>}]
  /\ Goto("depmod")
  /\ UNCHANGED <<given, iso, live, chosen, sums, output>>

\* Broken variant: the index of the version the image came with.
DepmodOldVersion ==
  /\ pc = "depmod"
  /\ tree' = [tree EXCEPT !.index = {m \in tree.modules : m[1] = Version}]
  /\ Goto(IF job.action = "update-kernel" THEN "kernel" ELSE "udebs")
  /\ UNCHANGED <<given, iso, live, chosen, sums, output>>

Depmod ==
  /\ pc = "depmod"
  /\ tree' = [tree EXCEPT !.index = {m \in tree.modules : m[1] = Target}]
  /\ Goto(IF job.action = "update-kernel" THEN "kernel" ELSE "udebs")
  /\ UNCHANGED <<given, iso, live, chosen, sums, output>>

InstallKernel ==
  /\ pc = "kernel"
  /\ iso' = [iso EXCEPT !.kernel[Text.kernel] = job.target]
  /\ Goto("udebs")
  /\ UNCHANGED <<given, workVars, sums, output>>

StageUdebs ==
  /\ pc = "udebs"
  /\ iso' = [iso EXCEPT !.extras = @ \cup {"localudebs"}]
  /\ Goto("repack")
  /\ UNCHANGED <<given, workVars, sums, output>>

\* _repack_initrd_archive replaces the member through a temporary file.
RepackInstaller ==
  /\ pc = "repack"
  /\ iso' = [iso EXCEPT !.initrd[Text.initrd] = tree]
  /\ Goto("checksums")
  /\ UNCHANGED <<given, workVars, sums, output>>

-----------------------------------------------------------------------------
(* _apply_live_host_rebuild_action.                                        *)

UnpackLive ==
  /\ pc = "unsquash"
  /\ job.default # {} /\ job.squashfs /\ job.sameArch
  /\ live' = [iso.rootfs EXCEPT !.has = @ \cup {"policy"}]
  /\ Goto("install")
  /\ UNCHANGED <<given, iso, tree, chosen, sums, output>>

\* A package may pull in another kernel; a kernel's own scripts make its initrd.
InstallPackages ==
  /\ pc = "install"
  /\ \E new \in (IF job.action = "replace-kernel" THEN {{job.target}} ELSE {{}, {job.target}}) :
       live' = [live EXCEPT !.has = @ \cup {"packages"}, !.abis = @ \cup new,
                  !.boot = [v \in Abis |-> IF v \in new THEN Made(v, live.has) ELSE @[v]]]
  /\ Goto("initramfs")
  /\ UNCHANGED <<given, iso, tree, chosen, sums, output>>

\* Broken variant: only a new kernel gets an initrd.
UpdateNewInitramfs ==
  /\ pc = "initramfs"
  /\ Goto(IF job.action = "replace-kernel" THEN "prune" ELSE "detect")
  /\ UNCHANGED <<given, iso, tree, live, chosen, sums, output>>

\* update-initramfs -u -k all
UpdateInitramfs ==
  /\ pc = "initramfs"
  /\ live' = [live EXCEPT !.boot =
                [v \in Abis |-> IF v \in live.abis THEN Made(v, live.has) ELSE @[v]]]
  /\ Goto(IF job.action = "replace-kernel" THEN "prune" ELSE "detect")
  /\ UNCHANGED <<given, iso, tree, chosen, sums, output>>

PruneKernels ==
  /\ pc = "prune"
  /\ live' = [live EXCEPT !.abis = {job.target},
                !.boot = [v \in Abis |-> IF v = job.target THEN @[v] ELSE NoInitrd]]
  /\ chosen' = job.target
  /\ Goto("kernels")
  /\ UNCHANGED <<given, iso, tree, sums, output>>

CopyKernels ==
  /\ pc = "kernels"
  /\ iso' = [iso EXCEPT !.kernel =
               [k \in Kernels |-> IF \E e \in LiveEntries : e.kernel = k THEN chosen ELSE @[k]]]
  /\ Goto("initrds")
  /\ UNCHANGED <<given, workVars, sums, output>>

\* _detect_live_root_kernel_version: an installed version that is part of the kernel's
\* file name, or the only version.
DetectVersion ==
  /\ pc = "detect"
  /\ LET found == live.abis \cap job.named IN
       /\ found # {} \/ Cardinality(live.abis) = 1
       /\ chosen' \in (IF found # {} THEN found ELSE live.abis)
  /\ Goto("initrds")
  /\ UNCHANGED <<given, iso, tree, live, sums, output>>

\* Broken variant: every initrd of the image, the installer's too.
CopyInitrdsEverywhere ==
  /\ pc = "initrds"
  /\ iso' = [iso EXCEPT !.initrd = [i \in Initrds |-> live.boot[chosen]],
                        !.extras = @ \cup {"hooks"}]
  /\ Goto("masks")
  /\ UNCHANGED <<given, workVars, sums, output>>

\* _copy_file_to_member_paths, _stage_debian_live_iso_policy
CopyInitrds ==
  /\ pc = "initrds"
  /\ iso' = [iso EXCEPT !.extras = @ \cup {"hooks"},
               !.initrd = [i \in Initrds |->
                 IF \E e \in LiveEntries : e.initrd = i THEN live.boot[chosen] ELSE @[i]]]
  /\ Goto("masks")
  /\ UNCHANGED <<given, workVars, sums, output>>

StageMasks ==
  /\ pc = "masks"
  /\ live' = [live EXCEPT !.has = @ \cup {"masks"}]
  /\ Goto("metadata")
  /\ UNCHANGED <<given, iso, tree, chosen, sums, output>>

RefreshMetadata ==
  /\ pc = "metadata"
  /\ iso' = [iso EXCEPT !.packages = live]
  /\ Goto("squash")
  /\ UNCHANGED <<given, workVars, sums, output>>

Squash ==
  /\ pc = "squash"
  /\ iso' = [iso EXCEPT !.rootfs = live]
  /\ Goto("checksums")
  /\ UNCHANGED <<given, workVars, sums, output>>

-----------------------------------------------------------------------------
(* The image.                                                              *)

\* Broken variant: the checksum files keep describing the source image.
RewriteNothing ==
  /\ pc = "checksums"
  /\ sums' = <<SourceTree(job)>>
  /\ Goto("unlink")
  /\ UNCHANGED <<given, iso, workVars, output>>

RewriteChecksums ==
  /\ pc = "checksums"
  /\ sums' = <<iso>>
  /\ Goto("unlink")
  /\ UNCHANGED <<given, iso, workVars, output>>

UnlinkOutput ==
  /\ pc = "unlink"
  /\ output' = NoOutput
  /\ Goto("master")
  /\ UNCHANGED <<given, iso, workVars, sums>>

\* xorriso writes to the output path itself.
MasterBegins ==
  /\ pc = "master"
  /\ output' = Partial
  /\ Goto("mastering")
  /\ UNCHANGED <<given, iso, workVars, sums>>

\* Broken variant: without -map, the new image is the source image.
MasterWithoutMap ==
  /\ pc = "mastering"
  /\ output' = Rebuilt(SourceTree(job), sums)
  /\ Goto("access")
  /\ UNCHANGED <<given, iso, workVars, sums>>

MasterEnds ==
  /\ pc = "mastering"
  /\ output' = Rebuilt(iso, sums)
  /\ Goto("access")
  /\ UNCHANGED <<given, iso, workVars, sums>>

\* _finalize_rebuild_output_access, then the manifest
Report ==
  /\ pc = "access"
  /\ Goto("done")
  /\ UNCHANGED <<given, iso, workVars, sums, output>>

Idle == pc \in Ends /\ UNCHANGED rebuildVars

Program ==
  \/ Validate \/ Extract \/ StepFails
  \/ UnpackInstaller \/ ReplaceTree \/ InjectUdebs \/ Depmod \/ InstallKernel \/ StageUdebs
  \/ RepackInstaller
  \/ UnpackLive \/ InstallPackages \/ UpdateInitramfs \/ PruneKernels \/ CopyKernels
  \/ DetectVersion \/ CopyInitrds \/ StageMasks \/ RefreshMetadata \/ Squash
  \/ RewriteChecksums \/ UnlinkOutput \/ MasterBegins \/ MasterEnds \/ Report

RebuildNext == Program \/ Kill \/ Idle

RebuildSpec == RebuildInit /\ [][RebuildNext]_rebuildVars

-----------------------------------------------------------------------------
(* Properties.                                                             *)

Image == output.image[1].tree
Boots(t, e) ==
  /\ {m[1] : m \in t.initrd[e.initrd].modules} = {t.kernel[e.kernel]}
  /\ t.initrd[e.initrd].index = t.initrd[e.initrd].modules

\* What a finished action works on boots: the installer entry it chose, the
\* live entry it chose, and after a kernel replacement every live entry, each
\* with an initrd of its own kernel whose module index is complete, and, for
\* the live system, with that kernel's modules in the packed root (and no other
\* version's after a replacement).
RebuiltEntriesBoot ==
  pc = "done" =>
    \A e \in (IF job.scope = "d-i" THEN job.text
              ELSE IF job.action = "replace-kernel" THEN LiveEntries ELSE job.default) :
      /\ Boots(Image, e)
      /\ e.kind = "live" => Image.kernel[e.kernel] \in Image.rootfs.abis
      /\ job.action = "replace-kernel" /\ e.kind = "live" => Image.rootfs.abis = {job.target}

\* The finished image holds what was asked for: the installer initrd the new
\* content, the live initrds everything staged and installed before them.
RequestDelivered ==
  pc = "done" =>
    IF job.scope = "d-i" THEN "request" \in Image.initrd[Text.initrd].has
    ELSE /\ {"policy", "packages", "masks"} \subseteq Image.rootfs.has
         /\ \A e \in LiveEntries : {"policy", "packages"} \subseteq Image.initrd[e.initrd].has

\* The checksum files and the package lists describe the image they are in, and
\* a run that ends before it has a complete tree leaves the previous image.
ImageDescribesItself ==
  /\ pc = "done" => output.image[1].sums = <<Image>> /\ Image.packages = Image.rootfs
  /\ pc \in Ends /\ sums = <<>> => output = before

\* An installer action leaves the live system as it was in the source image, a
\* live action the installer.
OtherScopeUntouched ==
  pc = "done" =>
    \A e \in job.entries : (e.kind = "live") = (job.scope = "d-i") =>
      /\ Image.kernel[e.kernel] = job.abi[e.kernel]
      /\ Image.initrd[e.initrd] = SourceTree(job).initrd[e.initrd]

\* An action changes what it was asked to change, and only on its side of the image.
ScopeHonoured == RequestDelivered /\ OtherScopeUntouched

=============================================================================
