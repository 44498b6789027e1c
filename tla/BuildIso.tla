------------------------------- MODULE BuildIso -------------------------------
(***************************************************************************)
(* A Build ISO run (build_debian_iso of build_iso.py): the plan of module  *)
(* BuildPlan, the rebuilt udebs of module UdebRebuild, the kernel evidence *)
(* of module KernelSupport, live-build, and the image put where Create USB *)
(* finds it.  Runs follow one another; each may fail or be killed at any   *)
(* step, and the next one finds the output path and the kernel cache as    *)
(* the last one left them.                                                 *)
(***************************************************************************)
EXTENDS BuildPlan, UdebRebuild, KernelSupport

CONSTANTS
    Plans       \* run -> the plans it may be given; as many runs as there are

VARIABLES
    run,        \* the number of the run
    pc,         \* its step
    plan,       \* its accepted plan
    todo,       \* rebuilds still to make
    rooms,      \* the rebuild workspaces
    staged,     \* staged udebs: file -> what it was built from
    listed,     \* what the rebuilds add to pkg-lists/local
    export,     \* the exported installer workspace
    tree,       \* the live-build tree
    candidate,  \* the ISO live-build left in the workspace
    out,        \* the file at the output path
    manifests   \* run -> what its manifest says

buildVars == <<run, pc, plan, todo, rooms, staged, listed, export, tree, candidate, out, manifests>>
vars == <<buildVars, kernelVars>>

PlanFields == {"distro", "mode", "rootfs", "policy", "given", "direct", "groups", "packages", "initramfs",
               "specs", "localUdebs", "rebuilds", "overlay", "kernel"}

\* What the workspace itself puts beside the packages of a live root.
LiveEntries == {"systemd_masks", "runtime_policy_hook", "initramfs_hook", "locale", "apt_policy", "wifi_runtime",
                "live_include_dir", "include_installer_launcher"}

\* No package has the name of such an entry.
ASSUME KnownAssumption == Known \cap LiveEntries = {}

\* Apt has the source of a rebuild; a kernel's module lists and symbols are lists.
Buildable(entry) ==
    /\ <<entry.source, entry.version>> \in DOMAIN Upstream
    /\ entry.overlay # "none" => entry.overlay \in DOMAIN Overlays
    /\ entry.kind = "linux" =>
         /\ IsSequence(entry.targets) /\ IsSequence(entry.config)
         /\ \A line \in ToSet(entry.config) : line.symbol # Blank.symbol

\* No source package's udeb has the name of a kernel's udebs or of its workspace.
Apart(entry, other) ==
    entry.kind # "linux" /\ other.kind = "linux" => entry.udeb # other.source /\ Room(entry) # Room(other)

\* There is a set of plans for each run, a plan with packages has one of the two
\* fields that list them, and apt has the source of every rebuild of a plan
\* that is worked on.
ASSUME PlansAssumption ==
    /\ Len(Plans) \in Nat /\ DOMAIN Plans = 1 .. Len(Plans)
    /\ \A r \in DOMAIN Plans : \A given \in Plans[r] :
          /\ PlanFields \subseteq DOMAIN given
          /\ given.packages # {} => given.given \cap {"base_packages", "extra_chroot_packages"} # {}
          /\ Accepted(given) /\ Resolvable(given) =>
               LET all == AllRebuilds(Normalized(given))
               IN /\ IsSequence(all)
                  /\ \A entry \in ToSet(all) : Buildable(entry)
                  /\ \A entry, other \in ToSet(all) : Apart(entry, other)

NoPlan == [mode |-> "none"]
NoTree == [chroot |-> {}, optional |-> {}, binary |-> {}, installer |-> {}, modules |-> {}, udebs |-> <<>>]
NoExport == [files |-> <<>>, listed |-> {}, di |-> "none"]
NoImage == [state |-> "none"]

Init ==
    /\ run = 0 /\ pc = "idle" /\ plan = NoPlan
    /\ todo = <<>> /\ rooms = <<>> /\ staged = <<>> /\ listed = {}
    /\ export = NoExport /\ tree = NoTree /\ candidate = NoImage
    /\ out = [state |-> "old"] /\ manifests = <<>>
    /\ cache = EmptyCache /\ support = Idle

(***************************************************************************)
(* The plan is validated and completed; a refused plan starts nothing.     *)
(* Workspace and state directories are named for the run.                  *)
(***************************************************************************)
Start ==
    /\ pc \in {"idle", "done", "stopped"} /\ run < Len(Plans)
    /\ \E given \in Plans[run + 1] :
          /\ Accepted(given) /\ Resolvable(given)
          /\ plan' = Normalized(given)
          /\ todo' = AllRebuilds(plan')
    /\ run' = run + 1 /\ pc' = "rebuild"
    /\ rooms' = <<>> /\ staged' = <<>> /\ listed' = {} /\ export' = NoExport
    /\ tree' = NoTree /\ candidate' = NoImage /\ support' = Idle
    /\ UNCHANGED <<out, manifests, cache>>

Rebuild ==
    /\ pc = "rebuild" /\ todo # <<>>
    /\ LET entry == Head(todo)
       IN /\ ~RebuildRefused(rooms, entry)
          /\ rooms' = Used(rooms, entry)
          /\ staged' = Staged(staged, Prepared(rooms, entry), entry)
          /\ listed' = listed \cup Listed(entry)
    /\ todo' = Tail(todo)
    /\ UNCHANGED <<run, pc, plan, export, tree, candidate, out, manifests, kernelVars>>

\* The udebs the run works with: those of the plan, then those it built.
LocalFile == [made |-> "local", lists |-> <<>>, conf |-> <<>>]
\* Broken variant: a local udeb wins over a rebuilt one.
EffectiveLocal ==
    [file \in DOMAIN staged \cup plan.localUdebs |-> IF file \in plan.localUdebs THEN LocalFile ELSE staged[file]]

Effective ==
    [file \in DOMAIN staged \cup plan.localUdebs |-> IF file \in DOMAIN staged THEN staged[file] ELSE LocalFile]

\* Broken variant: either content is enough.
AuditFailsBoth ==
    /\ plan.rootfs = "erofs" /\ plan.mode # "none" /\ plan.policy = "require"
    /\ DOMAIN Effective = {} /\ ~plan.overlayFiles

AuditFails ==
    /\ plan.rootfs = "erofs" /\ plan.mode # "none" /\ plan.policy = "require"
    /\ DOMAIN Effective = {} \/ ~plan.overlayFiles

Audit ==
    /\ pc = "rebuild" /\ todo = <<>> /\ ~AuditFails
    /\ pc' = "evidence"
    /\ UNCHANGED <<run, plan, todo, rooms, staged, listed, export, tree, candidate, out, manifests, kernelVars>>

\* An automatic kernel rebuild names the version, turns the download on and
\* adds its modules to those asked for.
AutoModules == UNION {plan.autoKernel[i].modules : i \in DOMAIN plan.autoKernel}
\* The plan's symbols, those of a Debian or Kali Live system and those to be set.
SymbolsAsked ==
    \/ "kernel_config_symbols" \in plan.given \/ (Profiled(plan.distro) /\ plan.mode # "netinst")
    \/ \E i \in DOMAIN plan.autoKernel : plan.autoKernel[i].config # <<>>
NeedsEvidence == plan.initramfs # {} \/ plan.kernel # "none" \/ plan.autoKernel # <<>> \/ SymbolsAsked

BeginEvidence ==
    /\ pc = "evidence" /\ NeedsEvidence
    /\ BeginInspection(plan.initramfs \cup AutoModules, SymbolsAsked,
                       plan.autoKernel # <<>> \/ (plan.kernel # "none" /\ plan.download))
    /\ UNCHANGED buildVars

Evidence == pc = "evidence" /\ Inspect /\ UNCHANGED buildVars

Exports == plan.mode # "none" /\ (DOMAIN Effective # {} \/ plan.direct # "off")

\* Files of both directories, the later over the earlier; without entries of
\* the rebuilds the list names every package there is.
Export ==
    /\ pc = "evidence" /\ (NeedsEvidence => support.phase = "done")
    /\ export' = IF ~Exports THEN NoExport
                 ELSE [files |-> Effective,
                       listed |-> IF listed # {} THEN listed ELSE {file[1] : file \in DOMAIN Effective},
                       di |-> "none"]
    /\ pc' = IF plan.direct # "off" THEN "direct" ELSE "config"
    /\ UNCHANGED <<run, plan, todo, rooms, staged, listed, tree, candidate, out, manifests, kernelVars>>

\* make reallyclean, the targets, a snapshot of dest if they made one, and
\* perhaps reallyclean again.
DirectDi ==
    /\ pc = "direct"
    /\ \E dest \in {"snapshot", "empty"} : export' = [export EXCEPT !.di = dest]
    /\ pc' = "config"
    /\ UNCHANGED <<run, plan, todo, rooms, staged, listed, tree, candidate, out, manifests, kernelVars>>

Materialize ==
    /\ pc = "config"
    /\ tree' = Workspace(plan, Effective)
    /\ pc' = "build"
    /\ UNCHANGED <<run, plan, todo, rooms, staged, listed, export, candidate, out, manifests, kernelVars>>

(***************************************************************************)
(* lb build.  Files the user adds to the medium, boot loader overrides and *)
(* udebs of their own may bring Live content into an installer image; the  *)
(* archive and the modules of the result are whatever live-build made.     *)
(***************************************************************************)
LbBuild ==
    /\ pc = "build"
    /\ \E live \in IF SystemLive(plan) THEN {TRUE}
                   ELSE IF tree.binary # {} \/ DOMAIN tree.udebs # {} THEN BOOLEAN ELSE {FALSE},
          archive \in BOOLEAN, modules \in {tree.modules} \cup {tree.modules \ {m} : m \in Requirements} :
          candidate' = [state |-> "whole", run |-> run, plan |-> plan, tree |-> tree,
                        live |-> live, archive |-> archive, modules |-> modules]
    /\ pc' = "check"
    /\ UNCHANGED <<run, plan, todo, rooms, staged, listed, export, tree, out, manifests, kernelVars>>

ContractHolds(image) ==
    image.plan.distro = "debian" => Requirements \subseteq image.modules

\* Broken variant: only Debian images are checked.
CheckDebian ==
    /\ pc = "check"
    /\ (SystemLive(plan) /\ plan.distro = "debian") => candidate.archive /\ ContractHolds(candidate)
    /\ pc' = "copy"
    /\ UNCHANGED <<run, plan, todo, rooms, staged, listed, export, tree, candidate, out, manifests, kernelVars>>

CheckLive ==
    /\ pc = "check"
    /\ SystemLive(plan) => candidate.archive /\ ContractHolds(candidate)
    /\ pc' = "copy"
    /\ UNCHANGED <<run, plan, todo, rooms, staged, listed, export, tree, candidate, out, manifests, kernelVars>>

\* copy2 truncates the file at the output path and fills it.
CopyBegins ==
    /\ pc = "copy"
    /\ out' = [candidate EXCEPT !.state = "partial"]
    /\ pc' = "copying"
    /\ UNCHANGED <<run, plan, todo, rooms, staged, listed, export, tree, candidate, manifests, kernelVars>>

CopyEnds ==
    /\ pc = "copying"
    /\ out' = candidate
    /\ pc' = IF plan.mode = "netinst" THEN "payload" ELSE "manifest"
    /\ UNCHANGED <<run, plan, todo, rooms, staged, listed, export, tree, candidate, manifests, kernelVars>>

\* Broken variant: the payload is not looked at.
TrustPayload ==
    /\ pc = "payload"
    /\ pc' = "manifest"
    /\ UNCHANGED <<run, plan, todo, rooms, staged, listed, export, tree, candidate, out, manifests, kernelVars>>

CheckPayload ==
    /\ pc = "payload" /\ ~out.live
    /\ pc' = "manifest"
    /\ UNCHANGED <<run, plan, todo, rooms, staged, listed, export, tree, candidate, out, manifests, kernelVars>>

WriteManifest ==
    /\ pc = "manifest"
    /\ manifests' = [r \in DOMAIN manifests \cup {run} |->
                        IF r = run THEN [plan |-> plan, di |-> export.di, found |-> support.found]
                        ELSE manifests[r]]
    /\ pc' = IF plan.cleanup = "purge-workspace" THEN "clean" ELSE "done"
    /\ UNCHANGED <<run, plan, todo, rooms, staged, listed, export, tree, candidate, out, kernelVars>>

Clean ==
    /\ pc = "clean"
    /\ tree' = NoTree /\ candidate' = NoImage /\ pc' = "done"
    /\ UNCHANGED <<run, plan, todo, rooms, staged, listed, export, out, manifests, kernelVars>>

\* Any command may fail, any check refuse, and the run may be killed.
Stop ==
    /\ pc \notin {"idle", "done", "stopped"}
    /\ pc' = "stopped"
    /\ UNCHANGED <<run, plan, todo, rooms, staged, listed, export, tree, candidate, out, manifests, kernelVars>>

Next ==
    \/ Start \/ Rebuild \/ Audit \/ BeginEvidence \/ Evidence \/ Export \/ DirectDi
    \/ Materialize \/ LbBuild \/ CheckLive \/ CopyBegins \/ CopyEnds \/ CheckPayload
    \/ WriteManifest \/ Clean \/ Stop

Spec == Init /\ [][Next]_vars

(***************************************************************************)
(* Properties.                                                             *)
(***************************************************************************)
AtOutput == out.state \in {"partial", "whole"}

\* Whatever touches the output path for a Live plan is an image whose package
\* archive and kernel modules were found complete: both checks come before the
\* copy (build_iso.py:245-261; README.md:80-81).
LiveOutputChecked ==
    (AtOutput /\ SystemLive(out.plan)) => out.archive /\ ContractHolds(out)

\* A run whose manifest exists put a whole image at the output path, and an
\* installer image free of Live content; only a later run replaces it.  Where
\* debian-installer was built too, its tree had been looked through before.
ManifestedImageStands ==
    \A r \in DOMAIN manifests :
        /\ AtOutput
        /\ out.run = r =>
             /\ out.state = "whole" /\ out.plan = manifests[r].plan
             /\ out.plan.mode = "netinst" => ~out.live
             /\ out.plan.direct # "off" => manifests[r].di # "none"

\* EROFS with the "require" policy is published only with installer udebs and
\* installer files beside it, from whichever source the udebs come.
RequiredIntegration ==
    (AtOutput /\ out.plan.rootfs = "erofs" /\ out.plan.policy = "require" /\ out.plan.mode # "none") =>
        /\ DOMAIN out.tree.udebs # {} /\ out.plan.overlayFiles
        /\ "installer_include_dir" \in out.tree.installer

\* A Live image is checked before it touches the output path.  An installer
\* image is copied there first and examined where it lies (build_iso.py:261-265),
\* so one that is unexamined or refused may lie there, but never with a manifest
\* (README.md:83 has it rejected "instead of publishing it as Netinst media").
PublishedImageChecked == LiveOutputChecked /\ ManifestedImageStands /\ RequiredIntegration

\* The validator refuses what the workspace would leave out: every package (those
\* the catalog calls optional only where apt has them, by a hook), every
\* module and overlay of the merged plan is in the tree live-build is given.
PlanDelivered ==
    tree # NoTree =>
        /\ plan.packages \subseteq tree.chroot /\ (SystemLive(plan) => ToolPackages(plan) \subseteq tree.chroot \cup tree.optional)
        /\ plan.initramfs \subseteq tree.modules
        /\ plan.given \cap {"live_include_dir", "include_installer_launcher"} \subseteq tree.chroot
        /\ plan.given \cap {"preseed_path", "installer_include_dir"} # {} => plan.mode # "none"
        /\ plan.rootfs = "erofs" <=> "erofs_hook" \in tree.binary

\* No package that the catalog keeps for another distribution reaches the
\* image, through a group, a saved list or a feature spec (live_tools.py:214).
PackagesInScope ==
    (tree # NoTree /\ Profiled(plan.distro)) =>
        (tree.chroot \cup tree.optional) \cap Known \subseteq Allowed(plan.distro)

\* live-build is given the whole merged plan, and nothing the catalog forbids.
PlanHonoured == PlanDelivered /\ PackagesInScope

Rebuilds == AllRebuilds(plan)

SameKernel(i, j) ==
    /\ Rebuilds[i].kind = "linux" /\ Rebuilds[j].kind = "linux"
    /\ Rebuilds[i].source = Rebuilds[j].source /\ Rebuilds[i].version = Rebuilds[j].version

\* Two revisions of one upstream version, or two rebuilds of one version with one
\* of another between them: the last finds the other version's checkout.
Disturbed ==
    \E j, k \in DOMAIN Rebuilds :
        /\ j < k /\ Rebuilds[j].kind = "linux" /\ Rebuilds[k].kind = "linux"
        /\ Rebuilds[j].source = Rebuilds[k].source /\ Rebuilds[j].version # Rebuilds[k].version
        /\ \/ Unpacked(Rebuilds[j]).upstream = Unpacked(Rebuilds[k]).upstream
           \/ \E l \in DOMAIN Rebuilds : l > k /\ SameKernel(j, l)

Later(i) == {j \in DOMAIN Rebuilds : j > i /\ SameKernel(i, j)}

Brings(rebuild, files, name) == rebuild.overlay # "none" /\ name \in DOMAIN Overlays[rebuild.overlay][files]

\* The configuration fragments rebuild i finds: apt's, and those of the overlays
\* its kernel's rebuilds have brought by then.
FragmentsFound(i) ==
    DOMAIN Unpacked(Rebuilds[i]).conf \cup
    UNION {DOMAIN Overlays[Rebuilds[j].overlay].conf :
              j \in {n \in DOMAIN Rebuilds : n <= i /\ SameKernel(i, n) /\ Rebuilds[n].overlay # "none"}}

TargetStands(i, k) ==
    LET path == Rebuilds[i].targets[k].path
    IN /\ \A l \in DOMAIN Rebuilds[i].targets :
            l > k => Rebuilds[i].targets[l].path # path \/ Rebuilds[i].targets[l].strategy = "append"
       /\ \A j \in Later(i) :
            /\ ~Brings(Rebuilds[j], "lists", path)
            /\ \A l \in DOMAIN Rebuilds[j].targets :
                  Rebuilds[j].targets[l].path # path \/ Rebuilds[j].targets[l].strategy = "append"

EntryStands(i, entry, f) ==
    \A j \in Later(i) :
        Occurs(Rebuilds[j].config, entry.symbol) = {} /\ ~Brings(Rebuilds[j], "conf", f)

\* The kernel udebs that are staged carry what every rebuild of their version
\* asked for, the automatic one and those of the spec: each module unless a
\* later list or overlay replaces it, each symbol in exactly one line with its
\* last value unless a later overlay brings the file (build_iso.py:1123-1242),
\* although the rebuilds share one checkout.
KernelHonoured ==
    (run > 0 /\ todo = <<>>) =>
    \A i \in DOMAIN Rebuilds : (Rebuilds[i].kind = "linux" /\ ~Disturbed) =>
        LET made == staged[<<Rebuilds[i].source, Rebuilds[i].version>>]
        IN /\ \A k \in DOMAIN Rebuilds[i].targets : TargetStands(i, k) =>
                 Rebuilds[i].targets[k].modules \subseteq made.lists[Rebuilds[i].targets[k].path]
           /\ \A entry \in ToSet(EntryMap(Rebuilds[i].config)),
                 f \in Fragments(FragmentsFound(i), Rebuilds[i].arch) : EntryStands(i, entry, f) =>
                    \E n \in DOMAIN made.conf[f] :
                       /\ Occurs(made.conf[f], entry.symbol) = {n} /\ made.conf[f][n] = entry

\* The medium and the exported installer workspace hold the same udebs, a
\* rebuilt one in the place of a local one of its name.
ExportMatchesMedia ==
    (tree # NoTree /\ Exports) =>
        /\ tree.udebs = export.files
        /\ \A file \in DOMAIN staged : export.files[file] = staged[file]
        /\ \A i \in DOMAIN Rebuilds : Rebuilds[i].kind = "source" =>
              Rebuilds[i].udeb \in export.listed /\ \E file \in DOMAIN export.files : file[1] = Rebuilds[i].udeb

==============================================================================
