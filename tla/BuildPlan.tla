------------------------------ MODULE BuildPlan ------------------------------
(***************************************************************************)
(* What a Build ISO plan becomes before anything is run: the tool catalog  *)
(* and the feature specs merged into it, the rules that refuse it, the     *)
(* rebuilds appended to it and the live-build workspace laid out from it   *)
(* (build_iso.py, live_tools.py).                                          *)
(*                                                                         *)
(* A plan is a record of the choices that decide something, the set        *)
(* "given" of the other fields that hold a value, and the lists whose      *)
(* members matter: packages, initramfs modules, and the rebuilds.          *)
(***************************************************************************)
EXTENDS Integers, Sequences, FiniteSets, SequencesExt

CONSTANTS
    Catalog,      \* tool group -> [profiles, packages, optional]
    Requirements, \* the module names the live image must carry
    Showsrc       \* apt's linux sources, in order: [package, version, kernels]

Distros == {"debian", "ubuntu", "kali"}
\* Every package some profile of the catalog knows.
Known == UNION {Catalog[g].packages : g \in DOMAIN Catalog}

\* The distributions with a profile in the catalog; Ubuntu has none.
Profiled(distro) == distro \in {"debian", "kali"}

Available(distro) == {g \in DOMAIN Catalog : distro \in Catalog[g].profiles}

Allowed(distro) == UNION {Catalog[g].packages : g \in Available(distro)}

\* A catalog the loader accepts: the wireless group belongs to Kali alone.
CatalogLoads ==
    \A g \in DOMAIN Catalog :
        /\ Catalog[g].packages # {}
        /\ Catalog[g].optional \subseteq Catalog[g].packages
        /\ Catalog[g].profiles \subseteq Distros /\ Catalog[g].profiles # {}
        /\ g = "wireless_security" => Catalog[g].profiles = {"kali"}

ASSUME CatalogAssumption == CatalogLoads

\* The groups a plan selects: every available one when it names none.
Groups(plan) == IF plan.groups = {} THEN Available(plan.distro) ELSE plan.groups

GroupsRefused(plan) ==
    Profiled(plan.distro) /\ ~(plan.groups \subseteq Available(plan.distro))

ToolPackages(plan) ==
    IF Profiled(plan.distro) THEN UNION {Catalog[g].packages : g \in Groups(plan)} ELSE {}

\* The packages a hook installs only if apt has them: the catalog's optional
\* ones, for Kali every tool.
Optional(plan) ==
    IF plan.mode = "netinst" THEN {}
    ELSE IF plan.distro = "kali" THEN ToolPackages(plan)
    ELSE ToolPackages(plan) \cap UNION {Catalog[g].optional : g \in DOMAIN Catalog}

(***************************************************************************)
(* The merges, in the order the validator makes them.                      *)
(***************************************************************************)
WithTools(plan) ==
    IF plan.mode = "netinst" THEN plan
    ELSE LET hooks == Profiled(plan.distro)
             tools == ToolPackages(plan) \ Optional(plan)
         IN [plan EXCEPT
               !.packages = @ \cup tools,
               !.initramfs = IF hooks THEN @ \cup Requirements ELSE @,
               !.given = @ \cup (IF hooks THEN {"base_packages", "bootappend_live"} ELSE {})
                           \cup (IF tools # {} THEN {"storage_tool_packages"} ELSE {})]

\* The specs, in order: lists are appended to, a path that the plan does not have
\* is taken from the first spec that has it.
Joined(plan, field) == plan[field] \cup UNION {plan.specs[i][field] : i \in DOMAIN plan.specs}

OrOfSpec(plan, field, absent) ==
    LET having == {i \in DOMAIN plan.specs : plan.specs[i][field] # absent}
    IN IF plan[field] # absent \/ having = {} THEN plan[field]
       ELSE plan.specs[CHOOSE i \in having : \A j \in having : i <= j][field]

WithSpecs(plan) ==
    [plan EXCEPT
       !.packages = Joined(plan, "packages"),
       !.initramfs = Joined(plan, "initramfs"),
       !.given = Joined(plan, "given")
                 \cup {f \in {"extra_chroot_packages"} : \E i \in DOMAIN plan.specs : plan.specs[i].packages # {}},
       !.localUdebs = OrOfSpec(plan, "localUdebs", {}),
       !.rebuilds = OrOfSpec(plan, "rebuilds", <<>>),
       !.overlay = OrOfSpec(plan, "overlay", "none"),
       !.kernel = OrOfSpec(plan, "kernel", "none")]

\* The overlay chosen for the whole plan replaces that of each kernel rebuild.
WithOverlay(plan) ==
    IF plan.overlay = "none" THEN plan
    ELSE [plan EXCEPT !.rebuilds =
            [i \in DOMAIN @ |-> IF @[i].kind = "linux" THEN [@[i] EXCEPT !.overlay = plan.overlay]
                                ELSE @[i]]]

Merged(plan) == WithOverlay(WithSpecs(WithTools(plan)))

(***************************************************************************)
(* The rules.                                                              *)
(***************************************************************************)
\* A field of the wrong shape, a path that is not there, a name no package or
\* module can have, an unknown choice: any of them refuses the plan.
WellFormed(plan) == plan.malformed = {}

NoInstallerForbids == {"preseed_path", "installer_include_dir",
                       "installer_boot_append", "include_installer_launcher"}

NetinstForbids == {"base_packages", "extra_chroot_packages", "local_deb_dir", "live_include_dir", "bootappend_live", "filesystem_module_entries",
                   "storage_tool_packages", "include_installer_launcher"}

InstallerWork(plan) ==
    plan.rebuilds # <<>> \/ plan.autoKernel # <<>> \/ plan.autoUdebs # <<>> \/ plan.localUdebs # {}

HasSpec(plan, stage) == \E i \in DOMAIN plan.specs : plan.specs[i].stage = stage

ModeRefused(plan) ==
    CASE plan.mode = "none" ->
            \/ plan.given \cap NoInstallerForbids # {}
            \/ InstallerWork(plan) \/ HasSpec(plan, "d-i") \/ plan.direct # "off"
            \/ plan.rootfs = "none"
      [] plan.mode = "netinst" ->
            \/ plan.given \cap NetinstForbids # {} \/ HasSpec(plan, "live")
            \/ plan.initramfs # {} \/ plan.groups # {}
            \/ plan.rootfs # "none" \/ plan.kernelMode # "stock-debian"
      [] OTHER -> plan.rootfs = "none"

\* Another profile's packages, from a saved list or a spec, are refused.
PackagesRefused(plan) ==
    /\ plan.mode # "netinst" /\ Profiled(plan.distro)
    /\ (plan.packages \cup Optional(plan)) \cap (Known \ Allowed(plan.distro)) # {}

ErofsRefused(plan) ==
    /\ plan.rootfs = "erofs"
    /\ \/ "erofs" \notin plan.initramfs \/ "xxhash" \notin plan.initramfs
       \/ /\ plan.policy = "require" /\ plan.mode # "none"
          /\ (~InstallerWork(plan) \/ "installer_include_dir" \notin plan.given)

SourcesRefused(plan) ==
    \/ plan.distro # "debian" /\ ~({"mirrors", "keyring_packages"} \subseteq plan.given)
    \/ plan.kernelMode # "stock-debian" /\ ~({"kernel_package_stub", "kernel_flavours"} \subseteq plan.given)
    \/ plan.kernelMode = "local-kernel-deb-dir" /\ "kernel_deb_dir" \notin plan.given
    \/ plan.kernelMode = "custom-apt-repo" /\ "custom_apt_repo" \notin plan.given
    \/ "custom_binary_apt_repo" \in plan.given /\ "custom_apt_repo" \notin plan.given

\* A kernel rebuild asks for something, and a run-wide overlay has a rebuild.
RebuildsRefused(plan) ==
    \/ plan.overlay # "none" /\ plan.rebuilds = <<>>
    \/ \E i \in DOMAIN plan.rebuilds :
          plan.rebuilds[i].kind = "linux" /\ plan.rebuilds[i].targets = <<>> /\ plan.rebuilds[i].config = <<>>
    \/ \E i \in DOMAIN plan.autoKernel :
          plan.autoKernel[i].modules = {} /\ plan.autoKernel[i].config = <<>>

SpecsRefused(plan) == \E i \in DOMAIN plan.specs : plan.specs[i].distro # plan.distro

\* Broken variant: the rules look at the plan before the specs are merged.
AcceptedEarly(plan) ==
    /\ ~(plan.mode # "netinst" /\ GroupsRefused(plan))
    /\ ~SpecsRefused(plan) /\ ~PackagesRefused(Merged(plan)) /\ ~ModeRefused(WithTools(plan))
    /\ ~ErofsRefused(Merged(plan)) /\ ~SourcesRefused(plan) /\ ~RebuildsRefused(Merged(plan))

\* Broken variant: the package scope is that of the plan's own lists.
AcceptedOwnLists(plan) ==
    /\ ~(plan.mode # "netinst" /\ GroupsRefused(plan))
    /\ ~SpecsRefused(plan) /\ ~PackagesRefused(WithTools(plan)) /\ ~ModeRefused(Merged(plan))
    /\ ~ErofsRefused(Merged(plan)) /\ ~SourcesRefused(plan) /\ ~RebuildsRefused(Merged(plan))

Accepted(plan) ==
    LET merged == Merged(plan)
    IN /\ WellFormed(plan)
       /\ ~(plan.mode # "netinst" /\ GroupsRefused(plan))
       /\ ~SpecsRefused(plan) /\ ~PackagesRefused(merged)
       /\ ~ModeRefused(merged) /\ ~ErofsRefused(merged)
       /\ ~SourcesRefused(merged) /\ ~RebuildsRefused(merged)

Normalized(plan) ==
    LET merged == Merged(plan)
    IN [merged EXCEPT
          !.direct = IF plan.mode = "none" THEN "off" ELSE @,
          !.given = @ \cup (IF plan.rootfs = "erofs" THEN {"filesystem_module_entries"} ELSE {})]

(***************************************************************************)
(* The rebuilds that follow the spec's own: the kernel of the source ISO   *)
(* with the modules in the generic and in the architecture's list, then    *)
(* one source package per chosen binary package.                           *)
(***************************************************************************)
\* The installer kernel is the first one the source ISO's initrd names, and its
\* source the first that lists the kernel package of that version.
Sources(request) ==
    {i \in DOMAIN Showsrc : request.initrd # <<>> /\ Head(request.initrd) \in Showsrc[i].kernels}

KernelSource(request) == Showsrc[CHOOSE i \in Sources(request) : \A j \in Sources(request) : i <= j]

AutoKernel(request) ==
    [kind |-> "linux", source |-> KernelSource(request).package, version |-> KernelSource(request).version,
     overlay |-> "none",
     targets |-> IF request.modules = {} THEN <<>>
                 ELSE <<[path |-> "all", modules |-> request.modules, strategy |-> "append"],
                        [path |-> "arch", modules |-> request.modules, strategy |-> "append"]>>,
     config |-> request.config, arch |-> TRUE, list |-> {}]

\* A binary package without a Source field is its own source; a Source field
\* without a version stands for the binary's.
BinarySource(binary) ==
    IF binary.source = "none" THEN <<binary.name, binary.version>>
    ELSE <<binary.source, IF binary.sourceVersion = "none" THEN binary.version ELSE binary.sourceVersion>>

AutoUdeb(binary) ==
    [kind |-> "source", source |-> BinarySource(binary)[1], version |-> BinarySource(binary)[2], overlay |-> "none",
     binary |-> binary.name, udeb |-> binary.name \o "-udeb", role |-> "generic"]

Resolvable(plan) == \A i \in DOMAIN plan.autoKernel : Sources(plan.autoKernel[i]) # {}

AllRebuilds(plan) ==
    plan.rebuilds \o [i \in DOMAIN plan.autoKernel |-> AutoKernel(plan.autoKernel[i])]
                  \o [i \in DOMAIN plan.autoUdebs |-> AutoUdeb(plan.autoUdebs[i])]

(***************************************************************************)
(* lb config and the tree it is given.  "chroot" is what enters the live   *)
(* root filesystem, "optional" what a hook installs into it where apt has  *)
(* it, "binary" the medium, "installer" the installer.                     *)
(***************************************************************************)
SystemLive(plan) == plan.mode # "netinst"

Workspace(plan, udebs) ==
    LET live == SystemLive(plan)
        has(field) == field \in plan.given
    IN [chroot |-> IF ~live THEN {}
                   ELSE plan.packages \cup {"systemd_masks", "runtime_policy_hook"}
                        \cup (IF plan.initramfs # {} THEN {"initramfs_hook"} ELSE {})
                        \cup (IF plan.distro = "debian" THEN {"locale", "apt_policy"} ELSE {})
                        \cup (IF Profiled(plan.distro) THEN {"wifi_runtime"} ELSE {})
                        \cup {f \in {"live_include_dir", "include_installer_launcher"} : has(f)},
        optional |-> Optional(plan),
        binary |-> {f \in {"binary_include_dir", "bootloader_override_dir"} : has(f)}
                   \cup (IF live /\ has("filesystem_module_entries") THEN {"live_modules"} ELSE {})
                   \cup (IF live /\ Profiled(plan.distro) THEN {"live_config_hooks", "live_wifi"} ELSE {})
                   \cup (IF live /\ plan.rootfs = "erofs" THEN {"erofs_hook"} ELSE {}),
        installer |-> {f \in {"preseed_path", "installer_include_dir"} : has(f)},
        modules |-> IF live THEN plan.initramfs ELSE {},
        udebs |-> udebs]
==============================================================================
