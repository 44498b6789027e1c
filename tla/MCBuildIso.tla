------------------------------ MODULE MCBuildIso ------------------------------
(***************************************************************************)
(* Small values for module BuildIso: three sources, a kernel in two        *)
(* versions, and plans for each mode, distribution and kind of rebuild.    *)
(***************************************************************************)
EXTENDS BuildIso

MCCatalog == [storage |-> [profiles |-> {"debian", "kali"}, packages |-> {"parted", "fatattr"}, optional |-> {"fatattr"}],
              wireless_security |-> [profiles |-> {"kali"}, packages |-> {"aircrack"}, optional |-> {}]]

MCShowsrc == <<[package |-> "linux", version |-> "6.2", kernels |-> {"6.2-amd64"}],
               [package |-> "linux", version |-> "6.1", kernels |-> {"6.1-amd64"}]>>

MCRequirements == {"xxhash", "overlay"}

Conf == [generic |-> <<Line("EROFS", "n"), Blank, Line("EROFS", "y")>>, arch |-> <<Line("NVME", "m")>>]
Linux(version, upstream) == [version |-> version, upstream |-> upstream, lists |-> [all |-> {"ext4"}], conf |-> Conf,
                   control |-> <<>>, support |-> {}, rules |-> {}]
Foo == [version |-> "1", upstream |-> "1", lists |-> <<>>, conf |-> <<>>,
        control |-> [foo |-> [type |-> "deb", fields |-> {"multiarch"}]],
        support |-> {"foo"}, rules |-> {}]

MCUpstream == [source \in {<<"linux", "6.1">>, <<"linux", "6.2">>, <<"rt", "6.1">>, <<"foo", "1">>} |->
                  IF source[1] # "foo" THEN Linux(source[2], source[2]) ELSE Foo]
              @@ (<<"linux", "6.1b">> :> Linux("6.1b", "6.1"))

\* An overlay of module lists, of code, of configuration, of packaging.
Code == [lists |-> <<>>, conf |-> <<>>, support |-> {}]
MCOverlays == [code |-> Code,
               lists |-> [Code EXCEPT !.lists = [arch |-> {"nvme"}]],
               conf |-> [Code EXCEPT !.conf = [generic |-> <<Line("NVME", "n")>>, extra |-> <<>>]],
               rules |-> [lists |-> <<>>, conf |-> <<>>, support |-> {"foo-udeb"}, rules |-> {"override"}]]

MCCandidates == <<"image", "headers", "config">>
MCProvides == [image |-> [dir |-> TRUE, modules |-> {"xxhash", "overlay"}, config |-> TRUE],
               headers |-> [dir |-> TRUE, modules |-> {}, config |-> FALSE],
               config |-> [dir |-> FALSE, modules |-> {}, config |-> TRUE]]
MCHost == [dir |-> TRUE, modules |-> {"overlay"}, config |-> FALSE]
MCIndex == [stale |-> {"headers"}, fresh |-> {"image", "headers", "config"}]

Kernel(version, targets, config, arch, overlay) ==
    [kind |-> "linux", source |-> "linux", version |-> version, overlay |-> overlay, targets |-> targets,
     config |-> config, arch |-> arch, list |-> {}]
Udeb(role) == [kind |-> "source", source |-> "foo", version |-> "1", overlay |-> "none",
               binary |-> "foo", udeb |-> "foo-udeb", role |-> role]
Modules(path, modules, strategy) == [path |-> path, modules |-> modules, strategy |-> strategy]

Plan == [distro |-> "debian", mode |-> "live", rootfs |-> "squashfs", policy |-> "warn", kernelMode |-> "stock-debian",
         kernel |-> "none", download |-> FALSE, direct |-> "off", cleanup |-> "purge-workspace", given |-> {},
         groups |-> {}, packages |-> {}, initramfs |-> {}, specs |-> <<>>, localUdebs |-> {}, overlay |-> "none",
         rebuilds |-> <<>>, autoKernel |-> <<>>, autoUdebs |-> <<>>, overlayFiles |-> TRUE, malformed |-> {}]
Netinst == [Plan EXCEPT !.mode = "netinst", !.rootfs = "none"]
Spec1 == [distro |-> "debian", stage |-> "live", packages |-> {}, initramfs |-> {"erofs"}, given |-> {},
          localUdebs |-> {}, rebuilds |-> <<>>, overlay |-> "none", kernel |-> "none"]

SpecKernels ==
    <<Kernel("6.1", <<Modules("arch", {"erofs"}, "append"), Modules("all", {"erofs"}, "replace")>>,
             <<Line("EROFS", "m"), Line("EROFS", "y")>>, FALSE, "none"),
      Kernel("6.1", <<Modules("all", {"nvme"}, "append")>>, <<Line("NVME", "y")>>, TRUE, "none")>>
\* The same with an overlay of one of them, and with two revisions of 6.1.
Variants == {[SpecKernels EXCEPT ![i].overlay = o] : i \in {1, 2}, o \in {"conf", "lists"}}
            \cup {[SpecKernels EXCEPT ![2].version = "6.1b"]}

EveryPlan ==
    {[Plan EXCEPT !.cleanup = c] : c \in {"purge-workspace", "keep-workspace"}} \cup
    {[Plan EXCEPT !.mode = "none", !.direct = d] : d \in {"off", "apt-source"}} \cup
    {[Plan EXCEPT !.distro = "kali", !.given = {"mirrors", "keyring_packages"}, !.groups = g] :
        g \in {{}, {"wireless_security"}}} \cup
    {[Plan EXCEPT !.distro = "ubuntu", !.given = {"mirrors", "keyring_packages"}]} \cup
    {[Plan EXCEPT !.specs = <<[Spec1 EXCEPT !.packages = p]>>] : p \in {{}, {"aircrack"}}} \cup
    {[Plan EXCEPT !.groups = {"wireless_security"}], [Plan EXCEPT !.malformed = {"image_name"}]} \cup
    \* Installer images, some with Live fields in the plan or in a spec.
    {[Netinst EXCEPT !.given = g, !.direct = d] :
        g \in {{}, {"binary_include_dir"}, {"live_include_dir"}, {"local_deb_dir"}}, d \in {"off", "local-tree"}} \cup
    {[Netinst EXCEPT !.specs = <<[Spec1 EXCEPT !.stage = t, !.initramfs = i, !.localUdebs = {<<"foo-udeb", "1">>},
                                               !.rebuilds = <<Udeb("library")>>]>>] :
        t \in {"live", "d-i"}, i \in {{}, {"erofs"}}} \cup
    \* EROFS with both policies, with and without the two kinds of content.
    {[Plan EXCEPT !.rootfs = "erofs", !.policy = y, !.initramfs = {"erofs"}, !.given = g, !.overlayFiles = f,
                  !.localUdebs = u] :
        y \in {"warn", "require"}, g \in {{}, {"installer_include_dir"}}, f \in BOOLEAN,
        u \in {{}, {<<"bar-udeb", "1">>}}} \cup
    \* Rebuilds: of the spec, automatic, both, of one version or of two.
    {[Netinst EXCEPT !.rebuilds = r, !.autoKernel = a, !.overlay = o] :
        r \in {<<>>, <<SpecKernels[1]>>, <<Udeb("main-menu")>>, SpecKernels, <<SpecKernels[1], Udeb("library"), Udeb("library")>>,
               <<[SpecKernels[1] EXCEPT !.source = "rt"], SpecKernels[2]>>},
        a \in {<<>>, <<[initrd |-> <<"6.1-amd64", "6.2-amd64">>, modules |-> {"nvme"}, config |-> <<Line("EROFS", "m")>>]>>,
               <<[initrd |-> <<"6.2-amd64">>, modules |-> {"nvme"}, config |-> <<>>]>>,
               <<[initrd |-> <<"6.0-amd64">>, modules |-> {"nvme"}, config |-> <<>>]>>},
        o \in {"none", "code", "lists", "conf"}} \cup
    {[Netinst EXCEPT !.rebuilds = r] : r \in Variants} \cup
    {[Netinst EXCEPT !.rebuilds = <<[Udeb("library") EXCEPT !.overlay = o]>>] : o \in {"code", "rules"}} \cup
    {[Netinst EXCEPT !.given = {"kernel_config_symbols"}]} \cup
    {[Netinst EXCEPT !.autoUdebs = <<[name |-> "foo", source |-> s, sourceVersion |-> "none", version |-> "1"]>>] : s \in {"none", "foo"}} \cup
    {[Plan EXCEPT !.kernel = "6.1", !.download = d] : d \in BOOLEAN}

\* The second run meets every output and cache the first can leave.
LaterPlans == {Plan, [Netinst EXCEPT !.given = {"binary_include_dir"}],
               [Plan EXCEPT !.kernel = "6.1", !.download = TRUE]}

MCPlans == <<EveryPlan, LaterPlans>>
==============================================================================
