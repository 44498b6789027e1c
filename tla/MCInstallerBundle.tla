------------------------- MODULE MCInstallerBundle -------------------------
(* Instances of InstallerBundle for TLC. *)
EXTENDS InstallerBundle

In(k, i, has, iso) ==
  [kernel |-> k, initrd |-> [version |-> i, has |-> has], iso |-> [kernel |-> iso[1], initrd |-> iso[2]]]
\* A matching set, ISOs with a foreign installer or a foreign initrd, files without
\* readable versions, and an initrd that somebody has preseeded or patched before.
MCInputs ==
  {In(1, 1, {}, <<1, 1>>), In(1, 1, {}, <<1, 2>>), In(0, 1, {}, <<1, 1>>),
   In(1, 2, {"iso_scan"}, <<0, 0>>), In(1, 1, {"preseed"}, <<1, 0>>)}

Ask(kind, modules, overlay, preseed) ==
  [kind |-> kind, modules |-> modules, overlay |-> overlay, preseed |-> preseed]
MCRequests ==
  {Ask("prepare", "none", {}, FALSE), Ask("prepare", "none", {"desktop", "server"}, TRUE),
   Ask("prepare", "host", {"server"}, FALSE), Ask("prepare", "udeb", {}, TRUE),
   Ask("ensure", "none", {}, FALSE), Ask("profiles", "none", {"desktop"}, FALSE)}
=============================================================================
