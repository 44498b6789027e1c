----------------------------- MODULE KernelArgs -----------------------------
(***************************************************************************)
(* What the renderer does to a kernel command line (boot_render.py and     *)
(* bootpolicy.py): merging and removing arguments, the Live and installer  *)
(* settings of the configuration, the media locators and the transport of  *)
(* a preseed file.  A command line is a sequence of arguments [k, v] as in *)
(* BootParse; the configuration is a record of such sequences.  The extra  *)
(* installer and forensics arguments are the shared ones followed by the   *)
(* profile's: everywhere the second are merged right after the first.      *)
(***************************************************************************)
EXTENDS Naturals, Sequences, FiniteSets

CONSTANT Config   \* the effective configuration

Arg(key, v) == [k |-> key, v |-> v]
Flag(name) == [k |-> "", v |-> <<name>>]
IsFlag(a, names) == a.k = "" /\ a.v[1] \in names
Separator == Flag("---")

Without(args, keys, flags) ==
  LET stays(a) == ~(a.k \in keys \/ IsFlag(a, flags)) IN SelectSeq(args, stays)

\* The arguments before "---", and the rest.
SeparatorAt(args) ==
  IF \E i \in DOMAIN args : args[i] = Separator
  THEN CHOOSE i \in DOMAIN args : args[i] = Separator /\ \A j \in 1..(i - 1) : args[j] # Separator
  ELSE Len(args) + 1
Before(args) == SubSeq(args, 1, SeparatorAt(args) - 1)
After(args) == SubSeq(args, SeparatorAt(args), Len(args))

\* Additions go before "---" and replace what has the same key there.
MergeKernelArgs(args, additions) ==
  LET keys == {additions[i].k : i \in DOMAIN additions} \ {""}
      flags == {additions[i].v[1] : i \in {j \in DOMAIN additions : additions[j].k = ""}}
  IN  Without(Before(args), keys, flags) \o additions \o After(args)

\* The values of all classes= arguments become one argument, the last before "---".
ClassesLast(args) ==
  LET isClass(a) == a.k = "classes"
      classes == SelectSeq(Before(args), isClass)
      merged[i \in 0..Len(classes)] == IF i = 0 THEN <<>> ELSE merged[i - 1] \o classes[i].v
  IN  Without(Before(args), {"classes"}, {})
        \o (IF merged[Len(classes)] = <<>> THEN <<>> ELSE <<Arg("classes", merged[Len(classes)])>>)
        \o After(args)

-----------------------------------------------------------------------------
(* Live and installer settings                                             *)

RemoveLiveOnly(args) == Without(args, {"toram"}, {"toram"})
ToRam(module) == <<Arg("toram", <<module>>)>>

\* Only an extracted or raw payload runs the optional Live hooks.
LiveHookArgs(profile, layout) ==
  IF profile \notin {"debian", "kali-linux"} THEN <<>>
  ELSE MergeKernelArgs(IF layout = "raw-iso" THEN Config.liveHooks ELSE <<>>,
                       <<Arg("live-config.hooks", <<"medium">>)>>)

LivePolicyArgs == Config.liveBase \o Config.livePolicy

\* Tails keeps its own arguments and only gains toram; {} when the entry has no
\* boot=live, where the renderer refuses it.
ApplyLiveSettings(args0, profile, layout, toram, module) ==
  LET stock == RemoveLiveOnly(args0)
      isLive == Arg("boot", <<"live">>) \in {stock[i] : i \in DOMAIN stock}
      ram(args) == IF toram THEN MergeKernelArgs(args, ToRam(module)) ELSE args
      based == IF isLive THEN stock ELSE MergeKernelArgs(stock, Config.liveFallback)
      policed == MergeKernelArgs(MergeKernelArgs(based, LivePolicyArgs), Config.liveExtras)
      own == MergeKernelArgs(policed, Config.liveProfileExtras[profile])
      hooked == MergeKernelArgs(own, LiveHookArgs(profile, layout))
  IN  IF profile = "tails" THEN (IF isLive THEN {ram(stock)} ELSE {})
      ELSE {MergeKernelArgs(ram(RemoveLiveOnly(hooked)), Config.liveMem)}

\* The settings a Live entry is rendered with; forensics entries get theirs on top.
PreservedLiveSettings(e, profile, layout, toram, module) ==
  {IF e.kind = "live-forensics" /\ profile # "tails" THEN MergeKernelArgs(a, Config.forensics) ELSE a :
     a \in ApplyLiveSettings(e.args, profile, layout, toram, module)}

SeedKeys == {"url", "preseed/url", "url/preseed", "file", "preseed/file", "file/preseed"}
RemoveSeedTransport(args) == Without(args, SeedKeys, {})
SetSeedTransport(args, transport, location) ==
  IF location = <<>> THEN RemoveSeedTransport(args)
  ELSE MergeKernelArgs(RemoveSeedTransport(args),
                       <<Arg(IF transport = "usb" THEN "file" ELSE "url", location)>>)

InstallerExtras(args) == MergeKernelArgs(args, Config.installerExtras)

ApplyInstallerSettings(args, profile) ==
  LET url == Config.preseedUrl[profile]
      policy == Config.installerPolicy \o (IF url = <<>> THEN <<>> ELSE <<Arg("url", url)>>)
  IN  RemoveLiveOnly(SetSeedTransport(
        InstallerExtras(MergeKernelArgs(RemoveLiveOnly(args), policy)), "url", url))

ManualInstallerSettings(args) ==
  RemoveLiveOnly(RemoveSeedTransport(InstallerExtras(
    Without(RemoveSeedTransport(args),
            {"classes", "dualboot", "dualboot_efi", "dualboot_debian", "ssh_server"}, {}))))

-----------------------------------------------------------------------------
(* Media locators and persistence                                          *)

Device(uuid) == <<"dev", "disk", "by-uuid", uuid>>

BindInstallerMedia(args, uuid) ==
  MergeKernelArgs(Without(args, {"INSTALL_MEDIA_DEV"}, {}), <<Arg("INSTALL_MEDIA_DEV", Device(uuid))>>)

LocatorKeys == {"findiso", "fromiso", "iso-scan/filename", "bootfrom", "INSTALL_MEDIA_DEV",
                "live-media", "uuid"}
RemoveMediaLocators(args) == Without(args, LocatorKeys, {"ignore_uuid"})

\* The locator of an ISO kept as a file of a payload file system.
BindIsoStorePayload(args, e, isofile) ==
  IF isofile = <<>> THEN args
  ELSE IF e.kind \in {"installer", "automated-installer", "expert-installer", "rescue"}
       THEN MergeKernelArgs(RemoveMediaLocators(args), <<Arg("iso-scan/filename", isofile)>>)
  ELSE IF e.kind \in {"live", "live-persistence", "live-encrypted-persistence",
                      "live-failsafe", "live-forensics"}
       THEN MergeKernelArgs(RemoveMediaLocators(args), <<Arg("findiso", isofile)>>)
  ELSE RemoveMediaLocators(args)

BindSharedDataPayload(args, e, isofile) ==
  BindIsoStorePayload(RemoveMediaLocators(args), e, isofile)

PersistenceKeys == {"persistent", "persistence-label", "persistence-encryption",
                    "persistence-media", "persistence-storage", "persistence-method"}
RemovableStorage == <<Arg("persistence-media", <<"removable-usb">>),
                      Arg("persistence-storage", <<"filesystem">>), Arg("union", <<"overlay">>)>>

PersistenceArgs(mode, label) ==
  CASE mode = "none" -> <<>>
    [] mode = "plain" -> <<Flag("persistence"), Arg("persistence-label", <<label>>)>> \o RemovableStorage
    [] mode = "encrypted" -> <<Arg("persistent", <<"cryptsetup">>),
                               Arg("persistence-encryption", <<"luks">>), Flag("persistence"),
                               Arg("persistence-label", <<label>>)>> \o RemovableStorage

\* The payload and the persistence a Live entry boots with, whatever upstream said.
FinalizeKernelArgs(profile, args, uuid, mode, label) ==
  LET sane == Without(args, {"findiso", "fromiso", "iso-scan/filename", "bootfrom"}, {})
      bound == <<Flag("ignore_uuid"), Arg("live-media", Device(uuid))>>
  IN  IF profile = "tails"
      THEN MergeKernelArgs(Without(sane, PersistenceKeys \union {"live-media"}, {"persistence"}),
                           bound \o <<Flag("nopersistence")>>)
      ELSE MergeKernelArgs(
             MergeKernelArgs(Without(sane, PersistenceKeys \union {"uuid", "live-media", "union"},
                                     {"ignore_uuid", "persistence", "nopersistence"}), bound),
             PersistenceArgs(mode, label))
=============================================================================
