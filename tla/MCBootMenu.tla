----------------------------- MODULE MCBootMenu -----------------------------
(***************************************************************************)
(* Small values for module BootMenu: the boot configuration of nine media *)
(* (Live ISOs with GRUB and syslinux menus, Kali Purple, Tails, prepared   *)
(* netinst and netboot trees, one that is not UEFI), the custom menus with *)
(* one entry of each type, and plans of up to three media.                 *)
(***************************************************************************)
EXTENDS BootMenu

\* _candidate_config_paths, those the media below have or miss
MCCandidates == <<<<"boot", "grub", "grub.cfg">>, <<"boot", "grub", "loopback.cfg">>,
                  <<"isolinux", "txt.cfg">>, <<"isolinux", "live.cfg">>>>

Title(text, words) == [text |-> <<text>>, words |-> words]
Op(op) == [op |-> op]
Titled(op, title) == [op |-> op, title |-> title]
Source(path) == [op |-> "source", path |-> path]
If(never) == [op |-> "if", never |-> never]
Set(name, path) == [op |-> "set", name |-> name, value |-> [loop |-> FALSE, path |-> path]]
Linux(loop, path, args) == [op |-> "linux", ref |-> "", loop |-> loop, path |-> path, args |-> args]
Initrd(loop, path) == [op |-> "initrd", ref |-> "", loop |-> loop, path |-> path]
Entry(title, path, initrd, args) ==
  <<Titled("menuentry", title), Linux(FALSE, path, args), Initrd(FALSE, initrd), Op("close")>>

BootLive == Arg("boot", <<"live">>)
Vmlinuz(dir) == Append(dir, "vmlinuz")
InitrdIn(dir) == Append(dir, "initrd.gz")
Live(title, args) == Entry(title, Vmlinuz(<<"live">>), InitrdIn(<<"live">>), <<BootLive>> \o args)
Installer(title, dir, args) == Entry(title, Vmlinuz(dir), InitrdIn(dir), args)
Quiet == <<Separator, Flag("quiet")>>

Grub == <<"boot", "grub", "grub.cfg">>
Loopback == <<"boot", "grub", "loopback.cfg">>
Theme == <<"boot", "grub", "theme.cfg">>

DebianLive == (Grub :>
     <<Source(Theme)>>
       \o Live(Title("Debian Live", {}), <<Arg("uuid", <<"old">>)>> \o Quiet)
       \o <<If(TRUE), Titled("menuentry", Title("Hidden", {})), Op("fi"), If(FALSE), Op("fi")>>
       \o <<Titled("submenu", Title("Advanced", {}))>>
       \o Live(Title("Debian persistence", {"persistence"}), <<Flag("persistence")>>)
       \o Live(Title("Debian encrypted", {}), <<Arg("persistent", <<"cryptsetup">>)>>)
       \o <<Op("close"), Op("close"), Titled("menuentry", NoTitle)>>
       \o Live(Title("Verify integrity", {"integrity"}), <<Arg("findiso", <<"old.iso">>)>>)
       \o Entry(Title("Memory test", {"memtest"}), <<"live", "memtest">>, <<>>, <<>>)
       \o <<Titled("menuentry", Title("Firmware", {"firmware"})), [op |-> "command", text |-> "fwsetup"],
            Op("close"), Titled("submenu", NoTitle), Op("fi"), [op |-> "command", text |-> "terminal"]>>)
  @@ (Loopback :> <<Source(Grub)>> \o Live(Title("Debian Live", {}), <<Arg("uuid", <<"old">>)>> \o Quiet))
  @@ (Theme :> <<Source(Grub)>>)

KaliLive == (Grub :>
     <<Titled("menuentry", Title("Kali Live", {})), Set("isofile", <<"kali.iso">>), Op("loopback"),
       [op |-> "linux", ref |-> "kernel", loop |-> TRUE, path |-> Vmlinuz(<<"live">>),
        args |-> <<BootLive, Arg("findiso", <<"$isofile">>)>>],
       Initrd(TRUE, InitrdIn(<<"live">>)), Source(Theme), Op("close")>>
       \o Live(Title("Kali forensic", {"forensic"}), <<>>)
       \o SubSeq(Live(Title("Kali failsafe", {"failsafe"}), <<>>), 1, 3))

\* The menu of a Kali ISO that does not loop itself back.
KaliRaw == (Grub :> Live(Title("Kali Live", {}), <<Arg("fromiso", <<"old">>)>>)
                      \o Live(Title("Kali forensic", {"forensic"}), <<>>)
                      \o Live(Title("Kali persistence", {"persistence"}), <<>>))

SyslinuxLive == (<<"isolinux", "live.cfg">> :>
     <<Titled("label", Title("Debian Live", {})), Titled("menu label", Title("Debian Live", {})),
       [op |-> "linux", path |-> Vmlinuz(<<"live">>)], [op |-> "initrd", path |-> InitrdIn(<<"live">>)],
       [op |-> "append", args |-> <<BootLive>>, initrd |-> <<>>],
       Titled("menu begin", Title("More", {})), Titled("label", Title("Debian failsafe", {"failsafe"})),
       [op |-> "linux", path |-> Vmlinuz(<<"live">>)],
       [op |-> "append", args |-> <<BootLive>>, initrd |-> InitrdIn(<<"live">>)],
       Titled("menu end", NoTitle)>>)

InstallAmd == <<"install.amd">>
KaliPurple == (Grub :>
     Installer(Title("Graphical install", {"install", "graphical"}), <<"install.amd", "gtk">>, Quiet)
       \o Installer(Title("Install", {"install"}), InstallAmd, <<Arg("INSTALL_MEDIA_DEV", <<"old">>)>> \o Quiet)
       \o Installer(Title("Expert install", {"install", "expert", "expert install"}), InstallAmd,
                    <<Arg("priority", <<"low">>)>>)
       \o Installer(Title("Rescue mode", {"rescue", "rescue mode"}), InstallAmd, <<>>)
       \o Installer(Title("Automated install", {"install", "automated", "automated install"}), InstallAmd,
                    <<Arg("auto", <<"true">>), Arg("url", <<"old">>)>>)
       \o <<Titled("menuentry", Title("UEFI", {"firmware"})), [op |-> "command", text |-> "fwsetup"],
            Op("close")>>)

Tails == (Grub :> Live(Title("Tails", {}), <<Flag("nopersistence")>>)
                    \o Live(Title("Tails failsafe", {"failsafe"}), <<Flag("nopersistence")>>))

Prepared1(dir) == (Grub :>
     Installer(Title("Install", {"install"}), dir, <<Arg("file", <<"old">>)>>)
       \o Installer(Title("Expert install", {"install", "expert", "expert install"}), dir,
                    <<Arg("priority", <<"low">>), Arg("iso-scan/filename", <<"old">>)>>)
       \o Installer(Title("Rescue mode", {"rescue", "rescue mode"}), dir, <<Flag("toram")>>))

MCFiles == [debianlive |-> DebianLive, kalilive |-> KaliLive, kaliraw |-> KaliRaw,
            syslinux |-> SyslinuxLive, purple |-> KaliPurple, tails |-> Tails, bios |-> DebianLive,
            netinst |-> Prepared1(<<"hd-media">>), netboot |-> Prepared1(<<"netboot">>)]

Pair(dir) == {Vmlinuz(dir), InitrdIn(dir)}
Flavors == UNION {Pair(<<".debian-usb", "installer-profiles", f>>) : f \in {"desktop", "server"}}
Info(uefi, cryptsetup, prepared, members) ==
  [uefi |-> uefi, cryptsetup |-> cryptsetup, prepared |-> prepared,
   module |-> "filesystem.squashfs", members |-> members]
MCMediumInfo ==
  [debianlive |-> Info(TRUE, TRUE, FALSE, Pair(<<"live">>) \union {<<"live", "memtest">>}),
   kalilive |-> Info(TRUE, FALSE, FALSE, Pair(<<"live">>)),
   kaliraw |-> Info(TRUE, FALSE, FALSE, Pair(<<"live">>)),
   syslinux |-> Info(TRUE, TRUE, FALSE, Pair(<<"live">>)),
   purple |-> Info(TRUE, FALSE, FALSE, Pair(InstallAmd) \union Pair(<<"install.amd", "gtk">>)),
   tails |-> Info(TRUE, FALSE, FALSE, Pair(<<"live">>)),
   bios |-> Info(FALSE, FALSE, FALSE, Pair(<<"live">>)),
   netinst |-> Info(TRUE, FALSE, TRUE, Pair(<<"hd-media">>) \union Flavors),
   netboot |-> Info(TRUE, FALSE, TRUE, Pair(<<"netboot">>) \union Flavors)]

Profiles == {"debian", "kali-linux", "kali-purple", "tails"}
MCConfig ==
  [liveHooks |-> <<Arg("hooks", <<"tools">>)>>, liveBase |-> <<Flag("components")>>,
   liveProfileExtras |-> [p \in Profiles |-> IF p = "kali-linux" THEN <<Flag("toram")>> ELSE <<>>],
   liveMem |-> <<Arg("mem", <<"8G">>)>>,
   livePolicy |-> <<Flag("splash")>>, liveExtras |-> <<>>, liveFallback |-> <<BootLive>>,
   forensics |-> <<Flag("noswap")>>, installerPolicy |-> <<Arg("auto", <<"true">>)>>,
   installerExtras |-> <<Arg("classes", <<"lab">>)>>, common |-> <<Arg("locale", <<"en">>)>>,
   preseedUrl |-> [p \in Profiles |-> IF p = "kali-purple" THEN <<"http:">> ELSE <<>>],
   usbSeed |-> [p \in Profiles |-> IF p = "kali-linux" THEN <<>> ELSE <<"hd-media", "seed">>],
   label |-> ("debian" :> "persistence" @@ "kali-linux" :> "kali-persist"
              @@ "kali-purple" :> "" @@ "tails" :> "")]

LiveSpec(toram, mode) == [type |-> "live", base |-> "live", title |-> Title("Live", {}), toram |-> toram, mode |-> mode]
InstallerSpec(base) == [type |-> "installer", title |-> Title("Manual", {}), base |-> base]
\* A preset that still names a file of its own, as a user may write one.
Presets == <<[label |-> Title("DHCP", {}), args |-> <<Arg("classes", <<"desktop">>), Arg("file", <<"stale">>)>>]>>
Network(url) == [title |-> Title("Network", {}), url |-> url, args |-> <<Arg("net", <<"dhcp">>)>>]
PresetSpec(online) == [type |-> "presets", title |-> Title("Preseed", {}), online |-> online,
                       presets |-> Presets, networks |-> <<Network(<<>>), Network(<<"https:">>)>>]
Child(transport, location) == [title |-> Title("Transport", {}), transport |-> transport,
                               location |-> location, args |-> <<>>, presets |-> Presets]
FlavorSpec(flavor) ==
  [type |-> "flavor", title |-> Title("Flavor", {}), flavor |-> flavor,
   children |-> <<Child("https", <<"https:">>), Child("http", <<>>), Child("initrd", <<>>),
                  Child("usb", <<"hd-media", "seed">>)>>]

Menu(entries) == <<[title |-> Title("Menu", {}), entries |-> entries]>>
LiveMenu == [menus |-> Menu(<<LiveSpec(FALSE, "none"), LiveSpec(TRUE, "plain"), LiveSpec(FALSE, "encrypted")>>),
             legacy |-> <<>>]
InstallMenu == [menus |-> Menu(<<FlavorSpec("desktop"), FlavorSpec("server")>>),
                legacy |-> <<InstallerSpec("installer"), InstallerSpec("automated")>>]
MCMenuSpec ==
  [key \in {"debian", "kali-linux"} \X {"primary", "netinst", "netboot"} |->
     IF key[2] = "primary" THEN LiveMenu ELSE InstallMenu]
  @@ (<<"tails", "primary">> :> [menus |-> Menu(<<LiveSpec(FALSE, "none"), LiveSpec(TRUE, "none")>>),
                                 legacy |-> <<>>])
  @@ (<<"kali-purple", "primary">> :>
        [menus |-> Menu(<<InstallerSpec("installer"), InstallerSpec("rescue"), PresetSpec(TRUE),
                          PresetSpec(FALSE)>>), legacy |-> <<>>])
MCLegacyTitle == [f \in Families |-> Title("Legacy", {})]

-----------------------------------------------------------------------------
(* Plans                                                                   *)

NoOver == [args |-> <<>>, kernel |-> <<>>, initrd |-> <<>>, title |-> NoTitle]
Plain(profile, role, m, layout) ==
  [id |-> m, profile |-> profile, role |-> role, medium |-> m, layout |-> layout, claimed |-> "",
   preseed |-> FALSE, label |-> m, persistence |-> FALSE, mode |-> "none", plabel |-> "",
   partlabel |-> "", toram |-> FALSE, over |-> NoOver]
Persistent(i, mode, label) ==
  [i EXCEPT !.persistence = TRUE, !.mode = mode, !.plabel = label, !.partlabel = label]

Debian(layout) == Plain("debian", "primary", "debianlive", layout)
Kali(layout) == Plain("kali-linux", "primary", IF layout = "raw-iso" THEN "kaliraw" ELSE "kalilive", layout)
Purple(layout) == Plain("kali-purple", "primary", "purple", layout)
TailsItem(layout) == Plain("tails", "primary", "tails", layout)
Syslinux(layout) == Plain("debian", "primary", "syslinux", layout)
Netinst(profile) == Plain(profile, "netinst", "netinst", "shared-data")
Netboot(profile) == Plain(profile, "netboot", "netboot", "shared-data")
OverArgs(i) == [i EXCEPT !.over.args = <<BootLive, Arg("findiso", <<"old.iso">>), Flag("persistence")>>]
OverKernel(i, path) == [i EXCEPT !.over.kernel = path, !.toram = TRUE]

\* The stick of the documentation's size is three items; larger sets repeat their kinds.
SharedSets ==
  {<<Debian("shared-data"), Netinst("debian"), Netboot("debian")>>,
   <<Kali("shared-data"), Purple("shared-data"), Netboot("kali-linux")>>,
   <<Netinst("kali-linux"), Persistent(Debian("shared-data"), "plain", "persistence"), TailsItem("shared-data")>>,
   <<OverArgs(Persistent(Debian("shared-data"), "encrypted", "mine")), Kali("shared-data")>>}
RawSets ==
  {<<Persistent(Debian("raw-iso"), "encrypted", "persistence"), Persistent(Kali("raw-iso"), "plain", "kali-persist")>>,
   <<Purple("raw-iso"), TailsItem("raw-iso")>>,
   <<OverKernel(Persistent(Syslinux("raw-iso"), "none", "mine"), Vmlinuz(<<"live">>)), Kali("raw-iso")>>,
   <<Persistent(Syslinux("raw-iso"), "encrypted", "mine"), [Kali("raw-iso") EXCEPT !.toram = TRUE]>>}
\* Refused at once, or when their media are read.
BadSets ==
  {<<>>, <<Netinst("kali-purple")>>, <<[Debian("raw-iso") EXCEPT !.medium = "netinst"]>>,
   <<Persistent(Debian("raw-iso"), "plain", "same"), Persistent(Kali("raw-iso"), "plain", "same")>>,
   <<Persistent(TailsItem("raw-iso"), "plain", "mine")>>, <<[Debian("raw-iso") EXCEPT !.preseed = TRUE]>>,
   <<Plain("debian", "primary", "bios", "raw-iso")>>, <<Plain("debian", "primary", "purple", "raw-iso")>>,
   <<Persistent(Kali("raw-iso"), "encrypted", "mine")>>,
   <<OverKernel(Kali("raw-iso"), <<"live", "absent">>)>>}

MCPlans == [items : SharedSets \union RawSets \union BadSets, custom : BOOLEAN, preserve : BOOLEAN]
=============================================================================
