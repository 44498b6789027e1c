------------------------------ MODULE BootMenu ------------------------------
(***************************************************************************)
(* The boot menu of a Multi-OS stick: a plan is accepted item by item, the *)
(* entries of each medium are read (BootParse), adapted to the payload     *)
(* (KernelArgs) and put into the menu; then the files the menu names are   *)
(* staged on the ESP and in the shared ISO store.                          *)
(*                                                                         *)
(* Source: multios.py and boot_render.py for the menu, write_usb.sh for    *)
(* the staging.  The ESP always holds the boot assets (every caller in     *)
(* write_usb.sh passes its UUID).  Two payload layouts: "raw-iso", each    *)
(* item an ISO on a partition of its own, and "shared-data", ISO files in  *)
(* one file system.                                                        *)
(***************************************************************************)
EXTENDS BootParse, KernelArgs, Integers, SequencesExt

CONSTANTS
  Plans,        \* the plans a writer may be given
  MediumInfo,   \* MediumInfo[medium]: what else the code looks for on it
  MenuSpec,     \* MenuSpec[<<profile, role>>]: the custom menus of configs/spec/grub
  LegacyTitle   \* LegacyTitle[family]: the submenu of the preserved entries

VARIABLES
  pc, plan,
  at,           \* index of the item at hand
  prep,         \* prep[k]: the prepared entries of item k
  shown,        \* the menu: entries of each top-level submenu
  offset,       \* the next order of each family
  rows,         \* files still to be staged
  patches,      \* staged initrds that are to be patched
  esp,          \* boot assets on the ESP, by path
  store         \* ISO files in the payload file systems

menuVars == <<prep, shown, offset, rows, patches>>
vars == <<parseVars, pc, plan, at, menuVars, esp, store>>

Families == {"debian", "kali", "tails"}
LiveProfiles == {"debian", "kali-linux", "tails"}
PersistenceProfiles == {"debian", "kali-linux"}
Family(profile) == CASE profile = "debian" -> "debian"
                     [] profile \in {"kali-linux", "kali-purple"} -> "kali"
                     [] profile = "tails" -> "tails"

Item == plan.items[at]
Uuid(i) == IF i.layout = "raw-iso" THEN i.id ELSE "data"
Mode(i) == IF ~i.persistence THEN "none" ELSE IF i.mode = "none" THEN "plain" ELSE i.mode
Overridden(i) == i.over.args # <<>> \/ i.over.kernel # <<>> \/ i.over.initrd # <<>> \/ i.over.title # NoTitle
The(S) == CHOOSE x \in S : TRUE

-----------------------------------------------------------------------------
(* Which plans are accepted (multios.py)                                   *)

RoleMediaRefused(profile, role, class) ==
  \/ role # "primary" /\ class \notin {"installer", "hybrid"}
  \/ role = "primary" /\ profile \in LiveProfiles /\ class \notin {"live", "hybrid"}
  \/ role = "primary" /\ profile = "kali-purple" /\ class # "installer"

PreseedEligible(i) ==
  \/ i.profile \in {"debian", "kali-linux"} /\ i.role \in {"netinst", "netboot"}
  \/ i.profile = "kali-purple" /\ i.role = "primary" /\ i.claimed = "installer"

ItemRefused(p, i) ==
  \/ i.role # "primary" /\ i.profile \notin {"debian", "kali-linux"}
  \/ i.role # "primary" <=> ~MediumInfo[i.medium].prepared
  \/ i.preseed /\ ~(p.custom /\ PreseedEligible(i))
  \/ i.claimed # "" /\ RoleMediaRefused(i.profile, i.role, i.claimed)
  \/ i.role # "primary" /\ (\/ i.layout # "shared-data" \/ i.persistence
                            \/ i.toram \/ Overridden(i))
  \/ i.profile = "tails" /\ (\/ i.persistence \/ i.over.args # <<>>
                             \/ i.over.kernel # <<>> \/ i.over.initrd # <<>>)
  \/ i.persistence /\ (i.profile \notin PersistenceProfiles \/ i.claimed = "installer")

FsLabels(i) == (IF i.layout = "raw-iso" THEN <<i.label>> ELSE <<>>)
                 \o (IF i.persistence THEN <<i.plabel>> ELSE <<>>)
PersistenceLabels(i) == IF i.persistence THEN {i.plabel, i.partlabel} ELSE {}

PlanRefused(p) ==
  LET labels == FlattenSeq([k \in DOMAIN p.items |-> FsLabels(p.items[k])])
  IN  \/ p.items = <<>>
      \/ \E k \in DOMAIN p.items : ItemRefused(p, p.items[k])
      \/ \E k, l \in DOMAIN p.items :
           LET i == p.items[k]
               j == p.items[l]
           IN  k # l /\ (\/ i.id = j.id \/ <<i.profile, i.role>> = <<j.profile, j.role>>
                         \/ PersistenceLabels(i) \intersect PersistenceLabels(j) # {})
      \/ ~IsInjective(labels)

-----------------------------------------------------------------------------
(* The entries of one item                                                 *)

Recognized(i, es) ==
  IF i.profile # "tails" THEN es
  ELSE {IF e.kind \in LiveKinds THEN [e EXCEPT !.kind = "live"] ELSE e : e \in es}

ForRole(i, es) ==
  LET live == {e \in es : e.kind \in LiveKinds \union {"verify"}}
  IN  IF i.role # "primary" THEN {e \in es : e.kind \in InstallerKinds}
      ELSE IF i.profile \in LiveProfiles /\ live # {} THEN live ELSE es

ModeKind == [plain |-> "live-persistence", encrypted |-> "live-encrypted-persistence"]
EncryptedLive(i) == i.profile \in PersistenceProfiles /\ MediumInfo[i.medium].cryptsetup

\* Broken variant: the entries of the other persistence modes stay.
KeptEvery(i, es) == es

\* Of the persistence entries only those of the plan's mode stay.
Kept(i, es) ==
  LET unwanted == {"live-persistence", "live-encrypted-persistence"}
                    \ (IF Mode(i) = "none" THEN {} ELSE {ModeKind[Mode(i)]})
  IN  {e \in es : e.kind \notin unwanted}

Label(i) == IF i.plabel = "" THEN Config.label[i.profile] ELSE i.plabel

InstallerArgs(i, e) ==
  LET args == IF e.kind # "rescue" THEN ApplyInstallerSettings(e.args, i.profile)
              ELSE RemoveSeedTransport(InstallerExtras(e.args))
  IN  IF i.layout = "raw-iso" THEN BindInstallerMedia(args, Uuid(i)) ELSE args

LiveArgs(i, e) == PreservedLiveSettings(e, i.profile, i.layout, i.toram, MediumInfo[i.medium].module)

Adapted(i, e) ==
  LET finalized(mode, args) == FinalizeKernelArgs(i.profile, args, Uuid(i), mode, Label(i))
      mode == IF e.kind = "live-persistence" THEN "plain"
              ELSE IF e.kind = "live-encrypted-persistence" THEN "encrypted" ELSE "none"
  IN  [e EXCEPT !.args = IF e.kind \in LiveKinds THEN finalized(mode, The(LiveArgs(i, e)))
                         ELSE IF e.kind = "verify" THEN finalized("none", @)
                         ELSE IF e.kind \in InstallerKinds THEN InstallerArgs(i, e) ELSE @]

\* The plan's overrides, and a persistence entry the medium does not have; "best" is
\* the medium's best Live entry, if any.
BestLive(kept) == SelectEntry({e \in kept : e.kind \in LiveKinds})
TakesLive(i, es) == i.profile \in LiveProfiles /\ MediaClass(es) \in {"live", "hybrid"}
Template(i, best) == IF best = {} THEN [BootEntry EXCEPT !.on = i.medium] ELSE The(best)
OverriddenEntry(i, t) ==
  [t EXCEPT !.title = IF i.over.title # NoTitle THEN i.over.title ELSE @,
            !.kernel = IF i.over.kernel # <<>> THEN i.over.kernel ELSE @,
            !.initrd = IF i.over.initrd # <<>> THEN i.over.initrd ELSE @]
SyntheticArgs(i, t) ==
  IF i.over.args # <<>> THEN {i.over.args}
  ELSE ApplyLiveSettings(IF t.args = <<>> THEN Config.liveFallback ELSE t.args,
                         i.profile, i.layout, i.toram, MediumInfo[i.medium].module)
Suffixed(title, mode) ==
  IF mode = "none" THEN title
  ELSE [text |-> Append(title.text, mode), words |-> title.words \union {"persistence"}]

Synthetic(i, t, mode, order) ==
  [BootEntry EXCEPT
     !.title = Suffixed(t.title, mode), !.kernel = t.kernel, !.initrd = t.initrd, !.on = i.medium,
     !.args = FinalizeKernelArgs(i.profile, The(SyntheticArgs(i, t)), Uuid(i), mode, Label(i)),
     !.kind = IF mode = "none" THEN "live" ELSE ModeKind[mode],
     !.menu = t.menu, !.order = order]

\* The persistence modes that get an entry of the writer's, and their place.
SyntheticModes(i, es, kept, best) ==
  LET first == Min({e.order : e \in kept})
      missing == {Mode(i)} \ ({"none"} \union {m \in {"plain", "encrypted"} :
                                              \E e \in kept : e.kind = ModeKind[m]})
  IN  IF ~TakesLive(i, es) THEN {}
      ELSE IF Overridden(i) THEN {<<"none", first - 20>>}
                                   \union {<<m, first - 19>> : m \in {Mode(i)} \ {"none"}}
      ELSE IF best = {} THEN {} ELSE {<<m, The(best).order + 1>> : m \in missing}

SyntheticEntries(i, t, modes) == {Synthetic(i, t, m[1], m[2]) : m \in modes}

SharedRoot(i, class) ==
  LET os == IF i.profile = "debian" THEN "debian" ELSE "kali"
      role == IF i.role = "netboot" THEN "netboot"
              ELSE IF i.role = "netinst" \/ class = "installer" THEN "netinst" ELSE "live"
  IN  CASE i.profile = "kali-purple" -> <<"kali-purple-installer">>
        [] i.profile = "tails" -> <<"tails-live">>
        [] OTHER -> <<os, role>>
IsoFile(i, class) == IF i.role = "netboot" THEN <<>> ELSE Append(SharedRoot(i, class), i.medium)

BootPair(role) == IF role = "netinst" THEN <<<<"hd-media", "vmlinuz">>, <<"hd-media", "initrd.gz">>>>
                  ELSE <<<<"netboot", "vmlinuz">>, <<"netboot", "initrd.gz">>>>

\* Where a shared payload's entry boots from.
Attached(i, e, class) ==
  LET isofile == IsoFile(i, class)
      loopback == /\ i.role = "primary" /\ class \in {"live", "hybrid"}
                  /\ e.kind \in LiveKinds \union {"verify"}
      method == IF loopback THEN "iso-loopback"
                ELSE IF i.role = "netinst" THEN "hd-media"
                ELSE IF i.role = "netboot" THEN "netboot"
                ELSE IF e.kind \in InstallerKinds /\ isofile # <<>> THEN "installer-iso" ELSE ""
  IN  IF i.layout # "shared-data" \/ e.kernel = <<>> THEN e
      ELSE [e EXCEPT !.isofile = isofile, !.method = method,
                     !.args = BindSharedDataPayload(@, e, isofile)]

\* In menu order; an entry the medium has comes before a synthetic one.
Ranked(pairs) ==
  [n \in 1..Cardinality(pairs) |->
     (CHOOSE p \in pairs : Cardinality({q \in pairs : q.key < p.key}) = n - 1).entry]
InMenuOrder(i, own, synthetic, class) ==
  LET keyed(e, late) == [key |-> 2 * e.order + late, entry |-> Attached(i, e, class)]
  IN  Ranked({keyed(Adapted(i, e), 0) : e \in own} \union {keyed(e, 1) : e \in synthetic})

PreparedFrom(i, es, kept, best) ==
  InMenuOrder(i, kept,
    SyntheticEntries(i, OverriddenEntry(i, Template(i, best)), SyntheticModes(i, es, kept, best)),
    MediaClass(es))
PreparedOf(i, es, kept) == PreparedFrom(i, es, kept, BestLive(kept))
Prepared(i, es) == PreparedOf(i, es, Kept(i, es))

\* What the renderer refuses once it has read the medium.
UnfitTemplate(i, t) ==
  \/ SyntheticArgs(i, t) = {} \/ t.kernel \notin MediumInfo[i.medium].members
  \/ t.initrd # <<>> /\ t.initrd \notin MediumInfo[i.medium].members
UnfitEntries(i, es, kept, best) ==
  \/ kept = {}
  \/ \E e \in kept : e.kind \in LiveKinds /\ LiveArgs(i, e) = {}
  \/ i.role # "primary" /\ \E e \in kept :
       e.kernel # <<>> /\ <<e.kernel, e.initrd>> # BootPair(i.role)
  \/ TakesLive(i, es) /\ Overridden(i) /\ best = {} /\ i.over.kernel = <<>>
  \/ SyntheticModes(i, es, kept, best) # {}
       /\ UnfitTemplate(i, OverriddenEntry(i, Template(i, best)))
UnfitOf(i, es, kept) == UnfitEntries(i, es, kept, BestLive(kept))

Unfit(i, all, es) ==
  \/ ~MediumInfo[i.medium].uefi \/ all = {}
  \/ RoleMediaRefused(i.profile, i.role, MediaClass(all))
  \/ i.persistence /\ MediaClass(all) \notin {"live", "hybrid"}
  \/ Mode(i) = "encrypted" /\ ~EncryptedLive(i)
  \/ UnfitOf(i, es, Kept(i, es))

BootsSecurely(e) == ~Contains(e.kernel, "memtest") /\ ~Contains(e.commands, "linux16")

-----------------------------------------------------------------------------
(* The custom menus: upstream entries re-issued as configs/spec/grub says  *)

Says(e, word) == word \in e.title.words \/ \E k \in DOMAIN e.menu : word \in e.menu[k].words

\* Preferred titles first, then text menus before graphical ones and plain before dark,
\* speech and accessible ones.
Rank(e, phrases) ==
  LET hits == {k \in DOMAIN phrases : phrases[k] \in e.title.words}
      points(p, word) == IF Says(e, word) THEN p ELSE 0
  IN  16 * (IF hits = {} THEN Len(phrases) ELSE Min(hits) - 1)
        + points(8, "graphical") + points(4, "dark") + points(2, "speech") + points(1, "accessible")

\* The first by rank, of those ranked alike the first in the menu; a Live entry is
\* taken by its place alone.
Preferred(es, kind, phrases) ==
  LET key(k) == <<IF kind = "live" THEN 0 ELSE Rank(es[k], phrases), k>>
      before(a, b) == a[1] < b[1] \/ (a[1] = b[1] /\ a[2] <= b[2])
      asked == {k \in DOMAIN es : es[k].kind = kind}
  IN  {es[k] : k \in {k \in asked : \A l \in asked : before(key(k), key(l))}}

BaseKind == [live |-> "live", installer |-> "installer", automated |-> "automated-installer",
             expert |-> "expert-installer", rescue |-> "rescue"]
BaseTitles(name, role) ==
  CASE name = "live" -> <<>>
    [] name = "installer" -> IF role = "primary" THEN <<"start installer", "install">>
                             ELSE <<"install", "start installer">>
    [] name = "automated" -> <<"automated install">>
    [] name = "expert" -> <<"expert install">>
    [] name = "rescue" -> <<"rescue mode">>
Base(es, name, role) == Preferred(es, BaseKind[name], BaseTitles(name, role))
EitherOf(S, T) == IF S # {} THEN S ELSE T
PreseedBase(es, role) ==
  EitherOf(Base(es, "expert", role), EitherOf(Base(es, "installer", role), Base(es, "automated", role)))

SeveralMerged(args, additions) == FoldLeft(MergeKernelArgs, args, additions)

\* Broken variant: the ISO the entry is looped back from is not bound again.
LiveVariantUnbound(i, e, spec) ==
  FinalizeKernelArgs(i.profile, The(PreservedLiveSettings(e, i.profile, i.layout, spec.toram,
                                                          "filesystem.squashfs")),
                     Uuid(i), spec.mode, Config.label[i.profile])

\* The settings of a Live menu entry: the spec's mode with the configured label.
LiveVariant(i, e, spec) ==
  BindIsoStorePayload(
    FinalizeKernelArgs(i.profile,
      The(PreservedLiveSettings(e, i.profile, i.layout, spec.toram, "filesystem.squashfs")),
      Uuid(i), spec.mode, Config.label[i.profile]),
    e, e.isofile)

SeedLocation(i, spec, network) ==
  IF network.url # <<>> THEN network.url
  ELSE IF spec.online THEN Config.preseedUrl[i.profile] ELSE Config.usbSeed[i.profile]

PresetArgs(i, e, spec, network, preset) ==
  LET merged == SeveralMerged(RemoveSeedTransport(e.args),
                  <<Config.common, Config.installerExtras, preset.args, network.args>>)
      transport == IF spec.online \/ network.url # <<>> THEN "url" ELSE "usb"
  IN  RemoveLiveOnly(ClassesLast(SetSeedTransport(merged, transport, SeedLocation(i, spec, network))))

\* Broken variant: the transport is chosen before the presets are merged.
FlavorArgsEarly(i, e, child, preset) ==
  SeveralMerged(SetSeedTransport(e.args, IF child.transport = "usb" THEN "usb" ELSE "url",
                                 child.location),
                <<Config.common, Config.installerExtras,
                  <<Arg("DUSB_PRESEED_MODE", <<child.transport>>)>>, preset.args, child.args>>)

\* The preseed transport comes last, and the device the installer looks for last of all.
FlavorArgs(i, e, child, preset) ==
  LET merged == RemoveSeedTransport(SeveralMerged(RemoveSeedTransport(e.args),
                  <<Config.common, Config.installerExtras, preset.args, child.args>>))
      moded == MergeKernelArgs(merged, <<Arg("DUSB_PRESEED_MODE", <<child.transport>>)>>)
      seeded == CASE child.transport \in {"http", "https"} -> SetSeedTransport(moded, "url", child.location)
                  [] child.transport = "usb" ->
                       MergeKernelArgs(SetSeedTransport(moded, "usb", child.location),
                                       <<Arg("DUSB_HD_MEDIA_UUID", <<Uuid(i)>>)>>)
                  [] child.transport = "initrd" -> moded
      placed == IF i.role = "netinst"
                THEN MergeKernelArgs(seeded, <<Arg("shared/ask_device", <<"manual">>),
                                               Arg("shared/enter_device", Device(Uuid(i)))>>)
                ELSE Without(seeded, {"shared/ask_device", "shared/enter_device",
                                      "iso-scan/filename", "INSTALL_MEDIA_DEV"}, {})
  IN  RemoveLiveOnly(ClassesLast(placed))

Flavored(e, flavor) ==
  LET dir == <<".debian-usb", "installer-profiles", flavor>>
  IN  [e EXCEPT !.kernel = Append(dir, "vmlinuz"), !.initrd = Append(dir, "initrd.gz")]

Reissued(e, title, menu, args) == [e EXCEPT !.title = title, !.menu = menu, !.args = args]

NotConfigured(e, menu) ==
  [e EXCEPT !.title = [text |-> <<"Not configured">>, words |-> {}], !.menu = menu, !.kind = "other",
            !.kernel = <<>>, !.initrd = <<>>, !.args = <<>>, !.commands = <<"echo">>]

FlavorEntries(i, e, spec, menu) ==
  LET one(child) ==
        LET here == menu \o <<spec.title, child.title>>
        IN  IF child.transport \in {"http", "https"} /\ child.location = <<>>
            THEN <<NotConfigured(Flavored(e, spec.flavor), here)>>
            ELSE [k \in DOMAIN child.presets |->
                    Reissued(Flavored(e, spec.flavor), child.presets[k].label, here,
                             FlavorArgs(i, e, child, child.presets[k]))]
  IN  FlattenSeq([c \in DOMAIN spec.children |-> one(spec.children[c])])

PresetEntries(i, e, spec, menu) ==
  LET one(network) ==
        IF SeedLocation(i, spec, network) = <<>> THEN <<>>
        ELSE [k \in DOMAIN spec.presets |->
                Reissued(e, spec.presets[k].label, menu \o <<spec.title, network.title>>,
                         PresetArgs(i, e, spec, network, spec.presets[k]))]
  IN  FlattenSeq([n \in DOMAIN spec.networks |-> one(spec.networks[n])])

Issued(i, e, spec, menu) ==
  CASE spec.type = "live" -> <<Reissued(e, spec.title, menu, LiveVariant(i, e, spec))>>
    [] spec.type = "installer" -> <<Reissued(e, spec.title, menu, ManualInstallerSettings(e.args))>>
    [] spec.type = "presets" -> PresetEntries(i, e, spec, menu)
    [] spec.type = "flavor" -> FlavorEntries(i, e, spec, menu)
IssuedFrom(i, base, spec, menu) == IF base = {} THEN <<>> ELSE Issued(i, The(base), spec, menu)

\* One entry of a menu specification; nothing when the medium has no entry to start from.
SpecEntries(i, es, spec, menu) ==
  IF spec.type = "live" /\ spec.mode = "encrypted" /\ ~EncryptedLive(i) THEN <<>>
  ELSE IssuedFrom(i, IF spec.type \in {"live", "installer"} THEN Base(es, spec.base, i.role)
                     ELSE PreseedBase(es, i.role), spec, menu)

\* Whose assets and which payload the entries are rendered with.
NamespaceOfProfile(i) == i.profile
Namespace(i) == i.id
Numbered(i, es, first) ==
  [k \in DOMAIN es |-> [es[k] EXCEPT !.order = first + k - 1, !.uuid = Uuid(i), !.ns = Namespace(i)]]

CustomEntries(i, es) ==
  LET spec == MenuSpec[<<i.profile, i.role>>]
      legacy == <<LegacyTitle[Family(i.profile)]>>
      menus == FlattenSeq([m \in DOMAIN spec.menus |-> FlattenSeq(
                 [k \in DOMAIN spec.menus[m].entries |->
                    SpecEntries(i, es, spec.menus[m].entries[k], <<spec.menus[m].title>>)])])
  IN  menus \o FlattenSeq([k \in DOMAIN spec.legacy |-> SpecEntries(i, es, spec.legacy[k], legacy)])

\* The medium's own entries, below the family's legacy submenu.
PreservedEntries(i, es) ==
  LET stays(e) == e.kind # "firmware"
      kept == IF i.role = "primary" THEN SelectSeq(es, stays) ELSE <<>>
  IN  [k \in DOMAIN kept |-> [kept[k] EXCEPT !.menu = <<LegacyTitle[Family(i.profile)]>> \o @]]

Legacy(e, family) == e.menu # <<>> /\ e.menu[1] = LegacyTitle[family]
ByOrder(es) == SortSeq(es, LAMBDA d, e : d.order < e.order)

\* The legacy submenu goes to the end of its family's menu.
LegacyLast(es, family) ==
  LET isLegacy(e) == Legacy(e, family)
      isOwn(e) == ~Legacy(e, family)
      legacy == ByOrder(SelectSeq(es, isLegacy))
      own == SelectSeq(es, isOwn)
      last == Max({own[k].order : k \in DOMAIN own})
  IN  IF legacy = <<>> \/ own = <<>> THEN es
      ELSE own \o [k \in DOMAIN legacy |-> [legacy[k] EXCEPT !.order = last + 9 + k]]

-----------------------------------------------------------------------------
(* What is to be staged                                                    *)

UsesLoopback(e) == e.method = "iso-loopback" /\ e.isofile # <<>>
AssetPath(ns, member) == <<"EFI", "debian-usb", "assets", ns>> \o member
Row(i, member) == [medium |-> i.medium, member |-> member, asset |-> AssetPath(Namespace(i), member)]

\* One row for each file the entries of one call name, in their order.
Rows(i, members) ==
  LET add(chosen, m) == IF m = <<>> \/ Contains(chosen, Row(i, m)) THEN chosen
                        ELSE Append(chosen, Row(i, m))
  IN  FoldLeft(add, <<>>, members)

KernelRows(i, es) == Rows(i, [k \in DOMAIN es |-> IF UsesLoopback(es[k]) THEN <<>> ELSE es[k].kernel])
InitrdRows(i, es) == Rows(i, [k \in DOMAIN es |-> IF UsesLoopback(es[k]) THEN <<>> ELSE es[k].initrd])
IsoRows(i, class) == IF i.layout = "shared-data" /\ i.role # "netboot"
                     THEN <<[medium |-> i.medium, path |-> IsoFile(i, class)]>> ELSE <<>>

PatchAssets(i, es) ==
  {AssetPath(Namespace(i), es[k].initrd) : k \in {k \in DOMAIN es :
     /\ es[k].kind \in InstallerKinds /\ es[k].initrd # <<>>
     /\ "INSTALL_MEDIA_DEV" \in ArgNames(es[k].args)}}

NoRows == [kernels |-> <<>>, initrds |-> <<>>, isos |-> <<>>]
Collect(i, es, isos) ==
  /\ rows' = [kernels |-> rows.kernels \o KernelRows(i, es),
              initrds |-> rows.initrds \o InitrdRows(i, es), isos |-> rows.isos \o isos]
  /\ patches' = patches \union PatchAssets(i, es)

-----------------------------------------------------------------------------
(* Rendering                                                               *)

Groups(p) == IF p.custom THEN {Family(p.items[k].profile) : k \in DOMAIN p.items}
             ELSE {p.items[k].id : k \in DOMAIN p.items}

Init ==
  /\ plan \in Plans /\ pc = "plan" /\ at = 0
  /\ medium = "" /\ todo = <<>> /\ frames = <<>> /\ visited = {} /\ counter = 0
  /\ found = {} /\ others = {}
  /\ prep = <<>> /\ rows = NoRows /\ patches = {} /\ shown = [g \in {} |-> <<>>]
  /\ offset = [f \in Families |-> 0]
  /\ esp = [a \in {} |-> 0] /\ store = [a \in {} |-> ""]

AcceptPlan ==
  /\ pc = "plan" /\ ~PlanRefused(plan)
  /\ pc' = "read" /\ at' = 1 /\ StartParse(plan.items[1].medium)
  /\ shown' = [g \in Groups(plan) |-> <<>>]
  /\ UNCHANGED <<plan, prep, offset, rows, patches, esp, store>>

RefusePlan ==
  /\ pc = "plan" /\ PlanRefused(plan)
  /\ pc' = "refused"
  /\ UNCHANGED <<parseVars, plan, at, menuVars, esp, store>>

ReadStep ==
  /\ pc = "read" /\ ParseStep
  /\ UNCHANGED <<pc, plan, at, menuVars, esp, store>>

\* The entries of the medium, and those of them that are the item's.
Entries == Recognized(Item, FindBootEntries)
ItemEntries == ForRole(Item, Entries)

RefuseItem ==
  /\ pc = "read" /\ ParseDone /\ Unfit(Item, Entries, ItemEntries)
  /\ pc' = "refused"
  /\ UNCHANGED <<parseVars, plan, at, menuVars, esp, store>>

Continue ==
  IF at < Len(plan.items)
  THEN /\ at' = at + 1 /\ StartParse(plan.items[at + 1].medium)
       /\ UNCHANGED pc
  ELSE /\ pc' = IF plan.custom /\ plan.preserve THEN "preserve" ELSE "finish"
       /\ at' = 1 /\ UNCHANGED parseVars

\* Broken variant: the next item of the family starts where this one did.
SameOffset(f, es) == offset[f]

\* Where the next item of the family starts.
NextOffset(f, es) == offset[f] + (IF es = <<>> THEN 1 ELSE Len(es)) + 10

\* The entries an item adds to the menu, and the files they need.
Enter(group, usable, es, class) ==
  /\ prep' = Append(prep, usable)
  /\ shown' = [shown EXCEPT ![group] = @ \o es]
  /\ offset' = IF plan.custom THEN [offset EXCEPT ![group] = NextOffset(group, es)] ELSE offset
  /\ Collect(Item, es, IsoRows(Item, class))

EnterCustom(family, usable) ==
  Enter(family, usable, Numbered(Item, CustomEntries(Item, usable), offset[family]), MediaClass(ItemEntries))
EnterPlain(usable) ==
  LET own(e) == [e EXCEPT !.uuid = Uuid(Item), !.ns = Namespace(Item)]
  IN  Enter(Item.id, usable, [k \in DOMAIN usable |-> own(usable[k])], MediaClass(ItemEntries))

AddItem ==
  /\ pc = "read" /\ ParseDone /\ ~Unfit(Item, Entries, ItemEntries)
  /\ LET usable == SelectSeq(Prepared(Item, ItemEntries), BootsSecurely)
     IN  IF plan.custom THEN EnterCustom(Family(Item.profile), usable) ELSE EnterPlain(usable)
  /\ Continue
  /\ UNCHANGED <<plan, esp, store>>

PreserveItem ==
  /\ pc = "preserve"
  /\ LET f == Family(Item.profile)
         es == Numbered(Item, PreservedEntries(Item, prep[at]), offset[f])
     IN  /\ shown' = [shown EXCEPT ![f] = @ \o es]
         /\ offset' = [offset EXCEPT ![f] = IF es = <<>> THEN @ ELSE @ + Len(es) - 1 + 10]
         /\ Collect(Item, es, <<>>)
  /\ IF at < Len(plan.items) THEN at' = at + 1 /\ UNCHANGED pc ELSE pc' = "finish" /\ UNCHANGED at
  /\ UNCHANGED <<parseVars, plan, prep, esp, store>>

FinishMenu ==
  /\ pc = "finish" /\ pc' = "stage"
  /\ shown' = IF plan.custom THEN [f \in DOMAIN shown |-> LegacyLast(shown[f], f)] ELSE shown
  /\ UNCHANGED <<parseVars, plan, at, prep, offset, rows, patches, esp, store>>

-----------------------------------------------------------------------------
(* Staging (write_usb.sh): kernels, initrds, then the shared ISO store     *)

Extractable(row) == row.member \in MediumInfo[row.medium].members
Put(f, key, v) == [x \in DOMAIN f \union {key} |-> IF x = key THEN v ELSE f[x]]
Staged(row, patched) ==
  esp' = Put(esp, row.asset, [medium |-> row.medium, member |-> row.member, patched |-> patched])

StageKernel ==
  /\ pc = "stage" /\ rows.kernels # <<>> /\ Extractable(Head(rows.kernels))
  /\ Staged(Head(rows.kernels), FALSE)
  /\ rows' = [rows EXCEPT !.kernels = Tail(@)]
  /\ UNCHANGED <<parseVars, pc, plan, at, prep, shown, offset, patches, store>>

\* An initrd on the patch list is patched once, after it is extracted.
StageInitrd ==
  /\ pc = "stage" /\ rows.kernels = <<>> /\ rows.initrds # <<>>
  /\ LET row == Head(rows.initrds)
     IN  /\ Extractable(row)
         /\ Staged(row, row.asset \in patches)
         /\ patches' = patches \ {row.asset}
  /\ rows' = [rows EXCEPT !.initrds = Tail(@)]
  /\ UNCHANGED <<parseVars, pc, plan, at, prep, shown, offset, store>>

AssetsStaged == rows.kernels = <<>> /\ rows.initrds = <<>> /\ patches = {}

StageIso ==
  /\ pc = "stage" /\ AssetsStaged /\ rows.isos # <<>>
  /\ store' = Put(store, <<"data", Head(rows.isos).path>>, Head(rows.isos).medium)
  /\ rows' = [rows EXCEPT !.isos = Tail(@)]
  /\ UNCHANGED <<parseVars, pc, plan, at, prep, shown, offset, patches, esp>>

FinishStaging ==
  /\ pc = "stage" /\ AssetsStaged /\ rows.isos = <<>>
  /\ pc' = "done"
  /\ UNCHANGED <<parseVars, plan, at, menuVars, esp, store>>

\* Extracting, patching, signing or copying fails, or an initrd to patch was not staged.
StagingFails ==
  /\ pc = "stage" /\ pc' = "failed"
  /\ UNCHANGED <<parseVars, plan, at, menuVars, esp, store>>

\* Nothing is left to do.
Over == pc \in {"refused", "failed", "done"} /\ UNCHANGED vars

Next ==
  \/ AcceptPlan \/ RefusePlan
  \/ ReadStep \/ RefuseItem \/ AddItem
  \/ PreserveItem \/ FinishMenu
  \/ StageKernel \/ StageInitrd \/ StageIso \/ FinishStaging \/ StagingFails
  \/ Over

Spec == Init /\ [][Next]_vars

-----------------------------------------------------------------------------
(* Properties                                                              *)

Done == pc = "done"
Shown == UNION {ToSet(shown[g]) : g \in DOMAIN shown}
OwnerOf(e) == The({plan.items[k] : k \in {k \in DOMAIN plan.items : plan.items[k].medium = e.on}})
ArgsOf(e, keys) == LET isOne(a) == a.k \in keys IN SelectSeq(e.args, isOne)

\* Whatever an entry boots is on the stick when the writer is done, and is its own
\* medium's: a looped ISO in the shared store, kernel and initrd at the asset path of
\* its item, and an initrd that is given its installation medium has the patch that
\* makes it look there (a menu that also preserves Kali Purple's own entries stages
\* the initrd twice and is left out of that last part).
EntriesBootStagedFiles ==
  Done => \A e \in Shown :
    LET asset(member) == AssetPath(e.ns, member)
        staged(member) == /\ asset(member) \in DOMAIN esp
                          /\ esp[asset(member)].medium = e.on
                          /\ esp[asset(member)].member = member
        stored == /\ <<e.uuid, e.isofile>> \in DOMAIN store
                  /\ store[<<e.uuid, e.isofile>>] = e.on
    IN  e.kernel # <<>> =>
          /\ e.isofile # <<>> => stored
          /\ UsesLoopback(e) \/ (staged(e.kernel) /\ (e.initrd = <<>> \/ staged(e.initrd)))
          /\ (e.kind \in InstallerKinds /\ "INSTALL_MEDIA_DEV" \in ArgNames(e.args)
                /\ e.initrd # <<>> /\ ~(plan.custom /\ plan.preserve))
                => esp[asset(e.initrd)].patched

\* A Live or installer entry has exactly one locator of its medium, whatever its
\* title's source wrote there, and it is its own item's; a netboot entry has none.
\* It has at most one source of a preseed file, the one the transport named on the
\* line asks for.  Entries of kind "verify" are outside: the renderer takes every
\* locator from them and gives none (boot_render.py:689).
Locator(i, e) ==
  CASE i.layout = "raw-iso" /\ e.kind \in LiveKinds -> <<Arg("live-media", Device(i.id))>>
    [] i.layout = "raw-iso" /\ e.kind \in InstallerKinds -> <<Arg("INSTALL_MEDIA_DEV", Device(i.id))>>
    [] i.layout = "shared-data" /\ e.kind \in LiveKinds -> <<Arg("findiso", e.isofile)>>
    [] i.layout = "shared-data" /\ e.kind \in InstallerKinds ->
         IF i.role = "netboot" THEN <<>> ELSE <<Arg("iso-scan/filename", e.isofile)>>
OneSourceEach ==
  Done => \A e \in Shown :
    LET i == OwnerOf(e)
        seeds == ArgsOf(e, SeedKeys)
        asked == ArgsOf(e, {"DUSB_PRESEED_MODE"})
        wanted == CASE asked[1].v[1] = "initrd" -> {}
                    [] asked[1].v[1] = "usb" -> {"file"}
                    [] OTHER -> {"url"}
    IN  e.kind \in LiveKinds \union InstallerKinds =>
          /\ ArgsOf(e, LocatorKeys) = Locator(i, e)
          /\ Len(seeds) <= 1
          /\ asked # <<>> => {seeds[k].k : k \in DOMAIN seeds} = wanted

\* A persistence label is never another OS's.  An entry the medium or the plan
\* brings carries the plan's label of its item; the Live variants of a custom menu
\* are given the configuration's for the profile instead (boot_render.py:2497), so
\* for a plan with a label of its own they look for a partition that is not there.
\* A plain menu offers persistence only where the plan has it, in its mode, and an
\* entry of Tails never does.
PersistencePlaces ==
  Done => \A e \in Shown :
    LET i == OwnerOf(e)
        labels == ArgsOf(e, {"persistence-label"})
        wants == \E k \in DOMAIN e.args : IsFlag(e.args[k], {"persistence"})
        encrypted == HasArg(e.args, "persistence-encryption", "luks")
        given == IF plan.custom /\ e.kind = "live" THEN Config.label[i.profile] ELSE Label(i)
    IN  e.kind \in LiveKinds =>
          /\ wants <=> labels # <<>>
          /\ wants => i.profile # "tails" /\ Len(labels) = 1 /\ labels[1].v[1] = given
          /\ ~plan.custom =>
               /\ wants => i.persistence /\ (encrypted <=> Mode(i) = "encrypted")
               /\ wants <=> e.kind \in {"live-persistence", "live-encrypted-persistence"}

\* In a custom menu no two entries of a family have the same order, the legacy submenu
\* comes last, and when the plan preserves the media's own entries each bootable one of
\* a primary medium is there, as often as it was prepared and booting as it was.
MenuKeepsEveryEntry ==
  Done /\ plan.custom => \A f \in DOMAIN shown :
    LET es == shown[f]
        same(d, e) == <<d.on, d.title, d.kernel, d.initrd, d.args, d.isofile, d.method, d.commands>>
                        = <<e.on, e.title, e.kernel, e.initrd, e.args, e.isofile, e.method, e.commands>>
    IN  /\ \A k, l \in DOMAIN es : k # l => es[k].order # es[l].order
        /\ \A k, l \in DOMAIN es :
             Legacy(es[k], f) /\ ~Legacy(es[l], f) => es[l].order < es[k].order
        /\ plan.preserve => \A k \in DOMAIN prep :
             LET i == plan.items[k]
             IN  Family(i.profile) = f /\ i.role = "primary" =>
                   \A n \in DOMAIN prep[k] : prep[k][n].kind # "firmware" =>
                     Cardinality({l \in DOMAIN es : /\ Legacy(es[l], f) /\ same(prep[k][n], es[l])
                                                    /\ Tail(es[l].menu) = prep[k][n].menu})
                       = Cardinality({l \in DOMAIN prep[k] : same(prep[k][n], prep[k][l])
                                                             /\ prep[k][l].menu = prep[k][n].menu})

=============================================================================
