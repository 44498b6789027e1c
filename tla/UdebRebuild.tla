----------------------------- MODULE UdebRebuild -----------------------------
(***************************************************************************)
(* Rebuilding installer packages from Debian sources (build_iso.py): the   *)
(* checkout apt unpacks, the packaging and kernel files the builder writes *)
(* into it, and the udebs dpkg-buildpackage leaves beside it.              *)
(*                                                                         *)
(* A checkout is [version, upstream, lists, conf, control, support,        *)
(* rules]: its version and the part of it that names the directory, module *)
(* lists by path, kernel config fragments by name, the paragraphs of       *)
(* debian/control, the packages with maintainer files, and debian/rules.   *)
(***************************************************************************)
EXTENDS Integers, Sequences, FiniteSets, SequencesExt

CONSTANTS
    Upstream,   \* [source, version] -> the checkout apt unpacks
    Overlays    \* overlay name -> the files it copies over a checkout: [lists, conf,
                \* support], and control or rules where it brings that file

IsFunction(f) == f = [x \in DOMAIN f |-> f[x]]
IsSequence(s) == s \in Seq(ToSet(s))

ASSUME UpstreamAssumption ==
    \A key \in DOMAIN Upstream :
        /\ {"version", "upstream", "lists", "conf", "control"} \subseteq DOMAIN Upstream[key]
        /\ Upstream[key].version = key[2]
        /\ IsFunction(Upstream[key].lists)
        /\ IsFunction(Upstream[key].conf) /\ \A f \in DOMAIN Upstream[key].conf : IsSequence(Upstream[key].conf[f])

ASSUME OverlaysAssumption ==
    \A o \in DOMAIN Overlays : \A f \in DOMAIN Overlays[o].conf : IsSequence(Overlays[o].conf[f])

\* A config line: a symbol with a value, or one that sets no symbol.
Line(symbol, value) == [symbol |-> symbol, value |-> value]
Blank == Line("none", "")

(***************************************************************************)
(* Kernel configuration.  The first line of a symbol takes the value, any  *)
(* other line of it goes, and a symbol without a line is appended.         *)
(***************************************************************************)
Occurs(lines, symbol) == {i \in DOMAIN lines : lines[i].symbol = symbol}

\* One line more of a rewrite of them all.
Rewritten(lines, entry, out, i) ==
    LET at == Occurs(lines, entry.symbol)
        first == CHOOSE j \in at : \A k \in at : j <= k
    IN IF i \notin at THEN Append(out, lines[i])
       ELSE IF i = first THEN Append(out, entry)
       ELSE out

Rewrite(lines, entry) ==
    LET spaced == IF lines # <<>> /\ lines[Len(lines)] # Blank THEN Append(lines, Blank) ELSE lines
    IN IF Occurs(lines, entry.symbol) = {} THEN Append(spaced, entry)
       ELSE FoldLeftDomain(LAMBDA out, i : Rewritten(lines, entry, out, i), <<>>, lines)

\* A later entry of one symbol replaces an earlier one, as in a dict.
Entered(entries, out, i) ==
    IF \E j \in DOMAIN entries : j > i /\ entries[j].symbol = entries[i].symbol THEN out
    ELSE Append(out, entries[i])

EntryMap(entries) == FoldLeftDomain(LAMBDA out, i : Entered(entries, out, i), <<>>, entries)

\* The generic fragment and the architecture's; without a match of the
\* architecture the generic one alone, without that every fragment.
Fragments(all, byArch) ==
    LET arch == all \cap {"arch"}
        generic == all \cap {"generic"}
    IN IF byArch /\ arch # {} THEN generic \cup arch
       ELSE IF generic # {} THEN generic ELSE all

Configured(checkout, rebuild) ==
    IF rebuild.config = <<>> THEN checkout
    ELSE [checkout EXCEPT !.conf =
            [f \in DOMAIN @ |-> IF f \in Fragments(DOMAIN checkout.conf, rebuild.arch)
                                THEN FoldLeft(Rewrite, @[f], EntryMap(rebuild.config)) ELSE @[f]]]

(***************************************************************************)
(* Module lists: "append" adds what is missing, "replace" starts afresh.   *)
(***************************************************************************)
At(f, x) == IF x \in DOMAIN f THEN f[x] ELSE {}

Target(lists, target) ==
    [p \in DOMAIN lists \cup {target.path} |->
        IF p # target.path THEN lists[p]
        ELSE IF target.strategy = "replace" THEN target.modules
        ELSE At(lists, p) \cup target.modules]

\* The files of f, where it has them, over those of g.
Over(f, g) == [p \in DOMAIN f \cup DOMAIN g |-> IF p \in DOMAIN f THEN f[p] ELSE g[p]]

Brought(overlay, file, own) == IF file \in DOMAIN Overlays[overlay] THEN Overlays[overlay][file] ELSE own

\* The overlay's whole tree is copied over the checkout.
Overlaid(checkout, overlay) ==
    IF overlay = "none" THEN checkout
    ELSE [checkout EXCEPT !.lists = Over(Overlays[overlay].lists, @),
                          !.conf = Over(Overlays[overlay].conf, @),
                          !.support = @ \cup Overlays[overlay].support,
                          !.control = Brought(overlay, "control", @),
                          !.rules = Brought(overlay, "rules", @)]

KernelPrepared(checkout, rebuild) ==
    LET tree == Overlaid(checkout, rebuild.overlay)
    IN Configured([tree EXCEPT !.lists = FoldLeft(Target, @, rebuild.targets)], rebuild)

(***************************************************************************)
(* Packaging: the udeb's paragraph starts as a copy of the binary's; its   *)
(* maintainer files are copied where it has none; a library needs a rule   *)
(* that names it, which cannot be added beside an override of its own.     *)
(***************************************************************************)
PackagingRefused(checkout, rebuild) ==
    \/ rebuild.binary \notin DOMAIN checkout.control
    \/ /\ rebuild.role = "library"
       /\ rebuild.udeb \notin checkout.rules /\ "override" \in checkout.rules

Paragraph(checkout, rebuild) ==
    LET base == IF rebuild.udeb \in DOMAIN checkout.control THEN rebuild.udeb ELSE rebuild.binary
        menu == IF rebuild.role = "main-menu" THEN {"menu"} ELSE {}
    IN [type |-> "udeb", fields |-> (checkout.control[base].fields \ {"menu", "multiarch"}) \cup menu]

Packaged(checkout, rebuild) ==
    [checkout EXCEPT
       !.control = [x \in DOMAIN @ \cup {rebuild.udeb} |->
                      IF x = rebuild.udeb THEN Paragraph(checkout, rebuild) ELSE @[x]],
       !.support = IF rebuild.binary \in @ THEN @ \cup {rebuild.udeb} ELSE @,
       !.rules = IF rebuild.role # "library" \/ rebuild.udeb \in @ THEN @
                 ELSE @ \cup {"override", rebuild.udeb}]

(***************************************************************************)
(* One rebuild.  The room is named for the source and the udeb, so a       *)
(* second rebuild of the pair, or of a kernel source, finds what the first *)
(* one left.  apt unpacks into a directory named for the source and the    *)
(* upstream version; where there is one it unpacks nothing, whatever the   *)
(* Debian revision, and the checkout used last is taken, as it stands.     *)
(***************************************************************************)
Room(rebuild) ==
    IF rebuild.kind = "linux" THEN <<rebuild.source, "kernel-installer">>
    ELSE <<rebuild.source, rebuild.udeb>>

Unpacked(rebuild) == Upstream[<<rebuild.source, rebuild.version>>]

\* rooms: room -> its checkouts, and the one used last.
Checkouts(rooms, rebuild) == IF Room(rebuild) \in DOMAIN rooms THEN rooms[Room(rebuild)].all ELSE {}

\* Broken variant: each rebuild starts from the sources again.
FreshCheckout(rooms, rebuild) == Unpacked(rebuild)

Checkout(rooms, rebuild) ==
    IF \E there \in Checkouts(rooms, rebuild) : there.upstream = Unpacked(rebuild).upstream
    THEN rooms[Room(rebuild)].last
    ELSE Unpacked(rebuild)

Prepared(rooms, rebuild) ==
    LET checkout == Checkout(rooms, rebuild)
    IN IF rebuild.kind = "linux" THEN KernelPrepared(checkout, rebuild)
       ELSE Packaged(Overlaid(checkout, rebuild.overlay), rebuild)

RebuildRefused(rooms, rebuild) ==
    rebuild.kind = "source" /\ PackagingRefused(Overlaid(Checkout(rooms, rebuild), rebuild.overlay), rebuild)

\* The rooms after the rebuild.
Used(rooms, rebuild) ==
    LET tree == Prepared(rooms, rebuild)
        others == {c \in Checkouts(rooms, rebuild) : c.upstream # tree.upstream}
    IN [r \in DOMAIN rooms \cup {Room(rebuild)} |->
          IF r = Room(rebuild) THEN [all |-> others \cup {tree}, last |-> tree] ELSE rooms[r]]

\* The udebs dpkg-buildpackage leaves beside a checkout, named for package
\* and version: [file |-> what it was built from].  Those of a kernel go by
\* the name of its source.
Built(tree, rebuild) ==
    LET names == IF rebuild.kind = "linux" THEN {rebuild.source}
                 ELSE {x \in DOMAIN tree.control : tree.control[x].type = "udeb"}
    IN [file \in {<<x, tree.version>> : x \in names} |-> [made |-> "rebuilt", lists |-> tree.lists, conf |-> tree.conf]]

\* Of a kernel every udeb beside the checkout is staged, of a source its own;
\* an earlier file of the same name is overwritten.
Staged(staged, tree, rebuild) ==
    LET built == Built(tree, rebuild)
        taken == {file \in DOMAIN built : rebuild.kind = "linux" \/ file[1] = rebuild.udeb}
    IN [file \in DOMAIN staged \cup taken |-> IF file \in taken THEN built[file] ELSE staged[file]]

Listed(rebuild) == IF rebuild.kind = "linux" THEN rebuild.list ELSE {rebuild.udeb}
==============================================================================
