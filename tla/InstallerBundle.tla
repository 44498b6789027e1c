--------------------------- MODULE InstallerBundle ---------------------------
(***************************************************************************)
(* A managed installer source (installer_sources.py, installer_profiles.py *)
(* and cli.py): the directory with the kernel, the initrd, the payload ISO *)
(* and the Desktop and Server copies that a netinst or netboot plan is     *)
(* written from.  prepare_managed_installer_source builds it from three    *)
(* downloaded files; ensure-installer-profiles and                         *)
(* prepare-installer-profiles add or replace the copies later.  Any run    *)
(* may fail or be killed at any step, and the downloads may be replaced    *)
(* under it.                                                               *)
(***************************************************************************)
EXTENDS Naturals, Sequences

CONSTANTS Inputs,      \* the downloads a history may start with
          Requests,    \* the runs that may be asked for
          MaxRuns,     \* bound on runs
          MaxChanges   \* bound on replaced downloads

VARIABLES role,        \* "netinst" or "netboot"
          input,       \* the downloaded kernel, initrd and ISO
          moved,       \* a download was replaced since the alignment check
          bundle,      \* the bundle directory
          request,     \* what the current run was asked for
          pc,          \* position of the current run
          tree,        \* the extracted initrd of the session, changed or not
          staged,      \* flavors built so far in .profile-build-*
          backup,      \* profiles moved aside between the two renames
          runs, changes

vars == <<role, input, moved, bundle, request, pc, tree, staged, backup, runs, changes>>
history == <<role, request, runs>>
downloads == <<input, moved, changes>>
work == <<tree, staged, backup>>

Flavors == {"desktop", "server"}
Order == <<"desktop", "server">>
\* What an initrd may carry besides its stock content.
Marks == {"preseed", "modules", "iso_scan", "dispatch", "desktop_overlay", "server_overlay"}
Overlay(f) == IF f = "desktop" THEN "desktop_overlay" ELSE "server_overlay"

\* version 0: no kernel version can be read from the file.
Versions == 0 .. 2
Archive == [version : Versions, has : SUBSET Marks]
Iso == [kernel : Versions, initrd : Versions]   \* its own installer's files
Input == [kernel : Versions, initrd : Archive, iso : Iso]
Assets == [kernel : Versions, initrd : Archive]

\* modules: the strategy, when modules are selected (Debian netinst only).
\* overlay: the flavors the selected overlay directory has content for.
Request == [kind : {"prepare", "ensure", "profiles"}, modules : {"none", "host", "udeb"},
            overlay : SUBSET Flavors, preseed : BOOLEAN]

ASSUME RequestsAssumption == Requests \subseteq Request /\ Inputs \subseteq Input
\* No mirror's initrd carries what only a flavor adds.
ASSUME StockAssumption ==
  \A i \in Inputs : i.initrd.has \cap {"dispatch", "desktop_overlay", "server_overlay"} = {}
ASSUME BoundsAssumption == MaxRuns \in Nat /\ MaxChanges \in Nat

\* Each part is a sequence of at most one value.
Bundle ==
  [kernel : Seq(Versions), initrd : Seq(Archive), payload : Seq(Iso),
   profiles : Seq([Flavors -> Assets]), manifest : {"none", "torn", "whole"},
   owner : {"user", "root"}]
Empty == [kernel |-> << >>, initrd |-> << >>, payload |-> << >>, profiles |-> << >>,
          manifest |-> "none", owner |-> "user"]
NoTree == [has |-> << >>, changed |-> FALSE]

Init ==
  /\ role \in {"netinst", "netboot"}
  /\ input \in Inputs /\ moved = FALSE
  /\ bundle = Empty
  /\ request \in Requests /\ pc = "idle"
  /\ tree = NoTree /\ staged = << >> /\ backup = << >>
  /\ runs = 0 /\ changes = 0

Goto(label) == pc' = label
Disagree(v, w) == v # 0 /\ w # 0 /\ v # w

-----------------------------------------------------------------------------
(* Runs and the world around them.                                         *)

Ends == {"idle", "done", "failed", "killed"}

Begin ==
  /\ pc \in Ends /\ runs < MaxRuns
  /\ request' \in {r \in Requests : r.modules = "none" \/ role = "netinst"}
  /\ runs' = runs + 1
  /\ tree' = NoTree /\ staged' = << >> /\ backup' = << >>
  /\ Goto(IF request'.kind = "prepare" THEN "preflight" ELSE "look")
  /\ UNCHANGED <<role, downloads, bundle>>

\* A refreshed download, or another file put in its place.
ReplaceInput ==
  /\ changes < MaxChanges
  /\ changes' = changes + 1
  /\ \E v, w \in {1, 2} :
       \/ input' = [input EXCEPT !.kernel = v]
       \/ input' = [input EXCEPT !.initrd.version = v]
       \/ input' = [input EXCEPT !.iso = [kernel |-> v, initrd |-> w]]
  /\ moved' = (moved \/ pc \notin Ends)
  /\ UNCHANGED <<history, bundle, pc, work>>

\* Any step may raise before its effect: the session discards its tree, the
\* temporary directory goes, and profiles moved aside come back.
Fails ==
  /\ pc \notin Ends
  /\ bundle' = IF backup = << >> THEN bundle ELSE [bundle EXCEPT !.profiles = backup]
  /\ tree' = NoTree /\ staged' = << >> /\ backup' = << >>
  /\ Goto("failed")
  /\ UNCHANGED <<history, downloads>>

Kill ==
  /\ pc \notin Ends
  /\ Goto("killed")
  /\ UNCHANGED <<history, downloads, bundle, work>>

-----------------------------------------------------------------------------
(* prepare_managed_installer_source.                                       *)

\* A version that cannot be read is not compared, an ISO without the members
\* not at all.
Aligned ==
  /\ ~Disagree(input.kernel, input.iso.kernel)
  /\ ~Disagree(input.initrd.version, input.iso.initrd)

\* The unprivileged first call of PrepareManagedInstallerSource.
Preflight ==
  /\ pc = "preflight"
  /\ role = "netinst" => Aligned
  /\ Goto("clear_assets")
  /\ UNCHANGED <<history, downloads, bundle, work>>

\* Stale paths go in the order of the list: assets, payload, manifest, profiles.
ClearAssets ==
  /\ pc = "clear_assets"
  /\ bundle' = [bundle EXCEPT !.kernel = << >>, !.initrd = << >>, !.owner = "root"]
  /\ Goto("clear_payload")
  /\ UNCHANGED <<history, downloads, work>>

ClearPayload ==
  /\ pc = "clear_payload"
  /\ bundle' = [bundle EXCEPT !.payload = << >>]
  /\ Goto("clear_manifest")
  /\ UNCHANGED <<history, downloads, work>>

\* Broken variant: only what the run is about to write is cleared.
ClearManifestNot ==
  /\ pc = "clear_manifest"
  /\ Goto("align")
  /\ UNCHANGED <<history, downloads, bundle, work>>

ClearManifest ==
  /\ pc = "clear_manifest"
  /\ bundle' = [bundle EXCEPT !.manifest = "none"]
  /\ Goto("clear_profiles")
  /\ UNCHANGED <<history, downloads, work>>

ClearProfiles ==
  /\ pc = "clear_profiles"
  /\ bundle' = [bundle EXCEPT !.profiles = << >>]
  /\ Goto("align")
  /\ UNCHANGED <<history, downloads, work>>

\* Broken variant: the unprivileged call has checked the files already.
AlignAssumed ==
  /\ pc = "align"
  /\ moved' = FALSE
  /\ Goto("kernel")
  /\ UNCHANGED <<history, input, changes, bundle, work>>

\* _ensure_installer_assets_align_with_iso, on the files themselves.
Align ==
  /\ pc = "align"
  /\ role = "netinst" => Aligned
  /\ moved' = FALSE
  /\ Goto("kernel")
  /\ UNCHANGED <<history, input, changes, bundle, work>>

CopyKernel ==
  /\ pc = "kernel"
  /\ bundle' = [bundle EXCEPT !.kernel = <<input.kernel>>]
  /\ Goto("initrd")
  /\ UNCHANGED <<history, downloads, work>>

CopyInitrd ==
  /\ pc = "initrd"
  /\ bundle' = [bundle EXCEPT !.initrd = <<input.initrd>>]
  /\ Goto("extract")
  /\ UNCHANGED <<history, downloads, work>>

\* The session extracts once, for the look at the native preseed loader.
Extract ==
  /\ pc = "extract"
  /\ tree' = [has |-> <<bundle.initrd[1].has>>, changed |-> FALSE]
  /\ Goto(IF request.modules # "none" THEN "modules"
          ELSE IF role = "netinst" THEN "iso_scan" ELSE "repack")
  /\ UNCHANGED <<history, downloads, bundle, staged, backup>>

Edit(marks) == tree' = [has |-> <<tree.has[1] \cup marks>>, changed |-> TRUE]

\* _rebuild_debian_netinst_initrd_modules, on the copied files: the version of
\* the initrd must be readable, and the kernel's not another one.  Selected
\* support that the kernel has built in needs no change.
AddModules ==
  /\ pc = "modules"
  /\ bundle.initrd[1].version # 0
  /\ ~Disagree(bundle.kernel[1], bundle.initrd[1].version)
  /\ Edit({"modules"}) \/ UNCHANGED tree
  /\ Goto("iso_scan")
  /\ UNCHANGED <<history, downloads, bundle, staged, backup>>

\* _enforce_exact_iso_scan_filename: already patched text is left as it is.
EnforceIsoScan ==
  /\ pc = "iso_scan"
  /\ IF "iso_scan" \in tree.has[1] THEN UNCHANGED tree ELSE Edit({"iso_scan"})
  /\ Goto("repack")
  /\ UNCHANGED <<history, downloads, bundle, staged, backup>>

\* The session's exit repacks a changed tree.
Repack ==
  /\ pc = "repack"
  /\ bundle' = IF tree.changed
               THEN [bundle EXCEPT !.initrd = <<[@[1] EXCEPT !.has = tree.has[1]]>>]
               ELSE bundle
  /\ tree' = NoTree
  /\ Goto("flavor")
  /\ UNCHANGED <<history, downloads, staged, backup>>

-----------------------------------------------------------------------------
(* prepare_installer_profiles.                                             *)

NextFlavor == Order[Len(staged) + 1]

\* What a flavor adds to the archive it was extracted from.
Additions(f) ==
  {"dispatch"} \cup (IF f \in request.overlay THEN {Overlay(f)} ELSE {})
               \cup (IF f = "desktop" /\ request.preseed THEN {"preseed"} ELSE {})

\* Broken variant: the tree extracted for the first flavor serves the second.
BuildFlavorInPlace ==
  /\ pc = "flavor" /\ bundle.kernel # << >> /\ bundle.initrd # << >>
  /\ "preseed" \notin bundle.initrd[1].has
  /\ LET from == IF staged = << >> THEN bundle.initrd[1] ELSE staged[1].initrd IN
     staged' = Append(staged, [kernel |-> bundle.kernel[1],
                               initrd |-> [from EXCEPT !.has = @ \cup Additions(NextFlavor)]])
  /\ Goto(IF NextFlavor = "server" THEN "swap" ELSE "flavor")
  /\ UNCHANGED <<history, downloads, bundle, tree, backup>>

\* Each flavor starts from its own extraction of the shared archive, which must
\* not hold a preseed.cfg already.
BuildFlavor ==
  /\ pc = "flavor" /\ bundle.kernel # << >> /\ bundle.initrd # << >>
  /\ "preseed" \notin bundle.initrd[1].has
  /\ staged' = Append(staged, [kernel |-> bundle.kernel[1],
                               initrd |-> [bundle.initrd[1] EXCEPT !.has = @ \cup Additions(NextFlavor)]])
  /\ Goto(IF NextFlavor = "server" THEN "swap" ELSE "flavor")
  /\ UNCHANGED <<history, downloads, bundle, tree, backup>>

\* Previous profiles are renamed into the temporary directory first.
MoveAside ==
  /\ pc = "swap"
  /\ backup' = bundle.profiles
  /\ bundle' = [bundle EXCEPT !.profiles = << >>]
  /\ Goto("publish")
  /\ UNCHANGED <<history, downloads, tree, staged>>

\* A complete run goes on with the payload; the CLI commands rewrite the manifest.
PublishProfiles ==
  /\ pc = "publish"
  /\ bundle' = [bundle EXCEPT !.profiles = <<[desktop |-> staged[1], server |-> staged[2]]>>]
  /\ staged' = << >> /\ backup' = << >>
  /\ Goto(IF request.kind = "prepare" /\ role = "netinst" THEN "payload" ELSE "truncate")
  /\ UNCHANGED <<history, downloads, tree>>

CopyPayload ==
  /\ pc = "payload"
  /\ bundle' = [bundle EXCEPT !.payload = <<input.iso>>]
  /\ Goto("truncate")
  /\ UNCHANGED <<history, downloads, work>>

-----------------------------------------------------------------------------
(* The manifest, written with write_text, and the access.                  *)

TruncateManifest ==
  /\ pc = "truncate"
  /\ bundle' = [bundle EXCEPT !.manifest = "torn"]
  /\ Goto("record")
  /\ UNCHANGED <<history, downloads, work>>

RecordManifest ==
  /\ pc = "record"
  /\ bundle' = [bundle EXCEPT !.manifest = "whole"]
  /\ Goto("access")
  /\ UNCHANGED <<history, downloads, work>>

\* Broken variant: the completed bundle stays root's.
FinalizeNothing ==
  /\ pc = "access"
  /\ Goto("done")
  /\ UNCHANGED <<history, downloads, bundle, work>>

\* _finalize_bundle_access gives the bundle to the invoking user.
FinalizeAccess ==
  /\ pc = "access"
  /\ bundle' = [bundle EXCEPT !.owner = "user"]
  /\ Goto("done")
  /\ UNCHANGED <<history, downloads, work>>

-----------------------------------------------------------------------------
(* ensure-installer-profiles and prepare-installer-profiles.               *)

\* With profiles there, ensure only validates; without, and for the explicit
\* command, a readable manifest is needed to rebuild them.
LookAtBundle ==
  /\ pc = "look"
  /\ bundle.manifest = "whole"
  /\ IF request.kind = "ensure" /\ bundle.profiles # << >>
     THEN Goto("done") /\ UNCHANGED bundle
     ELSE Goto("flavor") /\ bundle' = [bundle EXCEPT !.owner = "root"]
  /\ UNCHANGED <<history, downloads, work>>

Next == Begin \/ ReplaceInput \/ Fails \/ Kill \/ Preflight \/ ClearAssets \/ ClearPayload
        \/ ClearManifest \/ ClearProfiles \/ Align \/ CopyKernel \/ CopyInitrd \/ Extract
        \/ AddModules \/ EnforceIsoScan \/ Repack \/ BuildFlavor \/ MoveAside
        \/ PublishProfiles \/ CopyPayload \/ TruncateManifest \/ RecordManifest
        \/ FinalizeAccess \/ LookAtBundle

Spec == Init /\ [][Next]_vars

-----------------------------------------------------------------------------
(* Properties.                                                             *)

\* Types; a build that ends well leaves the bundle to the user who asked for it
\* (an ensure that finds profiles takes it as it is: a build killed before its
\* last step leaves it root's).
TypeOK ==
  /\ role \in {"netinst", "netboot"}
  /\ input \in Input /\ moved \in BOOLEAN
  /\ bundle \in Bundle
  /\ Len(bundle.kernel) <= 1 /\ Len(bundle.initrd) <= 1
  /\ Len(bundle.payload) <= 1 /\ Len(bundle.profiles) <= 1
  /\ pc = "done" /\ request.kind # "ensure" => bundle.owner = "user"
  /\ request \in Requests
  /\ tree \in [has : Seq(SUBSET Marks), changed : BOOLEAN] /\ Len(tree.has) <= 1
  /\ staged \in Seq(Assets) /\ Len(staged) <= 2
  /\ backup \in Seq([Flavors -> Assets]) /\ Len(backup) <= 1
  /\ backup # << >> => pc \in {"publish", "killed"}
  /\ runs \in 0 .. MaxRuns /\ changes \in 0 .. MaxChanges

\* What validate_installer_profile_assets and _validate_prepared_installer_source
\* let a plan be written from.
Accepted ==
  /\ bundle.manifest = "whole"
  /\ bundle.profiles # << >> /\ bundle.kernel # << >> /\ bundle.initrd # << >>
  /\ role = "netinst" => bundle.payload # << >>

\* At every moment, a bundle that the validators accept is complete and of one
\* piece: both flavors derive from the shared assets beside them, and for a
\* netinst every initrd has the exact iso-scan selection.
AcceptedIsWhole ==
  Accepted => \A f \in Flavors :
    LET p == bundle.profiles[1][f] IN
    /\ p.kernel = bundle.kernel[1]
    /\ p.initrd.version = bundle.initrd[1].version
    /\ bundle.initrd[1].has \cup {"dispatch"} \subseteq p.initrd.has
    /\ role = "netinst" => "iso_scan" \in bundle.initrd[1].has

\* "Changes to one flavor cannot contaminate the other": no flavor's overlay and
\* no preseed reaches the other flavor or the shared initrd of a bundle.
FlavorsIsolated ==
  bundle.profiles # << >> =>
    /\ "server_overlay" \notin bundle.profiles[1]["desktop"].initrd.has
    /\ {"desktop_overlay", "preseed"} \cap bundle.profiles[1]["server"].initrd.has = {}
    /\ bundle.initrd # << >> /\ Accepted =>
         bundle.initrd[1].has \cap {"preseed", "dispatch", "desktop_overlay", "server_overlay"} = {}

\* "Use an aligned ISO/kernel/initrd set": when a preparation ends, files whose
\* version can be read agree, unless one was replaced since they were
\* compared; with modules, kernel and initrd agree even then.
AbisAgree ==
  pc = "done" /\ request.kind = "prepare" =>
    /\ role = "netinst" /\ ~moved =>
         /\ ~Disagree(bundle.kernel[1], bundle.payload[1].kernel)
         /\ ~Disagree(bundle.initrd[1].version, bundle.payload[1].initrd)
    /\ request.modules # "none" => ~Disagree(bundle.kernel[1], bundle.initrd[1].version)
=============================================================================
