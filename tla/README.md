# A TLA+ verification of debian-usb

`debian-usb` builds, customises and writes Debian-family installer and live
images to USB sticks. A Go program (`src/internal/app`) holds the menus, the
saved plans and the execution of a confirmed plan. It calls a Python package
(`src/src/python/debian_usb`) for everything that reads or changes an image or
a download, and a shell script (`src/scripts/write_usb.sh`) for everything that
changes a disk. Paths below are relative to the repository root, `src/`.

The program is a long chain of steps with lasting effects, run with root
rights, in which any step may fail and the process may die. What makes it hard
is not parallelism inside it (there is one goroutine) but what happens around
it: the disk behind a device path is swapped, a desktop session mounts what is
being formatted, a mirror publishes while an image is fetched, a run dies with
a chroot half set up, and the next run starts from what is left. The modules
here are about those histories.

Contents: [inventory](#inventory) ·
[modules](#modules-and-how-they-correspond-to-the-code) ·
[runs](#what-the-runs-check) · [bounds](#bounds) ·
[fairness](#fairness) · [proofs](#proofs) ·
[findings](#findings) · [not modelled](#what-is-not-modelled) ·
[plan](#plan).

To check everything by hand:

    tlc -workers 2 -config PlanExecution.cfg MCPlanExecution     # and the other runs of PROJECT.json
    tlapm PlanExecutionProofs.tla                                # and the other *Proofs modules


## Inventory

| Component | Source | State it keeps | Operations | Talks to | Hard part |
|---|---|---|---|---|---|
| Plan execution | `backend.go`, `prepare_sources.go`, `source_selection.go` | the executable copy of a plan: one prepared image per item | `executeCreate`, `executeMultiOSCreate`, `verifyTargetDevice`, `prepareSelectedSource` | Python helpers and the writer as subprocesses | disk swapped, source file replaced, one item of several failing |
| Saved plans | `planned_executions.go`, `planned_execution_ui.go`, `update_usb.go` | one JSON file per plan | list, save or reuse, run, edit, delete, record a success | the file system, `sudo cp` | sessions working on copies, writes that are not atomic |
| Sudo lease | `backend.go` `withSudoCredentialLease` | a goroutine, a stop channel, a flag | authenticate, refresh, run, stop | sudo's timestamp | a late refresh, a suspend, stop racing a tick |
| Managed downloads | `downloads.py` | a cache directory per key: payload and `.source-url` sidecar | look up, resolve a manifest, compare, fetch, replace, record | mirrors, configuration, other processes | a death between payload and sidecar, a moving alias |
| Installer bundles | `installer_sources.py`, `installer_profiles.py`, `cli.py` | a directory: kernel, initrd, payload, Desktop and Server copies, manifest | prepare, ensure profiles, prepare profiles | downloads, initrd archives, the writer | a run that dies half way, inputs replaced between check and copy |
| Initrd archives | `rebuild_iso.py` 2160–2400 | a concatenation of cpio archives | unpack, repack | bundles, rebuilds, remasters | microcode in front of the main archive, a repack that fails |
| Live remaster | `rebuild_iso.py`, `live_hooks.py`, `live_packages.py` | a chroot with mounts, diversions, masked units, an APT configuration | `remaster_live_tools_source` | apt, live-build's casper or live-boot, xorriso | cleanup in the right order after any failure |
| Installer image rebuild | `rebuild_iso.py`, `rebuild_iso.go` | an extracted ISO tree | update kernel, inject modules, add packages, installer or live | apt, xorriso | kernel, modules and initrd that must match in several places |
| USB writer | `write_usb.sh` | the stick; mounts, dm-crypt mappings, temporary files | single, managed, shared and raw writes, and their updates | the kernel, udisks, cryptsetup | automounters, retries, exit traps |
| Multi-OS planning | `multios.go`, `multios.py`, `planner.go`, `payload_layout.go`, `labels.go` | none: functions of a plan | capacity, labels, layout, validation, assembly of one menu | plan execution, boot menus, writer | orders shared by several media, size limits |
| Boot menus | `boot_render.py`, `boot_parse.py`, `boot_inspect.py`, `bootconfig.py`, `bootpolicy.py` | a parser's stacks; the entries of a menu; lists of files to stage | parse upstream GRUB and syslinux, adapt kernel arguments, render a menu | writer | entries dropped, given another's kernel, or naming files nobody stages |
| Configuration | `config_store.go`, `settings.go`, `config.py` | `config.json` | load, normalise, change, save, on both sides | every component | two writers of one file without a lock |
| Live-build of an ISO | `build_iso.py`, `build_iso.go`, `build_iso.sh` | a live-build tree, rebuild rooms, a kernel package cache, the output path | validate and merge a plan, rebuild udebs and kernels, build, publish | apt, dpkg, live-build | rebuilds sharing a checkout, a cache earlier runs left, an output replaced in place |
| Image inspection | `iso_source.py`, `catalog.py`, `live_tools.py`, `live_tools.go`, `live_wifi.py` | none | facts about an image | all planners | — |
| Block devices | `devices.py` | none | the list of disks | plan execution | the list is old when used |
| Terminal front end | `app.go`, `create.go`, `prompt.go`, … | answers | menus, reviews | plan execution, saved plans | — |
| Live hooks | `config-hooks/*` | units and sources in the target | run in the image | live remaster | — |
| Secrets | `manage-secrets.py`, `check-secrets.py` | env files | add, rotate, check | git | replacing files atomically |
| Host setup | `install.sh`, `make-host.sh`, `Makefile` | packages | install | apt | — |

What makes each component correct:

* **Plan execution**: nothing but the reviewed disk is ever written, the writer
  starts once and only after every source is ready, an image that policy wants
  remastered, stock or inspected is that when it is handed over.
* **Saved plans**: a session that dies makes no file unreadable that it wrote by
  renaming; no review destroys another's plan; the record of past runs is kept,
  and what was deleted stays deleted.
* **Sudo lease**: one password per operation; a command that may not prompt
  finds a valid credential; the goroutine ends with the operation.
* **Managed downloads**: a caller is handed a whole file, with the bytes of the
  URL that was reviewed, and a moving alias is looked at again.
* **Installer bundles**: a directory the validators accept is complete and of
  one build; Desktop and Server stay apart; kernel, initrd and ISO match.
* **Initrd archives**: a repack keeps what is in front of the main archive,
  adds exactly the edit, and a failed one leaves the archive alone.
* **Live remaster**: a published image is whole, its live system has no trace
  of the build and its initrds belong to its kernels; failure publishes
  nothing; host mounts are never deleted through.
* **Installer image rebuild**: every entry the action was about boots, has what
  was asked for, and the rest of the image is as it was.
* **Boot menus** and **Multi-OS planning**: what an entry boots is staged and is
  its own medium's; every entry has one locator, one preseed source and at most
  its own persistence; no entry of a medium is lost or reordered by another's.
* **Live-build of an ISO**: what the merged plan says is what live-build gets;
  rebuilt packages carry what each rebuild asked for; an image with a manifest
  is whole and was checked.
* **USB writer**: a file system somebody else has open is not overwritten;
  questions come before destruction; a stick reported as finished is complete;
  nothing stays mounted, mapped or readable after the exit traps.

`PROJECT.json` lists the hazards behind these statements, each at its line,
with the property that covers it or the reason why none does.


## Modules and how they correspond to the code

Every module is a state machine with one action per step of the code that
changes state; `pc` (or `script`/`at` in `UsbWriter`) is the position in the
function. `map` in `PROJECT.json` gives the lines of each definition. An
`MC…` module only names the small instances; it defines no behaviour. Operators
marked *Broken variant* next to a definition are that definition with one
plausible bug; each is used to confirm that a property notices the bug.

**`PlanExecution`** (with `ReviewedWrite`, its abstract specification).
`executeCreate` and `executeMultiOSCreate` as one machine: `CheckTarget` and
`RecheckTarget` are the two calls of `verifyTargetDevice`, `ValidateItem` the
loop in front of a multi-OS preparation, `Select` … `Store` are
`prepareSelectedSource` for one item, `Launch` and `WriterEnds` the subprocess.
The helper processes' answers (an inspection, a failure) are chosen freely.
`SwapDisk` and `ReplaceFile` are the world. `ReviewedWrite` says what a user is
told: untouched, then written or damaged, and each of these once.

**`LiveRemaster`** (with `ImagePublication`). One pass of
`remaster_live_tools_source`. The nested context managers of the chroot phase
are a stack, `ctx`; a failure goes to `"unwind"`, where the finally block of
the innermost manager runs (`Leave…`, `Undivert`, `RemoveShim`, …), and a
finally block may fail itself. `local` holds what each manager remembers for
its own undo. `KeyboardInterrupt` is a failure, `SIGKILL` is `Kill`.
`ImagePublication` is the promise that an image appears at the final path once
and whole, and that every run ends.

**`DownloadCache`**. `download_managed_source` by any number of processes on one
cache directory. A payload is the URL it came from, the version it had and
whether it is whole; `order` is the modification order that "newest" means.
`EditConfig` and `PublishUpstream` are the world.

**`PlanStore`**. The directory of saved plans, and sessions that list it, hold a
copy for a while (through a wizard, an edit, or a run of hours) and write it back
without a lock. A plan's name is its kind and the second it was created in.
`SaveDirectly` writes a temporary file and renames it; `SaveBySudo` is the
fallback after any error of that, in a directory the user may write to as well
as in one he may not: `sudo cp -f` empties the file in place, and `Fill` fills it.
Three histories say what the properties have to know: `taken` (how often an id was
given out), `stale` (another session has changed the file since this one read
it) and `copied` (files that `sudo cp` has begun to overwrite).

**`SudoLease`**. Discrete time since the credential was last used; `TimePasses` is
bounded by the refresher's lag, `Shock` is a suspend or a revocation.

**`UsbWriter`**. A write mode is a sequence of steps (`Script`), each with the
partition it works on; a step is an action, and the ones that retry
(`ReleaseMounts`, `CheckUse`, `ResetTable`, `MakeLabel`, `Made`) have their
inner states in `sub`. The layouts (`SingleLayout`, `ManagedLayout`,
`SharedLayout`, `RawLayout`) are the partition tables the functions make.
`Automount`, `Hold` and `LetGo` are the desktop; `CleanupLuks` and `Leave` are
the exit traps; `Kill` skips them, and `RunAgain` runs the same plan afterwards.

**`IsoRebuild`**. `rebuild_debian_installer_iso` with its five actions. The
image is a set of boot entries (kernel member, initrd member), the contents of
the members, and the live root; what must match is the kernel version (ABI)
in each. The chroot scaffolding of its package phase is the one `LiveRemaster`
models and is one step here.

**`InitrdArchive`**. Archives are sequences of segments; `Main`, `Prefix` and
`After` are the decisions of the archive walk, `View` is what the kernel ends
up with when it unpacks the whole file. `WriteTemp`, `DropTemp`, `Replace` and
`SetMode` are the three-process pipeline, the rename and the chmod after it.

**`InstallerBundle`**. The bundle directory under
`prepare_managed_installer_source`, `ensure-installer-profiles` and
`prepare-installer-profiles`. An initrd is the kernel version of its modules
and a set of marks (preseed, modules, exact iso-scan, dispatcher, overlays);
version 0 is a file whose version cannot be read, which the code does not
compare. What an extraction and a repack do to the archive itself is `InitrdArchive`.

**`BuildIso`**, which extends **`BuildPlan`**, **`UdebRebuild`** and
**`KernelSupport`**: `build_debian_iso`. `BuildPlan` has no state: it is the merge
of catalog, specs and overlay into a plan (`Merged`), the rules (`Accepted`), the
rebuilds appended to it (`AllRebuilds`) and the live-build tree laid out from it
(`Workspace`). A plan is the choices that decide something, the lists whose
members matter, and the set `given` of the other fields with a value.
`UdebRebuild` is one rebuild as a function from the rooms before it to the rooms
after it: module lists, configuration lines, packaging. `KernelSupport` is the
inspection of one kernel version with the package cache that outlives a run;
`BuildIso` is the run itself, repeated: a later run finds the output path and the
cache as an earlier one left them. Configuration files, module lists and trees
are sets and short sequences of names; hooks are marks in the tree.

**`BootMenu`**, which extends **`BootParse`** and **`KernelArgs`**: the menu of a
Multi-OS stick and its staging. `BootParse` reads one line per step, with the
stacks of `boot_parse.py` (blocks, submenus, conditionals, included files) and the
draft of a syslinux label. `KernelArgs` has no state: merging, removing and
replacing kernel arguments, Live and installer settings, media locators and
preseed transports. `BootMenu` accepts or refuses a plan, prepares the entries of
each item, builds the custom or plain menu, lists the kernels, initrds, patches
and ISO files it needs, and stages them as `write_usb.sh` does. A path is the
sequence of its components and a title the words the code looks for in it, so
that text is compared exactly where the code compares it.

**`PlanExecutionProofs`**, **`UsbWriterProofs`**, **`InstallerBundleProofs`**,
**`BuildIsoProofs`**, **`InitrdArchiveProofs`** and **`LiveRemasterProofs`** hold the
theorems about the module each is named after, **`SessionProofs`** those about
`SudoLease` and `PlanStore`, and **`ImageProofs`** those about `DownloadCache` and
`IsoRebuild`. (Two components of one proof module share no name, so `SudoLease` and
`IsoRebuild` call their specifications `LeaseSpec` and `RebuildSpec`.)

How the modules meet: `PlanExecution.Bundle` and `ChooseRemaster` stand for
complete passes of `InstallerBundle` and `LiveRemaster`, `Materialize` for a
call of `DownloadCache`, `Launch` for a run of `UsbWriter`, whose `Render` stands for
a run of `BootMenu`; each of those is one
step that succeeds or fails in `PlanExecution`, which is what
`ImagePublication` (nothing or a whole image), `OnlyWholePayloads` and
`AcceptedIsWhole` justify.


## What the runs check

Every property of a passing run has been seen to fail on a broken variant of
the code under the same configuration (`mutants` in `PROJECT.json`). `TypeOK` is
checked in the runs whose module has a proof, `plan_execution`, `sudo_lease` and
`installer_bundle`, where it is part of the inductive invariant.

| Run | States | Property | What it says |
|---|---|---|---|
| `plan_execution` | 48 240 | `OnlyReviewedDisk` | the writer is started on the reviewed, removable, non-system disk, unless it is swapped after the second check |
| | | `PreparedAsReviewed` | the conjunction of stock images staying stock, mandatory live policy applied, encrypted images inspected after their last change, and GRUB's locator naming the image that is staged |
| | | `ImplementsReviewedWrite` | every behaviour is one of `ReviewedWrite`, its liveness included: a confirmed plan is refused or the writer is started |
| `live_remaster` | 217 314 | `UnitsGuarded` | packages are installed, and firmware units unmasked, only while `policy-rc.d` refuses to start services, on every path but one: a masking that raises itself leaves its units unmasked while the policy is restored, in a run that has failed and only undoes the rest |
| | | `PublishedImageSound` | an image at the final path has a clean root, current initrds, one initrd generation per kernel |
| | | `MountsKeepWorkspace` | the workspace is never deleted while something is mounted in it, and a successful run leaves no mount |
| | | `ImplementsPublication` | every behaviour is one of `ImagePublication` |
| `download_cache` | 879 414 | `OnlyWholePayloads` | a call never returns a partial file |
| | | `ReviewedCallsHonoured` | with calls one after the other and nothing cut short, a reviewed call gets whole bytes of the URL that its reviewed configuration stands for (`ReviewedBytes`); a moving alias is never answered, even after a death, with bytes older than the start of a call that ran alone (`MovingAliasesFresh`) |
| `plan_store` | 888 034 | `SavedPlansKept` | whoever dies when, only the copy in place by `sudo` leaves a file that makes the list fail (`StoreStaysListable`); a review with a current copy and an id given out once overwrites no other plan (`ReviewsKeepPlans`) |
| | | `HistoryKept` | a session whose copy nobody has overtaken forgets no execution that another one has recorded, and brings no plan back that another one has deleted |
| `sudo_lease` | 1 225 | `OnePrompt`, `CredentialKept`, `LeaseEnds` | one prompt per lease; the credential does not expire under the action unless it was revoked or the machine slept; the deferred wait for the goroutine returns |
| `usb_writer` | 958 549 | `HeldFilesystemsSurvive` | a file system that somebody has kept open since before the run is intact |
| | | `PassphrasesFirst` | a build erases nothing before the operator has typed every passphrase; updates ask for nothing |
| | | `FinishedStick` | success means every partition holds what its role wants, those with files were filled after their format, and the menu names each as it is now; the updates that release the device are left out |
| | | `NothingLeftBehind` | success leaves no own mount, mapping, passphrase file or temporary root; a failure leaves the workspace only under a mount it could not take down |
| | | `UnattendedEnds` | once the device is erased the run ends, however long the desktop keeps a partition busy |
| `iso_rebuild` | 796 | `RebuiltEntriesBoot` | the entries an action works on have kernel, modules, index and initrd of one version |
| | | `ScopeHonoured` | the new image contains what the action asked for (`RequestDelivered`), and an action on the installer does not change the live system, nor the reverse (`OtherScopeUntouched`) |
| | | `ImageDescribesItself` | checksums and package lists are those of the mastered tree, and a run that ends without a complete tree leaves the old output |
| `initrd_archive` | 75 752 | `EarlySegmentsKept`, `BootSeesEdit`, `FailuresKeepArchive` | microcode stays in front, the kernel sees the edited tree, an archive only ever changes from a whole one into its complete repack |
| `installer_bundle` | 389 492 | `AcceptedIsWhole` | at any moment, an accepted bundle has flavors derived from the assets beside them, and exact iso-scan selection everywhere |
| | | `FlavorsIsolated` | no overlay or preseed crosses to the other flavor or into the shared initrd |
| | | `AbisAgree` | kernel, initrd and payload match unless a file was replaced after the comparison |
| `build_iso` | 192 064 | `PublishedImageChecked` | a Live image reaches the output path, even in part, only after its package archive and modules were found complete; an installer image is copied there first and examined where it lies, and gets no manifest if it is refused; what has a manifest is whole; EROFS with the policy `require` has both kinds of installer content |
| | | `PlanHonoured` | every package, module and file of the merged plan is in the tree live-build is given (Kali tools among the packages its hook installs where they exist), and no package the catalog keeps for another distribution |
| | | `KernelHonoured` | the kernel udebs of a source and version carry the modules and the configuration that each of its rebuilds asked for, unless a later list, entry or overlay takes it back, although they share a checkout; kernels whose revisions share a directory are left out (`Disturbed`) |
| | | `ExportMatchesMedia` | the exported installer workspace and the medium hold the same udebs, a rebuilt one in place of a local one |
| | | `OfferedModulesFound` | whatever earlier runs left in the cache, a download finds every module that a package apt offers carries |
| `boot_menu` | 3 059 | `EntriesBootStagedFiles` | kernel, initrd and ISO of every entry of the finished stick are staged, are of that entry's medium, and an initrd is patched where its entry relies on it |
| | | `OneSourceEach` | a Live or installer entry (not a `verify` one, see [findings](#findings)) has exactly the locator of its own item and one preseed source, the one its transport asks for, whatever the upstream line or a preset said |
| | | `PersistencePlaces` | a persistence label is never another OS's: it is the plan's for its item, except that the Live variants of a custom menu have the configured one of the profile (see [findings](#findings)); plain menus offer persistence only where the plan has it; Tails never does |
| | | `MenuKeepsEveryEntry` | orders of a family are distinct, the legacy submenu is last and, when the plan preserves them, holds every bootable upstream entry unchanged |
| `usb_update` | | `UpdateKeepsPartitions` | expected to fail; see [findings](#findings) |

`PublishedImageSound` and `PreparedAsReviewed` are conjunctions of operators that
are named one by one in their modules.

## Bounds

* `plan_execution`: one or two items, six profiles and three roles; every plan
  shape the code distinguishes is in `AllPlans`. Two items suffice for every
  property about "one of several", as items only meet in the order of the loop;
  the theorems cover any number. Three disks: the reviewed one, one that reports
  another identity, and an internal one that reports the same.
* `live_remaster`: five jobs (profiles, overlays, persistence, shared, distinct
  and conflicting kernels), two initrd members, two kernel versions. Two of
  each is where pairing can go wrong.
* `download_cache`: two symmetric processes, `MaxVersion` 1 publication,
  `MaxFaults` 1. Two versions are what makes "old" and "new" differ; every
  interleaving of two calls is covered.
* `plan_store`: two symmetric sessions, one kind, two symmetric plans, seconds 0–1,
  one death. Two sessions are what it takes to overtake a copy, to share an id
  and to read a file half filled; two seconds, to have ids that differ. Two saves by
  one session in the same second cannot happen (`asked`: a user needs a second per wizard).
* `sudo_lease`: `Interval` 2, `Lag` 1, `Timeout` 5, three phases, one shock. The
  code has 60 s against sudo's 5 to 15 minutes; only `Interval + Lag < Timeout`
  matters.
* `usb_writer`: eight jobs (each mode, with split boot assets, encrypted, plain
  and bare persistence, ISO and file-store payloads, and the multi-OS update), `MaxTries` 2 (5, or 3, in the code), `MaxLabels` 2 (3),
  `MaxMeddling` 2, `MaxRuns` 2, `MaxUnwiped` 0. Two attempts show a first that fails and a
  last one; two moves of the desktop are a mount and an open file. Every wipefs of a
  release runs, or none does (it is not installed); that single ones fail is
  covered by the theorems, for any `MaxUnwiped`.
* `iso_rebuild`: sixteen source and plan pairs, half of them refused, over three
  kernel members, four initrd members and three versions.
* `initrd_archive`: all archives of up to four segments over seven sorts of
  segment, two runs.
* `installer_bundle`: five sets of downloads (matching, an ISO with another initrd, unreadable
  versions, already patched, already preseeded), six requests, two runs, two
  replaced files. Two runs make a first one's leftovers meet the second.

* `build_iso`: two runs; the first takes any of some sixty plans (every mode and
  distribution, groups and specs that are refused, EROFS with both policies, and
  all combinations of six lists of spec rebuilds with four automatic kernel
  rebuilds and three overlays), the second one of three that meet every output
  and cache. Two versions of a kernel, one of them of a second kernel source too, one source
  package, one local udeb, three
  candidate packages under a stale and a fresh index. Two rebuilds of a version
  are what it takes to share a checkout, and a second run is what meets leftovers.
* `boot_menu`: fourteen item lists, custom or plain, preserving or not; nine media
  that between them have every construct the parser distinguishes. Items of a
  stick meet in the orders of a family and in the staging, for which two of a
  family suffice. Four of the ten candidate paths of a configuration file are in
  `Candidates`; they are tried in order, and one of each format is enough.

Deadlock is checked everywhere except in `usb_writer`, `installer_bundle` and
`build_iso`, which stop when the bound on runs is reached.


## Fairness

No fairness is ever assumed of the user, the desktop session, a mirror, a
failure, a kill or a second run.

* `PlanExecution`: `WF(Unattended)`, the program's steps up to the start of the
  writer. The Go code is one thread of straight-line calls, whose helpers end or
  fail; but the writer asks for passphrases in a loop without end
  (`write_usb.sh:136-155`), so nothing is assumed of its end.
* `LiveRemaster`: `WF(Program)`. It is one thread as well, and asks nobody anything.
* `SudoLease`: weak fairness of `Release` (closing the stop channel and waiting) and
  of a due `Refresh`, strong fairness of `ObeyStop`: Go's `select` chooses at random
  among ready cases, so a closed stop channel that is ready again and again is
  taken. None of `Authenticate`, which is an interactive `sudo -v`, and none of the
  action, which may ask for passphrases: `LeaseEnds` speaks of a lease from the moment
  its action has returned.
* `UsbWriter`: `WF(Unattended)`: the steps that need neither a human nor the
  desktop. A passphrase prompt is a step of the operator and may never come.

The remaining modules state no liveness.


## Proofs

`PlanExecutionProofs` proves, for all plans of any length, any set of disks and
identities, and any assignment of identities to disks, under the two
assumptions of `PlanExecution` (`PlansAssumption`: plans are well typed and a
plan that is not multi-OS has one item; `DisksAssumption`: `NoDisk` is no disk,
every disk has an identity, eligible disks are disks):

* `TypeCorrect`: `Spec => []TypeOK`.
* `ReviewedDiskOnly`: `Spec => []OnlyReviewedDisk`.
* `ImagesAsReviewed`: `Spec => []PreparedAsReviewed`.
* `Refinement`: the steps of `PlanExecution` are steps of `ReviewedWrite` or
  stutter, and so are its initial states.

The argument. Neither safety invariant is inductive: each speaks only of the
moment the writer runs, and says nothing of the steps on the way. The
strengthening is `IInv == TypeOK /\ PreparedSoFar /\ Current /\ Target`:

* `PreparedSoFar` says that every item before `idx` already is what the plan
  wants (`Stored`), and that all of them are once preparation is over;
* `Current` carries the guards that the item in hand has passed at each `pc`
  (for instance that an image at `"reinspect"` is remastered and that its plan
  is not a direct one), so that `Good` holds when it is stored;
* `Target` says that at `"launch"` the disk matches the plan unless it was
  swapped after the second check, and remembers that for the writer.

`QuietSteps`, `PrepareSteps`, `StoreStep` and `LaunchStep` show that each group of
actions keeps `IInv`; `PlanFixed` is the frame. The proof of `Refinement` uses
`IInv` only to know that the number of stored images is the number of items
when the writer starts.

`SessionProofs` proves `LeaseTypes`, `PromptsOnce` and `CredentialStays` (the
invariants `TypeOK`, `OnePrompt` and `CredentialKept` of `SudoLease`) for all intervals, lags and
timeouts with `Interval + Lag < Timeout`, any number of phases and shocks; that
inequality is the only fact about time the code relies on. `CredentialKept` is not
inductive: it looks at the credential only while a command runs. `LeaseInv == TypeOK /\
Scoped /\ Prompting /\ Refreshed` adds that the goroutine lives inside its lease, that
the flag is up while the action runs, and that while the goroutine lives and nothing was revoked the credential is
no older than the timer that refreshes it (`age <= due`), which `TimePasses` bounds.

It also proves the two properties of `PlanStore`, for any number of sessions, any kinds,
plans, seconds and deaths (`PlansAssumption`: the names for no plan and no id are none, and
the bounds are numbers): `PlansStaySaved`, `Spec => []SavedPlansKept`, and `HistoriesKept`,
`Spec => HistoryKept`. Neither is inductive: both speak of the moment a copy goes
back, which may be long after it was read. `StoreInv` has five parts:

* `StoreTyped`, and `Filed`: only the copy by `sudo` ever empties a file, and a file that
  is not there has no history;
* `Holding`: whoever is not at the menu holds a copy, and no file or copy has an id that
  was not given out;
* `Alone`: an id given out once has neither a file nor another copy before the list is read;
* `Fresh`: a copy nobody has overtaken agrees with its file (`Agrees`): it knows of every
  execution the file knows of, its file is gone only if it has yet to be made, and the
  file a new plan is about to be written to has that plan.

Nothing is assumed about other sessions: what they do to the file sets `stale`, and
the properties say what then is not promised.

`InstallerBundleProofs` proves `BundleTypes`, `AcceptedBundlesWhole` and
`BundlesAgree` (`TypeOK`, `AcceptedIsWhole`, `AbisAgree`) for any downloads and
requests and any number of runs, replacements, failures and kills
(`RequestsAssumption` and `BoundsAssumption` only type the constants). What
the validators accept is decided long after it was written, possibly by another
run, so `IInv` describes every unfinished bundle:

* `Places`: what is in hand at each `pc` (a tree during a session, as many staged
  flavors as the position says, a backup only between the two renames);
* `ManifestFits`: a whole manifest lies beside no assets at all or beside a
  consistent set; it goes before new ones are written and comes when all are
  there, which is what makes a killed run harmless;
* `Progress` and `Flavored`: what the current run has put in place so far, and
  that staged flavors derive from the archive in the bundle;
* `Compared`: after the alignment check, while nothing was replaced, the
  downloads and the copies made of them agree.

`FlavorsStayApart` (`FlavorsIsolated`) adds `StockAssumption`: an initrd a mirror
serves carries nothing that only a flavor adds, except that it may bring a preseed
(which the flavor takes over). `IsolInv` then says of the tree, the bundle's initrd,
the staged flavors, the published profiles and their backup which marks they may
not have. The shared initrd may have a preseed while it is prepared; that an
accepted bundle's has none follows from `AcceptedBundlesWhole`'s derivation, since the
server flavor contains all of the shared initrd and has none.

`BuildIsoProofs` proves the five invariants of `BuildIso`, for any number of runs,
any plans, catalogs, sources, overlays, packages and indexes. What the proof needs
of the constants is named where they are declared, and TLC evaluates it on every
run: `PlansAssumption` (plans have their fields, apt has the source of every
rebuild, and a source's udeb has neither the name of a kernel's udebs nor its room),
`OverlaysAssumption` (an overlay's configuration files are sequences of lines), `KnownAssumption` (no package is named like an entry the workspace adds
itself), `UpstreamAssumption` (an unpacked source has its version and the upstream part of it, a control file, module
lists and fragments) and `CandidatesAssumption` (the indexes are about the candidate
packages). No rule of the code checks the names of udebs; Debian has one source for a
binary package, which is why the udebs of two kernel sources have different names in
the model.

* `PublishedImagesChecked`: `Spec => []PublishedImageChecked`. The invariant
  speaks of the file at the output path (`AtOutput`), which outlives the run that put it
  there; a Live image was checked before, an installer image is examined where it
  lies, and only the manifest says that it passed. `PublishedInv` adds what each step has established when its `pc` is
  reached (`Progress`: audited, exported, the tree complete, the image found
  sound), that an accepted plan in work satisfies its EROFS policy (`Counted`,
  `AcceptedIsSettled`), and that no manifest names a run that has not come to its
  end (`Output`), which is what keeps an older manifest true when the next image
  replaces the file.
* `PlansHonoured`: `Spec => []PlanHonoured`. The rules look at the merged plan long
  before the tree is laid out from it; `AcceptedIsInScope` is what they leave
  (`PlanInScope`: an installer image without Live content, a Live one without an
  installer and without installer content, packages of the distribution alone), `MergedFields`
  what the merges may not change, and `WorkspaceHonours` that a workspace of such a
  plan has all of it.
* `OfferedModulesAreFound`: `Spec => []OfferedModulesFound`. The cache outlives
  the run too, and a package already in it is skipped. `Tried` says that every
  candidate is either still to be tried under the current index or in the cache
  if that index has it; a refreshed index makes all of them untried again.
* `ExportsMatchMedia`: `Spec => []ExportMatchesMedia`. `RebuildInv` says that
  each rebuild is still to do or has staged and listed its udeb, which no later
  one takes away, though a room may hand it a checkout others have written to
  (`PreparedHasControl`); `Exported` is what the workspace holds from the
  moment it was written until the tree is laid out from the same udebs.
* `KernelsHonoured`: `Spec => []KernelHonoured`. All rebuilds of one kernel source work in
  one room, so what the first asked for has to survive what the others overlay, replace
  and configure. `HonourInv` counts the rebuilds done and says for each kernel among
  them that the staged file of its version `Serves` it, up to those that took something
  back (`KernelStaged`), and that the checkout used last is the one of the newest rebuild
  and is what is staged of its version (`KernelRoom`); where no rebuild is disturbed by
  another version or by another revision of its own (`Disturbed`), `CheckoutServes` follows. What a later
  rebuild takes back, by a list, an entry or a file of its overlay, is no longer
  claimed (`TargetStands`, `EntryStands`). What one rebuild does to a checkout is a
  matter of folds over targets, entries and lines (`TargetsHave`, `RewriteSets`,
  `EntriesDistinct`, `ConfigSets`, together `KernelPreparedHas`): `FoldExists` shows that the recursion
  behind a fold has a solution, `TargetSteps`, `LineSteps`, `ConfigSteps` and `EntrySteps` name the
  results on the way, and `AllAlong` carries a fact from each to the next.

`InitrdArchiveProofs` proves the three properties of `InitrdArchive` for archives of any
length, any edits and any number of runs, failures and kills (`SegmentsAssumption`:
the bound on the length is a number, and padding contains no files).

* `EarlySegmentsStay`: `Spec => []EarlySegmentsKept`. The heart of it is
  `RepackKeepsPrefix`: a repack has its main segment at the same place, with the same
  compression and the same segments before it. `Main` chooses a first or a last
  index, so `MainIsFound` and `FoundIsMain` first say by which two marks a
  segment is the main one (`StopsAt`, `EndsOn`), with `Least` and `Greatest` for
  the choices. The strengthening adds that the archive a run works on has a main
  segment and that what it is about to rename is a whole repack of it.
* `FailuresLeaveArchive`: `Spec => FailuresKeepArchive`. Only the rename touches the
  archive, and `IInv` knows that what it puts in place is the whole repack.
* `BootSeesTheEdit`: `Spec => []BootSeesEdit`. `RepackSeen` is about one repack: a
  path is as the last segment that has it says, the repack has the edited
  tree there or an untouched segment before it, and drops only padding. `SeenInv`
  carries that over runs: a second run edits what the first has edited, which changes nothing
  (`EditTwice`), and finds nothing behind the main segment any more.

`LiveRemasterProofs` proves the three invariants of `LiveRemaster` and its refinement, for all jobs, initrd
members and kernel versions, with every step and every cleanup step free to fail,
to be interrupted or to be the last before a kill. `JobsAssumption` types the jobs;
only the third needs it.

* `UnitsAreGuarded`: `Spec => []UnitsGuarded`. `StackInv` lists for each `pc` the
  stacks of context managers that may be open there, which is the nesting of the
  `with` statements; `GuardInv` says inside which of them the units may be lifted and
  inside which `policy-rc.d` refuses, and the first lie inside the second. A masking
  that raises half way leaves its units `"left"` when the policy is restored around
  them; `StackInv` shows that such a run is past its body.
* `MountsNeverOutliveRun`: `Spec => []MountsKeepWorkspace`. `MountInv` adds that
  while nothing has failed the recorded targets are exactly what is mounted
  (`Recorded`), so that a clean exit from the chroot leaves no mount, and that a removed
  workspace has none whatever failed. After an interrupt between mount(8) and the
  record the two differ, and only the check of the mount table keeps the
  workspace.
* `PublishedImagesAreSound`: `Spec => []PublishedImageSound`. The property looks at
  the published file; what makes it true was done up to thirty steps earlier. While
  nothing has failed the run follows one course, which the `...Course` lemmas
  state step by step; `PlacesFollow` reduces it to the places where something is
  promised, and `StepsFrame` says which steps touch which part of the state. Each
  promise is then an invariant of its own: `Diversions` (which of the two
  spellings is diverted and what lies at the command's path; `ShimHolds`: package
  upgrades therefore change neither the shim nor an initrd), `Scaffolding` (units,
  `policy-rc.d`, `resolv.conf`), `Contents` (what was put into the root by when),
  `Initrds` (generated once, from the complete root) and `InTree` (every kernel in use
  has one, the copies are theirs, the packed root is the root). After a
  failure none of them is needed, as a failed run does not publish.
* `PublicationRefined`: the initial states and the steps of `LiveRemaster` are those
  of `ImagePublication` or stutter. `OutcomeInv` relates what is at the final path to
  `pc` and `failed`: at `"publish"` the temporary file is whole, and a run that
  unwinds without a failure has published.

`ImageProofs` proves the two invariants of `DownloadCache`, for any number
of processes, URLs, publications, faults and configurations (`UrlsAssumption`:
an alias is no URL, releases have URLs that do not move, and names for nothing are no names).

* `CacheWhole`: `Spec => []OnlyWholePayloads`. Only a call's temporary file is ever
  partial; `TypeOK` says so of the payloads and of what calls return, `Listed` that every
  payload has its place in the order of modification, and `NewestStands` that the newest
  candidate, the one a call may reuse, is therefore a file.
* `CacheHonours`: `Spec => []ReviewedCallsHonoured`. `CallsPlaced` says what a call
  has in hand at each `pc`, and `OneAtATime` that without overlap at most one is
  on its way. `CallsUndisturbed` then carries what a call has read or fetched to
  its answer (a file it fetched is of its URL and no older than its start), and
  `Paired` says that, unless a process died, a payload is of the URL recorded beside it,
  except between the rename and the end of the old record.

It proves the three invariants of `IsoRebuild` too, for all images, plans, members and
versions, with every step free to fail or to be the last before a kill.
`JobsAssumption` types the plans, with at most one installer and one live entry
chosen from the menu; `NamesAssumption` says that no version is part of another's name, so
that a live file that names a version is of that kernel; `ImagesAssumption` says of the source image that its live
system and its installer share no member, and that entries which share an initrd have
kernels of one version.

* `RebuiltImageBoots`, `ActionsKeepTheirScope` and `ImagesDescribeThemselves`:
  `RebuildSpec => []RebuiltEntriesBoot`, `[]ScopeHonoured` and `[]ImageDescribesItself`. The
  properties look at the finished image alone; `RebuildInv` says what each step has
  brought it closer. `InstallerInv` follows the unpacked installer initrd: of which
  version its modules are, when they hold the request, and that the index is made
  after the last module came (`TreeDone`). `LiveInv` follows the live root: when it
  has the policy and the packages, that each of its kernels has an initrd generated after
  that, and that the chosen version is one it has (`RootDone`, `LiveInitrds`).
  `ImageInv` has the two meet in `Ready`, which holds of the tree from the moment the checksums are
  computed.

`UsbWriterProofs` proves the four safety invariants of `UsbWriter` that its passing run checks, for all
jobs, any number of items, runs, labels, attempts and moves of the desktop
and wipefs failing on any partitions (`BoundsAssumption` types the jobs and the bounds; `UpdateAssumption` excludes updates in
direct mode, which `write_usb.sh:5502` refuses). A run is an interpreter of the
script of its write mode, so each proof has two halves: what every script is like, and
what the interpreter makes of such a script.

* `ScriptShaped`: every script of every job inspects before it mounts or
  asks, asks for all passphrases before it releases the device, releases it before it
  writes anything, and closes each mapping it opens. Scripts are concatenations over
  the partitions of a layout of any length (`FlattenSeq`); what a concatenation contains, and in which
  order, is shown by the least prefix for which it fails.
* `Invariance`: `IInv`, the interpreter over any script of that shape. `OnScript` ties
  script and position to the job; `KeptInv` says that what has been held since
  before the first run is untouched, and that nothing of the kind is left once the device is released;
  `KeysInv` that the passphrases asked for so far are in their files and nothing
  is erased before the release; `LeftInv` that what the writer
  holds lies under its temporary root, and that what it has opened it has
  still to close. None of the three properties is inductive: they speak of the moment of
  an erasure or of the end of a run.
* `HeldSurvive`, `PassphrasesAsked` and `NothingLeft`: `HeldFilesystemsSurvive`,
  `PassphrasesFirst` and `NothingLeftBehind` follow.
* `FinishedSticks`: what is on a partition at the end depends on the whole script, and on
  everything that happened to the stick since a step was made, so `FInv` relates
  the two. `Since(A, n, bad)` says that the script has passed a step of `A` and none since
  that undoes it for partition `n`: a partition is undone by a format or an image of its own, by
  a release and by a new label (`Spoiling`), a mount by less (`Dropping`). `Stands(n)` says what
  the stick then has: the partition, its content, its files. What the desktop does
  changes none of it, and a failed attempt stays on its step. `ScriptSound` is the other half: in every script of a
  build, `Leads` (each partition is made, then formatted, then filled while mounted, and nothing
  later undoes it) and `Names` (each one the menu names is located after its last format, and the
  menu rendered after the last location). It is shown by parts: `Work` is
  what a part of a script makes, fills, locates and touches, and `WorkJoined` what
  two parts do one after the other if the second spares what the first has done.
  That every role of a layout has one number (`Spread`) is why the parts of two systems
  do not touch the same partition.
  `StickInvariance` puts the halves together: `FInv` is invariant for all plans but the updates that release
  the device (`InPlan`), of which `FinishedStick` says nothing; the [finding](#findings)
  describes what becomes of those.

Left to TLC: the four invariants of `BootMenu` (their content is what
recursive functions over text and stacks compute for every input, and the provers
have no induction over data; a least counterexample takes its place where a theorem above
needed one), and the liveness part of `ImplementsReviewedWrite` and of
`ImplementsPublication`, `LeaseEnds` and `UnattendedEnds` (liveness under fairness
and ENABLED are outside the prover's reach).


## Findings

One disagreement between the code and what the repository says of it is kept as
a run that TLC must find violated: `usb_update` (`UpdateKeepsPartitions`). The
updates of a single system and of a shared store release the device with the
function that also erases the signatures of its partitions, unless wipefs is missing or
fails on them. `PROJECT.json` quotes the lines.

These were met while modelling and are documented here only; where a property
would run into one, the property says what it leaves out (`README.md` is the
repository's):

* A process that dies between putting a payload in place and writing the
  `.source-url` beside it (`downloads.py:266`) leaves a pair that disagrees;
  with the configuration set back, the next call returns the payload of the
  other URL as current. `README.md:50`: "do not reuse a cached payload
  associated with another URL". `ReviewedBytes` is about calls that were not
  cut short.
* Adding packages to a live image with two kernels copies one kernel's initrd
  over the members of both (`rebuild_iso.py:1377`; remasters say at 1451 "never
  copy the first ABI's initrd over a different kernel"). After that action
  `RebuiltEntriesBoot` is about the live entry that was chosen.
* An installer image with Live content is rejected after it was copied over the
  output path (`build_iso.py:261`, the check is at 265), and stays there without a
  manifest. `README.md:83`: "rejects any Netinst result containing `/live` … instead of
  publishing it as Netinst media". `PublishedImageChecked` promises of an installer
  image that it has no manifest until it has passed.
* `boot_render.py:689-699` removes every locator from an entry of kind `verify`
  and adds none, though `_attach_iso_store_metadata` (1325-1347) makes it boot
  from a looped ISO; `README.md:52` and `:269` promise each such entry its own.
  `OneSourceEach` is about Live and installer entries.
* With raw ISO payloads, a custom menu and preserved entries, Kali Purple's
  initrd is listed twice and the second staging extracts the unpatched original
  again (against `README.md:269`). `EntriesBootStagedFiles` leaves the patch of
  such plans out.
* Custom live variants carry the label of the configuration, not the plan's
  (`README.md:455`, `:468`), and copying to RAM always names
  `filesystem.squashfs`, not the module that was detected (`README.md:52`,
  `:431`). `PersistencePlaces` states the configured label for those variants,
  which for a plan with a label of its own is not the one its partition gets.
* The name of a plan has a granularity of one second
  (`planned_executions.go:61`: the layout has no `.` in front of its zeros), so
  two sessions that create plans of a kind in the same second share a file, and the second
  review overwrites the plan of the first (against `README.md:417`). `ReviewsKeepPlans` leaves out ids that
  were given out twice; without that clause TLC finds the collision.
* A local source is validated when it is materialised
  (`prepare_sources.go:41`), and its bytes are read when the writer runs;
  `source_selection.go:13` says "Local file metadata guards against accidental
  replacement during a long build". `ReplaceFile` in `PlanExecution` can strike
  in between, so no property claims the reviewed bytes for a plain path.
* `rebuild_debian_installer_iso` removes an existing output before xorriso
  writes the new one (`rebuild_iso.py:1150`): a failing xorriso loses it, where
  remasters publish by renaming.

And observations that contradict nothing the repository says: a kill between
the two renames of `prepare_installer_profiles` makes the next
`ensure-installer-profiles` rebuild the copies without the overlay and preseed
they had; a bundle whose build died just before `_finalize_bundle_access` is
accepted although it still belongs to root; three kernel rebuilds of versions
A, B, A in one room give the third B's checkout, the newest, and two revisions of one
upstream version unpack into the same directory (`Disturbed` in `BuildIso`); a saved
plan that cannot be written by renaming is copied in place by `sudo`, in a directory the
user may write to as well, so a death then leaves a file that makes the whole list
unreadable (`copied` in `PlanStore`); a session that comes back from a long
run writes its old copy over what another has edited or recorded, and brings back a plan another
has deleted (`stale`); a plan's source overlay is ignored when its only rebuilds are
source packages, and is applied before the automatic kernel rebuild is added;
local udebs are left out of `pkg-lists/local` as soon as a rebuild adds a
line to it; a kernel package that was downloaded and not unpacked is never
unpacked later (`Stranded` in `KernelSupport`).


## What is not modelled

* The text of menus, scripts and manifests. Overlays of a rebuild are merged with the
  files that decide something (module lists, configuration, control, rules, maintainer
  files); one that brings `debian/changelog`, and so another version, is not modelled.
* Sizes: partition sizes and free space.
* In `PlanExecution`: what a helper does inside; see the other modules.
* In `LiveRemaster`: what becomes of an `/etc/resolv.conf` that is a symlink (the
  model has the step; `PublishedRootClean` leaves such sources out, as the restore
  may remove the link itself); the temporary APT root that
  `rmtree(ignore_errors=True)` may leave; the text of the hooks.
* In `UsbWriter`: passphrase files after a `SIGKILL` (nothing can remove them);
  plans that mix layouts per item in the raw flow; inspection-only commands.
* In `IsoRebuild`: what `LiveRemaster` says about the chroot; a version whose name is
  part of another one's (`NamesAssumption`; the code looks for the text of the version in file names).
* In `InitrdArchive`: archives with a compressed segment behind the main one.
  The code would read it as part of the same stream; nothing says it is
  supported.
* In `InstallerBundle`: profiles without Desktop and Server copies, and several
  runs at once on one directory (names carry a microsecond timestamp).
* In `BuildIso`: runs at the same time; more than one kernel version in the
  cache; several versions of a package in apt's index; what the hooks in the
  configuration directory do; the questions of `build_iso.go`.
* In `BootMenu`: the renderer of single-system sticks (`render_managed_grub`,
  `boot_render.py` 3787-4082), the extracted and ISO-store layouts, the menu
  kinds used only when the fixed menu is empty, ISOs that set `isofile`
  themselves, data-partition copies of the boot assets (not used under Secure
  Boot). The inspection of a medium is one refusal per item. What valid plans
  cannot reach is left out: entries of a family that ask for a preseed, and
  `skip_duplicate_fixed_netinst`.
* The components marked `not_modelled` in `PROJECT.json`, with the reason there:
  they ask questions, list facts, or are one pass over files without a state
  that a later step depends on. The configuration store and the secret store are
  the two with a state of their own: both are single read-change-write cycles on
  one file, and the lost update between two sessions is a hazard without a
  property, as the code takes no lock and promises nothing about it.


## How it grew, and what could follow

In this order: `PlanExecution` and its refinement, `LiveRemaster`,
`DownloadCache`, `PlanStore`, `SudoLease`, `UsbWriter`, `IsoRebuild`,
`InitrdArchive`, `InstallerBundle`, the first three proof modules, `BuildIso` with
its parts, `BootMenu` with its parts, and the later proof modules.

The runs are kept few: a new component joins a run it interacts with, or takes
the place of a run whose theorem makes it redundant.

1. `UsbLayout`: the capacity rules of `planner.go`, `multios.py` and
   `write_usb.sh` as operators, with the theorem that a plan accepted by the
   planners fits on the device the writer lays out.
2. The single-system renderer and the remaining layouts, in `BootMenu`.
3. `ConfigStore`: load, change and save of `config.json` by Go sessions and the
   Python side; composed with `DownloadCache` (whose `EditConfig` it refines).
4. `MultiOsReview`: what the wizards of `multios.go` and `create.go` may confirm,
   which is the set `Plans` of `PlanExecution`.
