--------------------------- MODULE PlanExecution ---------------------------
(***************************************************************************)
(* The execution of one confirmed plan by the Go backend: executeCreate    *)
(* for a single source and executeMultiOSCreate for several, with          *)
(* verifyTargetDevice at both boundaries and prepareSelectedSource between *)
(* them.  The user may swap the disk behind the device path and replace a  *)
(* local source file at any moment.                                        *)
(***************************************************************************)
EXTENDS Naturals, Sequences

CONSTANTS Plans,        \* the confirmed plans considered
          Disks,        \* physical disks that may sit behind the device path
          NoDisk,       \* nothing is connected there
          Identities,   \* size, model, vendor, serial, transport, table id
          NoIdentity,   \* a legacy plan saved without its target device
          Ident,        \* the identity each disk reports
          Eligible      \* disks that are removable and not the system disk

VARIABLES plan,       \* the reviewed plan
          connected,  \* the disk behind the device path
          lateSwap,   \* was the disk swapped after the last check?
          files,      \* is the local file of each item still the reviewed one?
          pc,         \* where executeCreate / executeMultiOSCreate stands
          idx,        \* the plan item being handled
          cur,        \* the image prepareSelectedSource is working on
          exec,       \* the executable copy of the plan's items
          usb         \* what the writer was started with

vars == <<plan, connected, lateSwap, files, pc, idx, cur, exec, usb>>
envVars == <<connected, lateSwap, files>>

-----------------------------------------------------------------------------
(* Plans and images.                                                       *)

Profiles == {"debian", "kali", "ubuntu", "purple", "server", "tails"}
Roles == {"primary", "netinst", "netboot"}

\* groups "unset" is Go's nil slice, "none" an explicit empty selection.
ItemPlan ==
  [profile : Profiles, role : Roles, groups : {"unset", "none", "some"},
   groupsFit : BOOLEAN, encrypted : BOOLEAN, prep : BOOLEAN, overlay : BOOLEAN,
   live : BOOLEAN, local : BOOLEAN, inputsOk : BOOLEAN]

PlanType ==
  [mode : {"direct", "managed", "multi_os"}, items : Seq(ItemPlan),
   device : Identities \cup {NoIdentity}, samePath : BOOLEAN]

Inspection ==
  [live : BOOLEAN, installer : BOOLEAN, managed : BOOLEAN, luks : BOOLEAN]
NotInspected == [live |-> FALSE, installer |-> FALSE, managed |-> FALSE, luks |-> FALSE]

Bytes == {"reviewed", "replaced"}

\* A "source" image is only a path: its bytes are read when the writer runs.
Image ==
  [form : {"none", "source", "bundle", "remastered"}, bytes : Bytes,
   inspected : BOOLEAN, insp : Inspection, locator : {"none", "original", "remastered"}]
NoImage == [form |-> "none", bytes |-> "reviewed", inspected |-> FALSE,
            insp |-> NotInspected, locator |-> "none"]

NoUsb == [disk |-> NoDisk, payload |-> <<>>]

ASSUME PlansAssumption ==
  /\ Plans \subseteq PlanType
  /\ \A p \in Plans : Len(p.items) > 0 /\ (p.mode # "multi_os" => Len(p.items) = 1)
ASSUME DisksAssumption ==
  /\ NoDisk \notin Disks
  /\ Ident \in [Disks -> Identities]
  /\ Eligible \subseteq Disks
  /\ NoIdentity \notin Identities

Items == DOMAIN plan.items
item == plan.items[idx]

Init ==
  /\ plan \in Plans
  /\ connected \in Disks \cup {NoDisk}
  /\ lateSwap = FALSE
  /\ files = [i \in Items |-> "reviewed"]
  /\ pc = "check"
  /\ idx = 1
  /\ cur = NoImage
  /\ exec = [i \in Items |-> NoImage]
  /\ usb = NoUsb

-----------------------------------------------------------------------------
(* The environment.                                                        *)

\* USB hotplug: another disk, or none, appears behind the same path.
SwapDisk ==
  /\ usb = NoUsb
  /\ \E d \in (Disks \cup {NoDisk}) \ {connected} : connected' = d
  /\ lateSwap' = (lateSwap \/ pc = "launch")
  /\ UNCHANGED <<plan, files, pc, idx, cur, exec, usb>>

\* A local source file is overwritten by something else.
ReplaceFile ==
  /\ \E i \in Items : /\ plan.items[i].local
                      /\ files' = [files EXCEPT ![i] = "replaced"]
                      /\ files[i] = "reviewed"
  /\ usb = NoUsb
  /\ UNCHANGED <<plan, connected, lateSwap, pc, idx, cur, exec, usb>>

-----------------------------------------------------------------------------
(* The decisions of prepareSelectedSource, over item data only.            *)

GroupsAccepted(it) == it.groups = "some" => it.groupsFit

SupportsToolRemaster(it) == it.profile \in {"debian", "kali", "ubuntu"}

NeedsRemaster(it) ==
  \/ it.profile \in {"debian", "kali"}
  \/ (it.profile = "ubuntu" /\ it.groups # "none")

\* Debian and Kali fall back on the repository's default live overlay.
HasOverlay(it) == (it.prep /\ it.overlay) \/ it.profile \in {"debian", "kali"}

StockOnly(it) ==
  it.profile = "tails" /\ (it.encrypted \/ it.groups = "some" \/ (it.prep /\ it.overlay))

IsLive(it, img) == it.role = "primary" /\ IF it.prep THEN img.insp.live ELSE it.live

NeedCrypto(it, img) == it.encrypted /\ (~it.prep \/ ~img.insp.luks)

CryptoEligible(it, img) == IsLive(it, img) /\ it.profile \in {"debian", "kali"}

\* validateManagedSourceSelection
SelectionFits(it, in) ==
  /\ it.role # "primary" => in.installer /\ it.profile \in {"debian", "kali"}
  /\ it.role = "primary" /\ it.profile \in {"debian", "kali", "tails"} => in.live
  /\ it.role = "primary" /\ it.profile = "purple" => in.installer

\* SourceInput.validate: the size and mtime recorded with a local file
InputsValid(it, i) == it.inputsOk /\ (it.local => files[i] = "reviewed")

\* plannedPayloadISOName: the name GRUB searches for with findiso
IsoName(it, form) ==
  CASE it.role = "netboot" -> "none"
    [] it.role # "netboot" /\ form = "remastered" -> "remastered"
    [] it.role # "netboot" /\ form # "remastered" -> "original"
\* Only items of a multi-OS plan carry that name to the writer.
Named(it, img) ==
  IF plan.mode = "multi_os" THEN [img EXCEPT !.locator = IsoName(it, img.form)] ELSE img

-----------------------------------------------------------------------------
(* The program.                                                            *)

Goto(label) == pc' = label
Refuse == Goto("refused") /\ UNCHANGED <<plan, envVars, idx, cur, exec, usb>>

TargetMatches ==
  \/ plan.device = NoIdentity
  \/ (plan.samePath /\ connected \in Eligible /\ Ident[connected] = plan.device)

\* verifyTargetDevice, called before preparation and again before the writer;
\* a plan with a recorded device is also refused when ListDevices fails.
Verify(from, next) ==
  /\ pc = from
  /\ \/ TargetMatches /\ Goto(next)
     \/ plan.device # NoIdentity /\ Goto("refused")
  /\ UNCHANGED <<plan, envVars, idx, cur, exec, usb>>

\* Broken variant: the writer follows the preparation without a second look.
RecheckNothing ==
  /\ pc = "recheck"
  /\ Goto("launch")
  /\ UNCHANGED <<plan, envVars, idx, cur, exec, usb>>

CheckTarget == Verify("check", IF plan.mode = "multi_os" THEN "validate" ELSE "select")
RecheckTarget == Verify("recheck", "launch")

\* Every selected input is validated before the first one is prepared.
ValidateItem ==
  /\ pc = "validate"
  /\ item.prep => InputsValid(item, idx)
  /\ GroupsAccepted(item)
  /\ IF idx = Len(plan.items) THEN Goto("select") /\ idx' = 1
                              ELSE Goto("validate") /\ idx' = idx + 1
  /\ UNCHANGED <<plan, envVars, cur, exec, usb>>

RejectItem ==
  /\ pc = "validate"
  /\ ~ ((item.prep => InputsValid(item, idx)) /\ GroupsAccepted(item))
  /\ Refuse

Select ==
  /\ pc = "select"
  /\ ~StockOnly(item)
  /\ plan.mode # "direct" => GroupsAccepted(item)
  /\ Goto("materialize")
  /\ UNCHANGED <<plan, envVars, idx, cur, exec, usb>>

RejectSelection ==
  /\ pc = "select"
  /\ StockOnly(item) \/ (plan.mode # "direct" /\ ~GroupsAccepted(item))
  /\ Refuse

\* materializeSelectedSource up to resolveSourceInput of each input; a plan
\* without a preparation (p == nil) hands its path on.
Materialize ==
  /\ pc = "materialize"
  /\ item.prep => InputsValid(item, idx)
  /\ cur' = [NoImage EXCEPT !.form = "source"]
  /\ Goto(IF ~item.prep THEN "decide" ELSE IF item.role = "primary" THEN "inspect" ELSE "bundle")
  /\ UNCHANGED <<plan, envVars, idx, exec, usb>>

\* An input changed, a download or ensure-installer-profiles failed.
MaterializeFails ==
  /\ pc = "materialize"
  /\ \/ item.prep
     \/ (item.role # "primary" /\ item.profile \in {"debian", "kali"})
  /\ Refuse

\* PrepareManagedInstallerSource: preflight, then the privileged build
Bundle ==
  /\ pc = "bundle"
  /\ cur' = [cur EXCEPT !.form = "bundle", !.bytes = files[idx]]
  /\ Goto("inspect")
  /\ UNCHANGED <<plan, envVars, idx, exec, usb>>

\* A helper process reports an error: bundle build, inspection or remaster.
HelperFails == pc \in {"bundle", "inspect", "remaster", "reinspect"} /\ Refuse

Inspect ==
  /\ pc = "inspect"
  /\ \E in \in Inspection :
       /\ cur' = [cur EXCEPT !.inspected = TRUE, !.insp = in]
       /\ Goto(IF SelectionFits(item, in) /\ (plan.mode # "direct" => in.managed)
               THEN "decide" ELSE "refused")
  /\ UNCHANGED <<plan, envVars, idx, exec, usb>>

UnsupportedTools(it, img) ==
  it.groups = "some" /\ ~(IsLive(it, img) /\ SupportsToolRemaster(it))

\* Broken variant: without tools a live source needs nothing.
KeepWithoutTools ==
  /\ pc = "decide"
  /\ plan.mode = "direct" \/ item.groups # "some" \/ ~IsLive(item, cur)
  /\ Goto("store")
  /\ UNCHANGED <<plan, envVars, idx, cur, exec, usb>>

\* As-is stays as-is, and so does everything that is not live.
KeepSource ==
  /\ pc = "decide"
  /\ \/ plan.mode = "direct"
     \/ (~UnsupportedTools(item, cur) /\ ~IsLive(item, cur))
     \/ (/\ ~UnsupportedTools(item, cur)
         /\ ~NeedsRemaster(item) /\ ~HasOverlay(item) /\ ~NeedCrypto(item, cur))
  /\ Goto("store")
  /\ UNCHANGED <<plan, envVars, idx, cur, exec, usb>>

RejectRemaster ==
  /\ pc = "decide"
  /\ plan.mode # "direct"
  /\ \/ UnsupportedTools(item, cur)
     \/ (IsLive(item, cur) /\ NeedCrypto(item, cur) /\ ~CryptoEligible(item, cur))
  /\ Refuse

ChooseRemaster ==
  /\ pc = "decide"
  /\ plan.mode # "direct"
  /\ IsLive(item, cur)
  /\ ~UnsupportedTools(item, cur)
  /\ NeedCrypto(item, cur) => CryptoEligible(item, cur)
  /\ NeedsRemaster(item) \/ HasOverlay(item) \/ NeedCrypto(item, cur)
  /\ Goto("remaster")
  /\ UNCHANGED <<plan, envVars, idx, cur, exec, usb>>

\* remasterLiveSource: one pass over the source, into a new file
Remaster ==
  /\ pc = "remaster"
  /\ cur' = [NoImage EXCEPT !.form = "remastered", !.bytes = files[idx]]
  /\ Goto(IF item.prep \/ item.encrypted THEN "reinspect" ELSE "store")
  /\ UNCHANGED <<plan, envVars, idx, exec, usb>>

Reinspect ==
  /\ pc = "reinspect"
  /\ \E in \in Inspection :
       /\ cur' = [cur EXCEPT !.inspected = TRUE, !.insp = in]
       /\ Goto(IF SelectionFits(item, in) /\ in.managed /\ (item.encrypted => in.luks)
               THEN "store" ELSE "refused")
  /\ UNCHANGED <<plan, envVars, idx, exec, usb>>

\* Broken variants: the loop runs one item too far; the writer starts after the
\* first item.
StoreOneTooFar ==
  /\ pc = "store"
  /\ exec' = [exec EXCEPT ![idx] = Named(item, cur)]
  /\ cur' = NoImage
  /\ IF idx > Len(plan.items) THEN Goto("recheck") /\ idx' = idx
                              ELSE Goto("select") /\ idx' = idx + 1
  /\ UNCHANGED <<plan, envVars, usb>>
StoreFirstOnly ==
  /\ pc = "store"
  /\ exec' = [exec EXCEPT ![idx] = Named(item, cur)]
  /\ cur' = NoImage
  /\ Goto("recheck")
  /\ UNCHANGED <<plan, envVars, idx, usb>>

\* The executable copy gets the prepared path and GRUB's exact file name.
Store ==
  /\ pc = "store"
  /\ exec' = [exec EXCEPT ![idx] = Named(item, cur)]
  /\ cur' = NoImage
  /\ IF idx = Len(plan.items) THEN Goto("recheck") /\ idx' = idx
                              ELSE Goto("select") /\ idx' = idx + 1
  /\ UNCHANGED <<plan, envVars, usb>>

\* The bytes the writer reads for an item: a path is read now.
Staged(i) == IF exec[i].form = "source" THEN [exec[i] EXCEPT !.bytes = files[i]] ELSE exec[i]

Launch ==
  /\ pc = "launch"
  /\ connected # NoDisk
  /\ usb' = [disk |-> connected, payload |-> [i \in Items |-> Staged(i)]]
  /\ Goto("writing")
  /\ UNCHANGED <<plan, envVars, idx, cur, exec>>

\* The plan's temporary file or the writer cannot be started on a disk.
LaunchFails == pc = "launch" /\ Refuse

WriterEnds ==
  /\ pc = "writing"
  /\ \/ Goto("written")
     \/ Goto("damaged")
  /\ UNCHANGED <<plan, envVars, idx, cur, exec, usb>>

-----------------------------------------------------------------------------

Finished == pc \in {"refused", "written", "damaged"}
Idle == Finished /\ UNCHANGED vars

Prepare == Select \/ RejectSelection \/ Materialize \/ MaterializeFails \/ Bundle \/ Inspect
           \/ KeepSource \/ RejectRemaster \/ ChooseRemaster \/ Remaster \/ Reinspect
           \/ Store \/ HelperFails

Unattended == CheckTarget \/ ValidateItem \/ RejectItem \/ Prepare
              \/ RecheckTarget \/ Launch \/ LaunchFails

Next == Unattended \/ WriterEnds \/ SwapDisk \/ ReplaceFile \/ Idle

Spec == Init /\ [][Next]_vars
\* The steps up to the start of the writer ask nobody anything (their helpers
\* run under sudo -n) and end with a result, an error or a timeout.  The writer
\* asks for passphrases until it gets them: nothing says that it ends.
FairSpec == Spec /\ WF_vars(Unattended)

-----------------------------------------------------------------------------
(* Properties.                                                             *)

\* Types, and the program's position in the plan.
TypeOK ==
  /\ plan \in Plans
  /\ connected \in Disks \cup {NoDisk}
  /\ lateSwap \in BOOLEAN
  /\ files \in [Items -> Bytes]
  /\ pc \in {"check", "validate", "select", "materialize", "bundle", "inspect", "decide",
            "remaster", "reinspect", "store", "recheck", "launch", "writing",
            "refused", "written", "damaged"}
  /\ idx \in Items
  /\ cur \in Image
  /\ exec \in [Items -> Image]
  /\ \/ usb = NoUsb
     \/ usb \in [disk : Disks, payload : [Items -> Image]]

Launched == usb # NoUsb

\* The disk that is written reports the reviewed identity and is an eligible
\* external disk, unless it was swapped after the second check of
\* executeCreate / executeMultiOSCreate: hours of downloading and remastering
\* between review and write open no other window.
OnlyReviewedDisk ==
  Launched /\ plan.device # NoIdentity /\ ~lateSwap =>
    /\ Ident[usb.disk] = plan.device
    /\ usb.disk \in Eligible

\* "As-is really means as-is": a direct write, and Tails in any mode, gets the
\* selected image itself and never a remastered one.
StockImagesStayStock ==
  Launched => \A i \in Items :
    plan.mode = "direct" \/ plan.items[i].profile = "tails"
      => usb.payload[i].form # "remastered"

\* A managed Debian or Kali live system is always remastered (the mandatory
\* runtime policy), whatever tools, overlay or persistence were selected.
MandatoryPolicyApplied ==
  Launched /\ plan.mode # "direct" => \A i \in Items :
    LET it == plan.items[i] IN
    it.profile \in {"debian", "kali"} /\ it.role = "primary" /\ (it.prep \/ it.live)
      => usb.payload[i].form = "remastered"

\* Encrypted persistence is only set up for a live image whose last inspection
\* found cryptsetup/LUKS support, for every item of the plan.
EncryptedImagesInspected ==
  Launched /\ plan.mode # "direct" => \A i \in Items :
    LET it == plan.items[i]  img == usb.payload[i] IN
    it.encrypted /\ (img.form = "remastered" \/ IsLive(it, img)) => img.inspected /\ img.insp.luks

\* GRUB's exact findiso name is the name of the image that is staged.
LocatorMatchesImage ==
  Launched /\ plan.mode = "multi_os" => \A i \in Items :
    usb.payload[i].locator = IsoName(plan.items[i], usb.payload[i].form)

\* What every item owes to the plan, whatever the order of downloads, bundles,
\* remasters and inspections that prepared it.
PreparedAsReviewed ==
  /\ StockImagesStayStock
  /\ MandatoryPolicyApplied
  /\ EncryptedImagesInspected
  /\ LocatorMatchesImage

\* The program implements the promise of ReviewedWrite.
Stage == IF pc \in {"writing", "written", "damaged", "refused"} THEN pc ELSE "preparing"

RW == INSTANCE ReviewedWrite WITH
        wanted <- Len(plan.items), Images <- Image, stage <- Stage,
        target <- usb.disk, payload <- usb.payload

\* The device is untouched until all items are prepared, the writer runs at most
\* once, and every plan is refused or gets as far as its writer.
ImplementsReviewedWrite == RW!Spec
=============================================================================
