------------------------------ MODULE UsbWriter ------------------------------
(***************************************************************************)
(* The USB writer (write_usb.sh): every write mode is a script of steps on *)
(* one device.  Destructive steps first release the device and try again a *)
(* few times; a desktop session may mount what it recognises and hold it   *)
(* open at any moment; a step may fail, which runs the exit traps, and the *)
(* process may be killed and the same plan run again.                      *)
(***************************************************************************)
EXTENDS Naturals, Sequences, FiniteSets, SequencesExt

CONSTANTS Jobs,       \* the write modes and plans considered
          MaxTries,   \* release and mkfs attempts (5 in the code, 3 for dd)
          MaxLabels,  \* mklabel attempts (3 in the code)
          MaxUnwiped, \* bound on partitions that one wipefs of many fails on
          MaxMeddling,\* bound on what the desktop session does
          MaxRuns     \* bound on runs of the plan

VARIABLES job,        \* the plan
          layout,     \* the role of each of its partitions, in number order
          script,     \* the steps of its write mode
          at,         \* the step of its script
          sub,        \* where inside the step
          tries, labels, \* attempts of the step
          phase,      \* "run", the traps' "cleanup" and "leave", or the end
          table,      \* partition numbers in the table on the device
          present,    \* those the kernel knows
          content,    \* what each of them holds
          staged,     \* partitions whose files were copied since their format
          mounts,     \* <<partition, owner>>
          held,       \* mounts in which some process has a file open
          mapped,     \* partitions with an open dm-crypt mapping
          keys,       \* partitions whose passphrase is in a file
          temp,       \* does the temporary root exist?
          located,    \* partitions whose identifier was read since their format
          rendered,   \* those the rendered menu refers to
          menu,       \* those the menu on the device refers to
          wiped,      \* has this run begun to erase the device's signatures?
          kept,       \* mounts held open since before the first run
          meddled, runs

vars == <<job, layout, script, at, sub, tries, labels, phase, table, present, content, staged, mounts, held, mapped,
          keys, temp, located, rendered, menu, wiped, kept, meddled, runs>>
control == <<at, sub, tries, labels, phase>>
device == <<table, present, content, staged, menu, wiped>>
host == <<mounts, held, mapped>>
files == <<keys, temp, located, rendered>>
given == <<job, layout, script, kept, meddled, runs>>

-----------------------------------------------------------------------------
(* Layouts: the role of each partition, in number order.                   *)

\* An item is one operating system of the plan.
ItemType == [class : {"live", "installer"}, persist : {"none", "bare", "plain", "encrypted"}]
JobType ==
  [flow : {"direct", "single", "managed", "shared", "raw"}, update : BOOLEAN,
   items : Seq(ItemType), split : BOOLEAN, first : BOOLEAN, payload : {"raw-iso", "store"}]

ASSUME BoundsAssumption ==
  /\ \A j \in Jobs : j \in JobType
  /\ {MaxTries, MaxLabels, MaxRuns} \subseteq Nat \ {0} /\ {MaxUnwiped, MaxMeddling} \subseteq Nat
\* Updates are of sticks with a menu: a direct write refuses the flag (main).
ASSUME UpdateAssumption == \A j \in Jobs : j.update => j.flow # "direct"

Each(seq, F(_)) == FlattenSeq([k \in DOMAIN seq |-> F(seq[k])])
Indices == [i \in DOMAIN job.items |-> i]
Persists == LET Asked(i) == IF job.items[i].persist = "none" THEN <<>> ELSE <<<<"persist", i>>>>
            IN  Each(Indices, Asked)
Payloads(class) == LET In(i) == IF job.items[i].class = class THEN <<<<"payload", i>>>> ELSE <<>>
                   IN  Each(Indices, In)
Esp == <<"esp", 0>>
Data == <<"data", 0>>
Bios == <<"bios", 0>>

SingleLayout == IF job.split THEN <<Esp, Data, Bios>> ELSE <<Bios, Esp, Data>>
ManagedLayout ==
  (IF job.first THEN <<<<"payload", 1>>, Esp>> ELSE <<Esp, <<"payload", 1>>>>) \o Persists
SharedLayout == <<Esp, Data>> \o Persists
\* Installers come first, so that no media scan finds a live image before them.
RawLayout ==
  LET images == Payloads("installer") \o Payloads("live")
  IN  (IF job.first THEN images \o <<Esp>> ELSE <<Esp>> \o images) \o Persists

\* In direct mode the image brings its own table; <<"other", 0>> stands for what
\* was on the device before.
Layout == CASE job.flow = "direct" -> <<<<"other", 0>>>>
            [] job.flow = "single" -> SingleLayout
            [] job.flow = "managed" -> ManagedLayout
            [] job.flow = "shared" -> SharedLayout
            [] job.flow = "raw" -> RawLayout

Numbers == DOMAIN layout
Number(role) == CHOOSE n \in Numbers : layout[n] = role
InOrder == [n \in Numbers |-> n]
Persistence(n) == job.items[layout[n][2]].persist
Encrypted == {n \in Numbers : layout[n][1] = "persist" /\ Persistence(n) = "encrypted"}
\* The partition with grub.cfg on it.
MenuPart == Number(IF job.flow = "single" THEN Data ELSE Esp)
\* The partitions the menu has to name.
MenuNames == {n \in Numbers : layout[n][1] \in {"esp", "data", "payload"}}

-----------------------------------------------------------------------------
(* Scripts.                                                                *)

S(op, n) == [op |-> op, n |-> n, luks |-> FALSE]
L(op, n) == [op |-> op, n |-> n, luks |-> TRUE]

\* duw_configure_persistence_partition and its encrypted counterpart, which
\* has a trap of its own.
Persist(n) ==
  CASE Persistence(n) = "bare" -> <<S("ext4", n)>>
    [] Persistence(n) = "plain" -> <<S("ext4", n), S("mount", n), S("stage", n), S("umount", n)>>
    [] Persistence(n) = "encrypted" ->
         <<L("stale", n), L("luks", n), L("open", n), L("ext4", n), L("mount", n), L("stage", n),
           L("umount", n), L("close", n)>>
PersistAll == LET One(n) == IF layout[n][1] = "persist" THEN Persist(n) ELSE <<>>
              IN  Each(InOrder, One)

\* Broken variant: passphrases are asked for when they are needed.
PreludeAsksLate ==
  LET Key(n) == IF n \in Encrypted THEN <<S("key", n)>> ELSE <<>>
      Make(n) == <<S("mkpart", n)>>
      Wait(n) == IF layout[n] = Bios THEN <<>> ELSE <<S("wait", n)>>
  IN  <<S("inspect", 0), S("release", 0), S("label", 0)>>
        \o Each(InOrder, Make) \o Each(InOrder, Wait) \o Each(InOrder, Key)

\* Passphrases, then the table, then the nodes of the new partitions.
Prelude ==
  LET Key(n) == IF n \in Encrypted THEN <<S("key", n)>> ELSE <<>>
      Make(n) == <<S("mkpart", n)>>
      Wait(n) == IF layout[n] = Bios THEN <<>> ELSE <<S("wait", n)>>
  IN  <<S("inspect", 0)>> \o Each(InOrder, Key) \o <<S("release", 0), S("label", 0)>>
        \o Each(InOrder, Make) \o Each(InOrder, Wait)

DirectScript == <<S("inspect", 0), S("release", 0), S("dddisk", 0)>>

Ending == <<S("config", MenuPart), S("finalize", 0)>>

SingleScript ==
  LET e == Number(Esp) d == Number(Data)
  IN  Prelude \o
      <<S("vfat", e), S("ext4", d), S("locate", e), S("locate", d), S("mount", d), S("mount", e),
        S("stage", e), S("render", 0), S("stage", d)>> \o Ending

SharedScript ==
  LET e == Number(Esp) d == Number(Data)
  IN  Prelude \o
      <<S("vfat", e), S("ext4", d), S("locate", e), S("locate", d), S("mount", d), S("mount", e),
        S("stage", e)>> \o PersistAll \o <<S("render", 0), S("stage", d)>> \o Ending

\* Broken variant: the menu is rendered before the payload is written.
ManagedScriptRendersEarly ==
  LET e == Number(Esp) p == Number(<<"payload", 1>>)
  IN  Prelude \o <<S("vfat", e), S("locate", e), S("mount", e), S("stage", e)>>
      \o PersistAll \o <<S("render", 0)>>
      \o (IF job.payload = "raw-iso" THEN <<S("dd", p)>>
          ELSE <<S("ext4", p), S("mount", p), S("stage", p)>>)
      \o <<S("locate", p)>> \o Ending

ManagedScript ==
  LET e == Number(Esp) p == Number(<<"payload", 1>>)
  IN  Prelude \o <<S("vfat", e), S("locate", e), S("mount", e), S("stage", e)>>
      \o PersistAll
      \o (IF job.payload = "raw-iso" THEN <<S("dd", p)>>
          ELSE <<S("ext4", p), S("mount", p)>>)
      \o <<S("locate", p), S("render", 0)>>
      \o (IF job.payload = "store" THEN <<S("stage", p)>> ELSE <<>>) \o Ending

RawScript ==
  LET e == Number(Esp)
      Write(i) == LET p == Number(<<"payload", i>>)
                  IN  <<S(IF job.payload = "raw-iso" THEN "dd" ELSE "ext4", p), S("locate", p)>>
      Copy(i) == LET p == Number(<<"payload", i>>)
                 IN  IF job.payload = "store" THEN <<S("mount", p), S("stage", p)>> ELSE <<>>
  IN  Prelude \o <<S("vfat", e), S("locate", e), S("mount", e), S("stage", e)>>
      \o PersistAll \o Each(Indices, Write) \o <<S("render", 0)>>
      \o Each(Indices, Copy) \o Ending

\* The update paths of one system look the partitions up by their labels ...
UpdateManagedScript ==
  LET e == Number(Esp)
      p == Number(IF job.flow = "single" THEN Data ELSE <<"payload", 1>>)
      First == IF job.split THEN <<S("find", p)>> ELSE <<>>
  IN  First \o <<S("inspect", 0), S("release", 0), S("find", e), S("mount", e), S("stage", e),
        S("locate", e), S("find", p)>>
      \o (IF job.flow = "managed" /\ job.payload = "raw-iso" THEN <<>> ELSE <<S("mount", p)>>)
      \o <<S("locate", p), S("render", 0)>>
      \o (IF job.flow = "managed" /\ job.payload = "raw-iso" THEN <<>> ELSE <<S("stage", p)>>)
      \o Ending
\* ... those of a shared store by their numbers ...
UpdateSharedScript ==
  LET e == Number(Esp) d == Number(Data)
  IN  <<S("inspect", 0), S("release", 0), S("wait", e), S("wait", d), S("mount", e),
        S("mount", d), S("stage", e), S("locate", e), S("locate", d), S("render", 0),
        S("stage", d)>> \o Ending

\* ... and those of several raw images are found without releasing anything.
UpdateRawScript ==
  LET e == Number(Esp)
      Look(i) == LET p == Number(<<"payload", i>>) IN <<S("find", p), S("locate", p)>>
  IN  <<S("inspect", 0), S("find", e), S("mount", e), S("stage", e), S("locate", e)>>
      \o Each(Indices, Look) \o <<S("render", 0)>> \o Ending

\* main's dispatch
Script ==
  CASE job.flow = "direct" -> DirectScript
    [] job.update /\ job.flow \in {"single", "managed"} -> UpdateManagedScript
    [] job.update /\ job.flow = "shared" -> UpdateSharedScript
    [] job.update /\ job.flow = "raw" -> UpdateRawScript
    [] ~job.update /\ job.flow = "single" -> SingleScript
    [] ~job.update /\ job.flow = "managed" -> ManagedScript
    [] ~job.update /\ job.flow = "shared" -> SharedScript
    [] ~job.update /\ job.flow = "raw" -> RawScript

Step == script[at]

Init ==
  /\ job \in Jobs /\ layout = Layout /\ script = Script
  /\ at = 1 /\ sub = "start" /\ tries = 1 /\ labels = 1 /\ phase = "run"
  /\ table = Numbers /\ present = Numbers  \* an earlier stick of the same shape
  /\ content = [n \in Numbers |-> "old"]
  /\ staged = Numbers
  /\ mounts \in SUBSET {<<n, "desktop">> : n \in Numbers \cap {1, 2}}
  /\ held \in SUBSET mounts
  /\ mapped = {} /\ keys = {} /\ temp = FALSE
  /\ located = {} /\ rendered = {}
  /\ menu = MenuNames
  /\ wiped = FALSE
  /\ kept = held
  /\ meddled = 0 /\ runs = 1

On(n) == {m \in mounts : m[1] = n}
Ours == {m \in mounts : m[2] = "writer"}
Readable(n) == \/ content[n] \in {"old", "residue", "vfat", "ext4", "iso"}
               \/ content[n] = "cryptext4" /\ n \in mapped

-----------------------------------------------------------------------------
(* The desktop session, and processes with open files.                     *)

Automount(n) ==
  /\ meddled < MaxMeddling /\ n \in present /\ Readable(n) /\ <<n, "desktop">> \notin mounts
  /\ mounts' = mounts \cup {<<n, "desktop">>}
  /\ meddled' = meddled + 1
  /\ UNCHANGED <<job, layout, script, kept, runs, control, device, held, mapped, files>>

Hold(m) ==
  /\ meddled < MaxMeddling /\ m \in mounts \ held
  /\ held' = held \cup {m}
  /\ meddled' = meddled + 1
  /\ UNCHANGED <<job, layout, script, kept, runs, control, device, mounts, mapped, files>>

LetGo(m) ==
  /\ m \in held
  /\ held' = held \ {m} /\ kept' = kept \ {m}
  /\ UNCHANGED <<job, layout, script, meddled, runs, control, device, mounts, mapped, files>>

-----------------------------------------------------------------------------
(* Going from step to step.                                                *)

AtStep(ops) == phase = "run" /\ Step.op \in ops
Advance ==
  /\ sub' = "start" /\ tries' = 1 /\ labels' = 1
  /\ IF at < Len(script) THEN at' = at + 1 /\ UNCHANGED phase
     ELSE phase' = "done" /\ UNCHANGED at
Within(label) == sub' = label /\ UNCHANGED <<at, tries, labels, phase>>
Die == phase' = "cleanup" /\ UNCHANGED <<at, sub, tries, labels>>

\* Broken variant: the device is waited for as long as it takes.
RetryForever == sub' = "start" /\ UNCHANGED <<at, tries, labels, phase>>

Retry == IF tries < MaxTries
         THEN sub' = "start" /\ tries' = tries + 1 /\ UNCHANGED <<at, labels, phase>>
         ELSE Die

\* set -e: any step may fail before it has done anything.
Fail == phase = "run" /\ Die /\ UNCHANGED <<given, device, host, files>>

Kill ==
  /\ phase \in {"run", "cleanup", "leave"}
  /\ phase' = "killed"
  /\ UNCHANGED <<given, at, sub, tries, labels, device, host, files>>

\* The same plan is run again; what the last run left mounted is still there.
RunAgain ==
  /\ phase \in {"failed", "killed"} /\ runs < MaxRuns
  /\ LET Orphan(set) == {IF m[2] = "writer" THEN <<m[1], "stale">> ELSE m : m \in set}
     IN  mounts' = Orphan(mounts) /\ held' = Orphan(held)
  /\ at' = 1 /\ sub' = "start" /\ tries' = 1 /\ labels' = 1 /\ phase' = "run"
  /\ keys' = {} /\ temp' = FALSE /\ located' = {} /\ rendered' = {} /\ wiped' = FALSE
  /\ runs' = runs + 1
  /\ UNCHANGED <<job, layout, script, kept, meddled, mapped, table, present, content, staged, menu>>

-----------------------------------------------------------------------------
(* Releasing the device: duw_unmount_device_children.                      *)

Releasing == AtStep({"release", "label"})
Free == mounts = {} /\ mapped = {}

\* Everything that nobody holds is unmounted, every mapping over it closed.
ReleaseMounts ==
  /\ Releasing /\ sub = "start"
  /\ mounts' = held
  /\ mapped' = {n \in mapped : On(n) \cap held # {}}
  /\ Within("check")
  /\ UNCHANGED <<given, held, device, files>>

\* Broken variant: the last attempt is taken for a success.
CheckUseOnce ==
  /\ Releasing /\ sub = "check"
  /\ IF Free \/ tries = MaxTries THEN Within("scrub") ELSE Retry
  /\ UNCHANGED <<given, device, host, files>>

CheckUse ==
  /\ Releasing /\ sub = "check"
  /\ IF Free THEN Within("scrub") ELSE Retry
  /\ UNCHANGED <<given, device, host, files>>

\* wipefs -a -f on every partition and on the device, whose table goes as well;
\* a missing wipefs is skipped, and where it fails the signatures stay.
Scrub ==
  /\ Releasing /\ sub = "scrub"
  /\ \E lost \in SUBSET Numbers :
       /\ \/ lost = {} /\ UNCHANGED table
          \/ Cardinality(Numbers \ lost) <= MaxUnwiped /\ table' \in {table, {}}
       /\ content' = [n \in Numbers |-> IF n \in lost THEN "none" ELSE content[n]]
       /\ staged' = staged \ lost /\ located' = located \ lost /\ rendered' = rendered \ lost
       /\ menu' = IF menu # {} /\ MenuPart \in lost THEN {} ELSE menu \ lost
  /\ wiped' = TRUE
  /\ Within("reset")
  /\ UNCHANGED <<given, host, present, keys, temp>>

\* duw_reset_partition_table_state: partx -d makes the kernel forget what is not in use,
\* --rereadpt and partprobe read the table; each may be missing or fail.
Reread ==
  LET used == {n \in present : On(n) # {}} IN present' \in {present, used, used \cup table}

ResetTable ==
  /\ Releasing /\ sub = "reset"
  /\ Reread
  /\ Within("recheck")
  /\ UNCHANGED <<given, host, table, content, staged, menu, wiped, files>>

RecheckUse ==
  /\ Releasing /\ sub = "recheck"
  /\ CASE ~Free -> Retry
       [] Free /\ Step.op = "release" -> Advance
       [] Free /\ Step.op = "label" -> Within("mklabel")
  /\ UNCHANGED <<given, device, host, files>>

\* parted refuses a device in use; a failure releases the device again.
MakeLabel ==
  /\ AtStep({"label"}) /\ sub = "mklabel"
  /\ \/ mounts = {} /\ table' = {} /\ present' = {} /\ Advance
     \/ /\ UNCHANGED <<table, present>>
        /\ IF labels < MaxLabels
           THEN labels' = labels + 1 /\ sub' = "start" /\ tries' = 1 /\ UNCHANGED <<at, phase>>
           ELSE Die
  /\ UNCHANGED <<given, host, content, staged, menu, wiped, files>>

\* A new partition shows what lay at its place: "residue" may or may not be a
\* file system that can be mounted.
MakePartition ==
  /\ AtStep({"mkpart"})
  /\ table' = table \cup {Step.n} /\ present' = present \cup {Step.n}
  /\ content' = [content EXCEPT ![Step.n] = "residue"]
  /\ Advance
  /\ UNCHANGED <<given, host, staged, menu, wiped, files>>

\* While the node is missing the device is released, without erasing anything, and
\* the kernel's view of the table is made anew.
WaitForPartition ==
  /\ AtStep({"wait"})
  /\ \/ Step.n \in present /\ Advance /\ UNCHANGED <<present, mounts, mapped>>
     \/ /\ mounts' = held /\ mapped' = {n \in mapped : On(n) \cap held # {}}
        /\ IF held = {} THEN present' \in {present, {}, table} /\ Retry
           ELSE Die /\ UNCHANGED present
  /\ UNCHANGED <<given, held, table, content, staged, menu, wiped, files>>

-----------------------------------------------------------------------------
(* Formatting and writing one partition.                                   *)

Formatting == AtStep({"vfat", "ext4", "dd"})
Made == CASE Step.op = "dd" -> "iso" [] Step.op = "vfat" -> "vfat"
          [] Step.op = "ext4" -> IF Step.luks THEN "cryptext4" ELSE "ext4"

\* What was known of a partition is void once it is written.
Overwrite(n, what) ==
  /\ content' = [content EXCEPT ![n] = what]
  /\ staged' = staged \ {n} /\ located' = located \ {n} /\ rendered' = rendered \ {n}
  /\ menu' = IF n = MenuPart THEN {} ELSE menu \ {n}

\* duw_prepare_block_path_for_write: only this partition's mounts go.
Prepare ==
  /\ Formatting /\ sub = "start"
  /\ IF On(Step.n) \cap held # {} THEN Die /\ UNCHANGED <<mounts, mapped>>
     ELSE /\ mounts' = mounts \ On(Step.n)
          /\ mapped' = IF Step.luks THEN mapped ELSE mapped \ {Step.n}
          /\ Within("wipe")
  /\ UNCHANGED <<given, held, device, files>>

Wipe ==
  /\ Formatting /\ sub = "wipe"
  /\ Overwrite(Step.n, IF Step.luks THEN "luks" ELSE "none")
  /\ Within("make")
  /\ UNCHANGED <<given, host, table, present, wiped, keys, temp>>

\* mkfs refuses a mounted partition, dd does not, and both need its node; a failure leaves a torn one.
Make ==
  /\ Formatting /\ sub = "make"
  /\ \/ /\ Step.n \in present /\ (On(Step.n) = {} \/ Step.op = "dd")
        /\ Overwrite(Step.n, Made) /\ Advance
     \/ Overwrite(Step.n, IF Step.luks THEN "luks" ELSE "residue") /\ Retry
  /\ UNCHANGED <<given, host, table, present, wiped, keys, temp>>

\* direct mode: the image is the device.
WriteDisk ==
  /\ AtStep({"dddisk"})
  /\ content' = [n \in Numbers |-> "iso"]
  /\ Advance
  /\ UNCHANGED <<given, table, present, staged, menu, wiped, host, files>>

LuksFormat ==
  /\ AtStep({"luks"}) /\ Step.n \in present /\ On(Step.n) = {} /\ Step.n \notin mapped
  /\ Overwrite(Step.n, "luks") /\ Advance
  /\ UNCHANGED <<given, host, table, present, wiped, keys, temp>>

\* duw_close_stale_mapper, and luksClose at the end
CloseMapping ==
  /\ AtStep({"stale", "close"})
  /\ IF Step.n \in mapped /\ On(Step.n) # {} THEN Die /\ UNCHANGED mapped
     ELSE mapped' = mapped \ {Step.n} /\ Advance
  /\ UNCHANGED <<given, mounts, held, device, files>>

OpenMapping ==
  /\ AtStep({"open"})
  /\ mapped' = mapped \cup {Step.n}
  /\ Advance
  /\ UNCHANGED <<given, mounts, held, device, files>>

-----------------------------------------------------------------------------
(* The other steps.                                                        *)

\* Options, media, sizes, a preflight rendering; the temporary root.
Inspect ==
  /\ AtStep({"inspect"})
  /\ temp' = (job.flow # "direct")
  /\ Advance
  /\ UNCHANGED <<given, device, host, keys, located, rendered>>

AskPassphrase ==
  /\ AtStep({"key"})
  /\ keys' = keys \cup {Step.n}
  /\ Advance
  /\ UNCHANGED <<given, device, host, temp, located, rendered>>

\* A partition is looked up by its label.
Find ==
  /\ AtStep({"find"})
  /\ IF Step.n \in present /\ content[Step.n] # "none" THEN Advance ELSE Die
  /\ UNCHANGED <<given, device, host, files>>

Mount ==
  /\ AtStep({"mount"})
  /\ IF Step.n \in present /\ Readable(Step.n)
     THEN mounts' = mounts \cup {<<Step.n, "writer">>} /\ Advance
     ELSE Die /\ UNCHANGED mounts
  /\ UNCHANGED <<given, held, mapped, device, files>>

Unmount ==
  /\ AtStep({"umount"})
  /\ IF <<Step.n, "writer">> \in mounts \ held
     THEN mounts' = mounts \ {<<Step.n, "writer">>} /\ Advance
     ELSE Die /\ UNCHANGED mounts
  /\ UNCHANGED <<given, held, mapped, device, files>>

\* Files go to the mount point, whatever is mounted there.
Stage ==
  /\ AtStep({"stage"})
  /\ staged' = IF <<Step.n, "writer">> \in mounts THEN staged \cup {Step.n} ELSE staged
  /\ Advance
  /\ UNCHANGED <<given, table, present, content, menu, wiped, host, files>>

Locate ==
  /\ AtStep({"locate"})
  /\ IF content[Step.n] # "none" THEN located' = located \cup {Step.n} /\ Advance
     ELSE Die /\ UNCHANGED located
  /\ UNCHANGED <<given, device, host, keys, temp, rendered>>

Render ==
  /\ AtStep({"render"})
  /\ rendered' = located
  /\ Advance
  /\ UNCHANGED <<given, device, host, keys, temp, located>>

\* grub-install, grub.cfg, its signature and the manifest
WriteMenu ==
  /\ AtStep({"config"})
  /\ IF <<Step.n, "writer">> \in mounts THEN menu' = rendered /\ Advance
     ELSE IF job.update THEN Advance /\ UNCHANGED menu
     ELSE Die /\ UNCHANGED menu
  /\ UNCHANGED <<given, table, present, content, staged, wiped, host, files>>

\* Broken variant: the temporary root goes whatever is still mounted in it.
FinalizeAnyway ==
  /\ AtStep({"finalize"})
  /\ mounts' = mounts \ (Ours \ held)
  /\ keys' = {} /\ temp' = FALSE /\ Advance
  /\ UNCHANGED <<given, held, mapped, device, located, rendered>>

\* duw_cleanup_temp_root_strict: nothing is removed while a mount remains.
Finalize ==
  /\ AtStep({"finalize"})
  /\ mounts' = mounts \ (Ours \ held)
  /\ IF Ours \cap held = {} THEN keys' = {} /\ temp' = FALSE /\ Advance
     ELSE Retry /\ UNCHANGED <<keys, temp>>
  /\ UNCHANGED <<given, held, mapped, device, located, rendered>>

-----------------------------------------------------------------------------
(* The exit traps.                                                         *)

\* cleanup_encrypted_persistence, best effort
CleanupLuks ==
  /\ phase = "cleanup"
  /\ phase' = "leave"
  /\ LET n == Step.n
     IN  IF Step.luks
         THEN /\ mounts' = mounts \ ({<<n, "writer">>} \ held)
              /\ mapped' = IF {m \in mounts' : m[1] = n} = {} THEN mapped \ {n} ELSE mapped
         ELSE UNCHANGED <<mounts, mapped>>
  /\ UNCHANGED <<given, at, sub, tries, labels, held, device, files>>

\* duw_cleanup_temp_root_best_effort
Leave ==
  /\ phase = "leave"
  /\ phase' = "failed"
  /\ mounts' = mounts \ (Ours \ held)
  /\ IF Ours \cap held = {} THEN keys' = {} /\ temp' = FALSE
     ELSE UNCHANGED <<keys, temp>>
  /\ UNCHANGED <<given, at, sub, tries, labels, held, mapped, device, located, rendered>>

-----------------------------------------------------------------------------
Release == ReleaseMounts \/ CheckUse \/ Scrub \/ ResetTable \/ RecheckUse \/ MakeLabel
Partition == MakePartition \/ WaitForPartition
Format == Prepare \/ Wipe \/ Make \/ WriteDisk \/ LuksFormat \/ CloseMapping \/ OpenMapping
Fill == Inspect \/ Find \/ Mount \/ Unmount \/ Stage \/ Locate \/ Render \/ WriteMenu \/ Finalize
Exit == CleanupLuks \/ Leave
\* What the writer does by itself, without an answer from the keyboard.
Unattended == Release \/ Partition \/ Format \/ Fill \/ Fail \/ Exit
Desktop == (\E n \in Numbers : Automount(n)) \/ (\E m \in mounts : Hold(m) \/ LetGo(m))
Next == Unattended \/ AskPassphrase \/ Kill \/ RunAgain \/ Desktop

Spec == Init /\ [][Next]_vars
\* The shell goes from command to command; neither the operator nor the desktop
\* session, nor a second run, is certain.
FairSpec == Spec /\ WF_vars(Unattended)

-----------------------------------------------------------------------------
(* Properties.                                                             *)

\* A file system that a process has had in use since before the first run is
\* never erased, whatever is retried, fails or is run again: the refusal of
\* "a forced or lazy unmount before destructive writes".
HeldFilesystemsSurvive == \A m \in kept : content[m[1]] = "old"

\* Nothing is erased before the operator has typed every passphrase, so that a
\* stick is not lost to a prompt nobody answers.  (An update encrypts nothing and
\* asks for nothing.)
PassphrasesFirst == phase = "run" /\ wiped /\ ~job.update => Encrypted \subseteq keys

Wanted(n) ==
  LET role == layout[n][1]
  IN  CASE job.update -> "old"
        [] ~job.update /\ role = "other" -> "iso"
        [] ~job.update /\ role = "esp" -> "vfat"
        [] ~job.update /\ role = "data" -> "ext4"
        [] ~job.update /\ role = "payload" ->
             IF job.payload = "raw-iso" THEN "iso" ELSE "ext4"
        [] ~job.update /\ role = "persist" ->
             IF Persistence(n) = "encrypted" THEN "cryptext4" ELSE "ext4"
        [] ~job.update /\ role = "bios" -> content[n]
Filled(n) ==
  LET role == layout[n][1]
  IN  \/ role \in {"esp", "data"}
      \/ role = "payload" /\ Wanted(n) = "ext4"
      \/ role = "persist" /\ Persistence(n) # "bare"

\* A writer that ends well leaves every partition of its layout in place with the
\* file system or image of its role, the ones with files filled since they
\* were formatted, and a menu that refers to each of them as it is now and
\* not as it was before it was last written.  (The updates that release the device
\* are left out: what wipefs erases of their stick stays erased.)
FinishedStick ==
  phase = "done" /\ (job.update => job.flow = "raw") =>
    /\ \A n \in Numbers : content[n] = Wanted(n)
    /\ job.flow # "direct" =>
         /\ Numbers \subseteq table
         /\ {n \in Numbers : Filled(n)} \subseteq staged
         /\ MenuNames \subseteq menu

\* Success leaves no mount of the writer, no open mapping and no passphrase file;
\* a failure leaves the workspace only under a mount it could not take down.
NothingLeftBehind ==
  /\ phase = "done" => Ours = {} /\ mapped = {} /\ keys = {} /\ ~temp
  /\ phase = "failed" => (temp <=> Ours # {}) /\ (keys # {} => temp)

\* "Refresh an existing managed USB without repartitioning": an update erases no
\* partition.
UpdateKeepsPartitions ==
  job.update => present = Numbers /\ \A n \in Numbers : content[n] = "old"

\* Once the device is erased the writer comes to an end, however long the desktop
\* session keeps a partition busy.
UnattendedEnds == wiped /\ phase = "run" ~> phase \in {"done", "failed", "killed"}

=============================================================================
