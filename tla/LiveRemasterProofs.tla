------------------------- MODULE LiveRemasterProofs -------------------------
(* What a live remaster publishes and leaves behind, for all jobs, initrd    *)
(* members and kernel versions, whatever step fails or is interrupted.       *)
EXTENDS LiveRemaster, TLAPS

\* The context stacks: of the package phase, and of mkinitramfs.
D == <<"deferred">>
SD == <<"service", "deferred">>
USD == <<"unmask", "service", "deferred">>
AUSD == <<"apt", "unmask", "service", "deferred">>
MAUSD == <<"mounted", "apt", "unmask", "service", "deferred">>
M == <<"mounted">>

Names == {"deferred", "service", "unmask", "apt", "mounted"}
Stacks == {<<>>, D, SD, USD, AUSD, MAUSD, M}

\* The stack that belongs to a step.
StackAt(label) ==
  CASE label \in {"divert", "alias", "shim", "deny"} -> {D}
    [] label = "lift" -> {SD}
    [] label = "aptconf" -> {USD}
    [] label = "mount" -> {AUSD, <<>>}
    [] label \in {"bind", "resolv"} -> {MAUSD, M}
    [] label \in {"update", "simulate", "install", "optional", "clean"} -> {MAUSD}
    [] label = "generate" -> {M}
    [] label = "unwind" -> Stacks \ {<<>>}
    [] label = "killed" -> Stacks
    [] OTHER -> {<<>>}

Labels == Body \cup {"unwind", "finally", "cleanup", "manifest", "done", "failed", "killed"}

StackInv ==
  /\ pc \in Labels
  /\ ctx \in StackAt(pc)
  /\ failed => pc \in {"unwind", "finally", "cleanup", "failed", "killed"}

Serving == {SD, USD, AUSD, MAUSD}
Lifting == {USD, AUSD, MAUSD}

-----------------------------------------------------------------------------

\* A stack whose tail is s is s with its head put on.
LEMMA Pushed ==
  ASSUME NEW S, NEW s \in Seq(S), NEW t \in Seq(S), t # <<>>, Tail(t) = s
  PROVE  <<Head(t)>> \o s = t
<1> DEFINE p == <<Head(t)>> \o s
<1>1. Len(t) = Len(s) + 1 /\ Len(s) \in Nat /\ DOMAIN s = 1 .. Len(s) /\ DOMAIN t = 1 .. Len(t)
  OBVIOUS
<1>2. \A i \in DOMAIN s : t[i + 1] = s[i]
  OBVIOUS
<1>3. Len(p) = Len(s) + 1 /\ p \in Seq(S)
  OBVIOUS
<1>4. \A i \in 1 .. Len(t) : p[i] = t[i]
  <2>1. p[1] = t[1]
    BY <1>1
  <2>2. \A i \in 2 .. Len(t) : p[i] = s[i - 1]
    BY <1>1
  <2>3. \A i \in 2 .. Len(t) : s[i - 1] = t[i]
    BY <1>1, <1>2
  <2> QED BY <1>1, <2>1, <2>2, <2>3
<1> QED BY <1>1, <1>3, <1>4

\* The stacks a remaster goes through, each with one frame more.
LEMMA StackShapes ==
  /\ <<"deferred">> \o <<>> = D /\ <<"service">> \o D = SD /\ <<"unmask">> \o SD = USD
  /\ <<"apt">> \o USD = AUSD /\ <<"mounted">> \o AUSD = MAUSD /\ <<"mounted">> \o <<>> = M
  /\ Tail(D) = <<>> /\ Tail(SD) = D /\ Tail(USD) = SD /\ Tail(AUSD) = USD /\ Tail(MAUSD) = AUSD /\ Tail(M) = <<>>
  /\ Head(D) = "deferred" /\ Head(SD) = "service" /\ Head(USD) = "unmask" /\ Head(AUSD) = "apt"
  /\ Head(MAUSD) = "mounted" /\ Head(M) = "mounted"
  /\ Len(D) = 1 /\ Len(SD) = 2 /\ Len(USD) = 3 /\ Len(AUSD) = 4 /\ Len(MAUSD) = 5 /\ Len(M) = 1
<1>1. /\ Tail(D) = <<>> /\ Tail(SD) = D /\ Tail(USD) = SD /\ Tail(AUSD) = USD /\ Tail(MAUSD) = AUSD
      /\ Tail(M) = <<>>
  BY DEF D, SD, USD, AUSD, MAUSD, M
<1>2. /\ Head(D) = "deferred" /\ Head(SD) = "service" /\ Head(USD) = "unmask" /\ Head(AUSD) = "apt"
      /\ Head(MAUSD) = "mounted" /\ Head(M) = "mounted"
  BY DEF D, SD, USD, AUSD, MAUSD, M
<1>3. /\ Len(D) = 1 /\ Len(SD) = 2 /\ Len(USD) = 3 /\ Len(AUSD) = 4 /\ Len(MAUSD) = 5 /\ Len(M) = 1
  BY DEF D, SD, USD, AUSD, MAUSD, M
<1>4. /\ D \in Seq(Names) /\ SD \in Seq(Names) /\ USD \in Seq(Names) /\ AUSD \in Seq(Names)
      /\ MAUSD \in Seq(Names) /\ M \in Seq(Names)
  BY DEF D, SD, USD, AUSD, MAUSD, M, Names
<1>5. <<>> \in Seq(Names)
  OBVIOUS
<1>6. D # <<>> /\ SD # <<>> /\ USD # <<>> /\ AUSD # <<>> /\ MAUSD # <<>> /\ M # <<>>
  BY <1>3
<1>7. <<"deferred">> \o <<>> = D
  BY DEF D
<1>8. <<"service">> \o D = SD
  <2>1. <<Head(SD)>> \o D = SD
    BY <1>1, <1>4, <1>6, Pushed
  <2> QED BY <1>2, <2>1
<1>9. <<"unmask">> \o SD = USD
  <2>1. <<Head(USD)>> \o SD = USD
    BY <1>1, <1>4, <1>6, Pushed
  <2> QED BY <1>2, <2>1
<1>10. <<"apt">> \o USD = AUSD
  <2>1. <<Head(AUSD)>> \o USD = AUSD
    BY <1>1, <1>4, <1>6, Pushed
  <2> QED BY <1>2, <2>1
<1>11. <<"mounted">> \o AUSD = MAUSD
  <2>1. <<Head(MAUSD)>> \o AUSD = MAUSD
    BY <1>1, <1>4, <1>6, Pushed
  <2> QED BY <1>2, <2>1
<1>12. <<"mounted">> \o <<>> = M
  BY DEF M
<1> QED BY <1>1, <1>2, <1>3, <1>7, <1>8, <1>9, <1>10, <1>11, <1>12

\* Which stacks an apt configuration lies in.
LEMMA AptInside ==
  /\ ctx = MAUSD => Inside("apt")
  /\ ctx = M => ~Inside("apt")
  /\ ctx = AUSD => Inside("apt")
  /\ ctx = <<>> => ~Inside("apt")
BY DEF Inside, MAUSD, AUSD, M

\* No two stacks are the same.
LEMMA StacksDiffer ==
  /\ D # <<>> /\ D # SD /\ D # USD /\ D # AUSD /\ D # MAUSD /\ D # M
  /\ SD # <<>> /\ SD # USD /\ SD # AUSD /\ SD # MAUSD /\ SD # M
  /\ USD # <<>> /\ USD # AUSD /\ USD # MAUSD /\ USD # M
  /\ AUSD # <<>> /\ AUSD # MAUSD /\ AUSD # M /\ MAUSD # <<>> /\ MAUSD # M /\ M # <<>>
BY StackShapes

-----------------------------------------------------------------------------
\* Steps that leave a context, and the one that raises while doing so.
LEMMA LeaveStep ==
  ASSUME StackInv, pc = "unwind", NEW raising, Leave(raising), ctx # <<>>
  PROVE  /\ StackInv'
         /\ ctx \in {D, SD, USD, AUSD, MAUSD, M} /\ ctx' = Tail(ctx)
<1>1. ctx \in {D, SD, USD, AUSD, MAUSD, M}
  BY DEF StackInv, StackAt, Stacks
<1>2. /\ failed' = raising /\ ctx' = Tail(ctx)
      /\ pc' = IF Len(ctx) > 1 THEN "unwind"
               ELSE IF raising THEN "finally"
               ELSE IF Top = "deferred" THEN "masks" ELSE "copy"
  BY DEF Leave, Goto
<1>3. CASE ctx \in {D, M}
  <2>1. ctx' = <<>> /\ Len(ctx) = 1
    BY <1>2, <1>3, StackShapes
  <2>2. pc' \in {"finally", "masks", "copy"} /\ (raising => pc' = "finally")
    BY <1>2, <2>1
  <2> QED BY <1>1, <1>2, <2>1, <2>2 DEF StackInv, StackAt, Labels, Body, After
<1>4. CASE ctx \in {SD, USD, AUSD, MAUSD}
  <2>1. ctx' \in {D, SD, USD, AUSD}
    BY <1>2, <1>4, StackShapes
  <2>2. (Len(ctx) > 1) = TRUE
    BY <1>4, StackShapes
  <2>3. pc' = "unwind"
    BY <1>2, <2>2
  <2> QED BY <1>1, <1>2, <2>1, <2>3, StacksDiffer DEF StackInv, StackAt, Labels, Stacks
<1> QED BY <1>1, <1>3, <1>4

\* Preparing the root pushes its frames in this order.
LEMMA PrepareStacks ==
  ASSUME StackInv, Prepare
  PROVE  StackInv'
<1>1. CASE Extract \/ StageRootPolicy \/ PlaceShim
  BY <1>1 DEF Extract, StageRootPolicy, PlaceShim, Goto, StackInv, StackAt, Labels, Body, After
<1>2. CASE Divert \/ DivertAlias
  BY <1>2, StacksDiffer DEF Divert, DivertAlias, Goto, StackInv, StackAt, Labels, Body, After, Stacks
<1>3. CASE Defer
  <2>1. pc = "defer" /\ ctx = <<>> /\ pc' = "divert" /\ ctx' = <<"deferred">> \o ctx /\ failed' = failed
    BY <1>3 DEF Defer, Open, Goto, StackInv, StackAt
  <2> QED BY <2>1, StackShapes DEF StackInv, StackAt, Labels, Body, After
<1>4. CASE DenyServices
  <2>1. pc = "deny" /\ ctx = D /\ pc' = "lift" /\ ctx' = <<"service">> \o ctx /\ failed' = failed
    BY <1>4 DEF DenyServices, Open, Goto, StackInv, StackAt
  <2> QED BY <2>1, StackShapes DEF StackInv, StackAt, Labels, Body, After
<1>5. CASE LiftMasks
  <2>1. pc = "lift" /\ ctx = SD /\ pc' = "aptconf" /\ ctx' = <<"unmask">> \o ctx /\ failed' = failed
    BY <1>5 DEF LiftMasks, Open, Goto, StackInv, StackAt
  <2> QED BY <2>1, StackShapes DEF StackInv, StackAt, Labels, Body, After
<1>6. CASE WriteAptConfig
  <2>1. pc = "aptconf" /\ ctx = USD /\ pc' = "mount" /\ ctx' = <<"apt">> \o ctx /\ failed' = failed
    BY <1>6 DEF WriteAptConfig, Open, Goto, StackInv, StackAt
  <2> QED BY <2>1, StackShapes DEF StackInv, StackAt, Labels, Body, After
<1> QED BY <1>1, <1>2, <1>3, <1>4, <1>5, <1>6 DEF Prepare

\* Work in the chroot happens with all of them pushed.
LEMMA ChrootStacks ==
  ASSUME StackInv, Chroot
  PROVE  StackInv'
<1>1. CASE MountRoot
  <2>1. /\ pc = "mount" /\ ctx \in {AUSD, <<>>} /\ ctx' = <<"mounted">> \o ctx
        /\ (pc' = "bind" /\ failed' = failed) \/ (pc' = "unwind" /\ failed' = TRUE)
    BY <1>1 DEF MountRoot, Mount, Open, Goto, StackInv, StackAt
  <2>2. ctx' \in {MAUSD, M}
    BY <2>1, StackShapes
  <2>3. pc' \in Labels /\ ctx' \in StackAt(pc')
    BY <2>1, <2>2, StacksDiffer DEF StackAt, Labels, Body, After, Stacks
  <2>4. failed' => pc' = "unwind"
    BY <2>1 DEF StackInv
  <2> QED BY <2>3, <2>4 DEF StackInv
<1>2. CASE MountBind
  <2>1. /\ pc = "bind" /\ ctx \in {MAUSD, M} /\ ctx' = ctx
        /\ (pc' \in {"bind", "resolv"} /\ failed' = failed) \/ (pc' = "unwind" /\ failed' = TRUE)
    BY <1>2 DEF MountBind, Mount, Goto, StackInv, StackAt
  <2> QED BY <2>1, StacksDiffer DEF StackInv, StackAt, Labels, Body, After, Stacks
<1>3. CASE ReplaceResolv
  <2>1. /\ pc = "resolv" /\ ctx \in {MAUSD, M} /\ ctx' = ctx /\ failed' = failed
        /\ pc' = IF Inside("apt") THEN "update" ELSE "generate"
    BY <1>3 DEF ReplaceResolv, Goto, StackInv, StackAt
  <2> QED BY <2>1, AptInside DEF StackInv, StackAt, Labels, Body, After
<1>4. CASE Install \/ InstallOptional
  <2>1. /\ pc \in {"install", "optional"} /\ ctx' = ctx /\ failed' = failed
        /\ pc' \in {"optional", "clean"}
    BY <1>4 DEF Install, InstallOptional, Packages, Goto
  <2> QED BY <2>1 DEF StackInv, StackAt, Labels, Body, After
<1>5. CASE Generate
  <2>1. pc = "generate" /\ ctx' = ctx /\ failed' = failed /\ pc' \in {"unwind", "generate"}
    BY <1>5 DEF Generate, Goto
  <2> QED BY <2>1, StacksDiffer DEF StackInv, StackAt, Labels, Body, After, Stacks
<1> QED BY <1>1, <1>2, <1>3, <1>4, <1>5 DEF Chroot

\* Unwinding pops them in the reverse order.
LEMMA UnwindStacks ==
  ASSUME StackInv, Unwind
  PROVE  StackInv'
<1>1. CASE RestoreResolv \/ Unmount \/ RemoveShim \/ Undivert
  BY <1>1 DEF RestoreResolv, Unmount, RemoveShim, Undivert, Leaving, StackInv, StackAt, Labels
<1>2. CASE LeaveMounted \/ LeaveApt \/ LeaveUnmask \/ LeaveService
  <2>1. pc = "unwind" /\ ctx # <<>> /\ Leave(failed)
    BY <1>2 DEF LeaveMounted, LeaveApt, LeaveUnmask, LeaveService, Leaving
  <2> QED BY <2>1, LeaveStep
<1>3. CASE LeaveDeferred
  <2>1. pc = "unwind" /\ ctx # <<>> /\ Leave(failed \/ root.command # "real")
    BY <1>3 DEF LeaveDeferred, Leaving
  <2> QED BY <2>1, LeaveStep
<1>4. CASE CleanupRaises
  <2>1. pc = "unwind" /\ ctx # <<>> /\ Leave(TRUE)
    BY <1>4 DEF CleanupRaises
  <2> QED BY <2>1, LeaveStep
<1> QED BY <1>1, <1>2, <1>3, <1>4 DEF Unwind

\* The steps after it push nothing.
LEMMA FinishStacks ==
  ASSUME StackInv, Finish
  PROVE  StackInv'
BY DEF Finish, StageMasks, StageExtras, PairKernels, CopyInitrds, Squash, ClearPart, Master, Publish,
   DropPart, CleanupWorkspace, WriteManifest, Goto, StackInv, StackAt, Labels, Body, After

\* A plain step, a failure and a kill leave the stack to the unwinding.
LEMMA OtherStacks ==
  ASSUME StackInv, Advance \/ StepFails \/ Kill \/ UNCHANGED vars
  PROVE  StackInv'
<1>1. CASE Advance
  <2>1. ctx' = ctx /\ failed' = failed /\ pc \in DOMAIN After /\ pc' = After[pc]
    BY <1>1 DEF Advance, Goto
  <2>2. /\ pc \in {"update", "simulate"} => pc' \in {"simulate", "install"}
        /\ pc = "clean" => pc' = "unwind"
        /\ pc \in {"preflight", "isopolicy", "metadata", "bootargs", "checksums"} =>
             pc' \in {"extract", "metadata", "squash", "checksums", "clearpart"}
        /\ pc \in {"update", "simulate", "clean", "preflight", "isopolicy", "metadata", "bootargs", "checksums"}
    BY <2>1 DEF After
  <2> QED BY <2>1, <2>2, StacksDiffer DEF StackInv, StackAt, Labels, Body, After, Stacks
<1>2. CASE StepFails
  BY <1>2 DEF StepFails, Goto, StackInv, StackAt, Labels, Body, After, Stacks
<1>3. CASE Kill
  BY <1>3 DEF Kill, Goto, StackInv, StackAt, Labels, Body, After, Stacks
<1>4. CASE UNCHANGED vars
  BY <1>4 DEF vars, StackInv
<1> QED BY <1>1, <1>2, <1>3, <1>4

\* Every step keeps the stack in one of these shapes.
LEMMA StackSteps ==
  ASSUME StackInv, [Next]_vars
  PROVE  StackInv'
BY PrepareStacks, ChrootStacks, UnwindStacks, FinishStacks, OtherStacks DEF Next, Program, Idle

\* A failure is never forgotten.
LEMMA FailuresStay ==
  ASSUME StackInv, [Next]_vars, ~failed'
  PROVE  ~failed
BY DEF Next, Program, Prepare, Chroot, Unwind, Finish, Idle, vars, Leave, Mount, Advance, StepFails,
   Kill, Extract, StageRootPolicy, Defer, Divert, DivertAlias, PlaceShim, DenyServices, LiftMasks,
   WriteAptConfig, MountRoot, MountBind, ReplaceResolv, Install, InstallOptional, Packages, Generate,
   RestoreResolv, Unmount, LeaveMounted, LeaveApt, LeaveUnmask, LeaveService, RemoveShim, Undivert,
   LeaveDeferred, CleanupRaises, StageMasks, StageExtras, PairKernels, CopyInitrds, Squash, ClearPart,
   Master, Publish, DropPart, CleanupWorkspace, WriteManifest, StackInv

-----------------------------------------------------------------------------
(* The firmware units.                                                     *)

RootFields == {"has", "units", "policyrc", "resolv", "command", "diverted"}

GuardInv ==
  /\ DOMAIN root = RootFields
  /\ root.units = "lifted" => ctx \in Lifting
  /\ root.units = "left" => failed
  /\ ctx \in Serving => root.policyrc = "deny"

\* Every step keeps units guarded while services may start.
LEMMA GuardSteps ==
  ASSUME StackInv, GuardInv, [Next]_vars
  PROVE  GuardInv'
<1>0. failed => failed'
  BY FailuresStay
<1>1. CASE root' = root /\ ctx' = ctx
  BY <1>0, <1>1 DEF GuardInv
<1>2. CASE Defer \/ WriteAptConfig \/ MountRoot
  <2>1. root' = root
    BY <1>2 DEF Defer, WriteAptConfig, MountRoot, chrootVars
  <2>2. \/ ctx = <<>> /\ ctx' = <<"deferred">> \o ctx
        \/ ctx = USD /\ ctx' = <<"apt">> \o ctx
        \/ ctx \in {AUSD, <<>>} /\ ctx' = <<"mounted">> \o ctx
    BY <1>2 DEF Defer, WriteAptConfig, MountRoot, Open, StackInv, StackAt
  <2>3. \/ ctx = <<>> /\ ctx' \in {D, M}
        \/ ctx = USD /\ ctx' = AUSD
        \/ ctx = AUSD /\ ctx' = MAUSD
    BY <2>2, StackShapes
  <2> QED BY <1>0, <2>1, <2>3, StacksDiffer DEF GuardInv, Lifting, Serving
<1>3. CASE StageRootPolicy \/ Divert \/ DivertAlias \/ PlaceShim \/ MountBind \/ ReplaceResolv
           \/ Install \/ InstallOptional \/ RestoreResolv \/ RemoveShim \/ Undivert
           \/ StageMasks \/ StageExtras
  <2>1. ctx' = ctx
    BY <1>3 DEF StageRootPolicy, Divert, DivertAlias, PlaceShim, MountBind, ReplaceResolv, Install,
       InstallOptional, Packages, RestoreResolv, RemoveShim, Undivert, StageMasks, StageExtras
  <2>2. /\ DOMAIN root' = DOMAIN root /\ root'.units \in {root.units, "masked"} /\ root'.policyrc = root.policyrc
    BY <1>3 DEF StageRootPolicy, Divert, DivertAlias, PlaceShim, MountBind, ReplaceResolv, Install,
       InstallOptional, Packages, RestoreResolv, RemoveShim, Undivert, StageMasks, StageExtras,
       GuardInv, RootFields
  <2> QED BY <1>0, <2>1, <2>2 DEF GuardInv
<1>4. CASE DenyServices
  <2>1. ctx = D /\ ctx' = <<"service">> \o ctx /\ root' = [root EXCEPT !.policyrc = "deny"]
    BY <1>4 DEF DenyServices, Open, StackInv, StackAt
  <2>2. ctx' = SD
    BY <2>1, StackShapes
  <2> QED BY <1>0, <2>1, <2>2, StacksDiffer DEF GuardInv, RootFields, Lifting, Serving
<1>5. CASE LiftMasks
  <2>1. ctx = SD /\ ctx' = <<"unmask">> \o ctx /\ root' = [root EXCEPT !.units = "lifted"]
    BY <1>5 DEF LiftMasks, Open, StackInv, StackAt
  <2>2. ctx' = USD
    BY <2>1, StackShapes
  <2> QED BY <1>0, <2>1, <2>2, StacksDiffer DEF GuardInv, RootFields, Lifting, Serving
<1>6. CASE LeaveMounted \/ LeaveApt \/ LeaveUnmask \/ LeaveService \/ LeaveDeferred \/ CleanupRaises
  <2>1. pc = "unwind" /\ ctx # <<>> /\ ctx' = Tail(ctx)
    BY <1>6 DEF LeaveMounted, LeaveApt, LeaveUnmask, LeaveService, LeaveDeferred, CleanupRaises,
       Leaving, Leave, StackInv, StackAt
  <2>2. \/ ctx \in {M, D} /\ ctx' = <<>>
        \/ ctx = MAUSD /\ ctx' = AUSD
        \/ ctx = AUSD /\ ctx' = USD
        \/ ctx = USD /\ ctx' = SD
        \/ ctx = SD /\ ctx' = D
    <3>1. ctx \in {D, SD, USD, AUSD, MAUSD, M}
      BY <2>1 DEF StackInv, StackAt, Stacks
    <3> QED BY <2>1, <3>1, StackShapes
  <2>3. CASE ctx = USD
    <3>1. LeaveUnmask \/ CleanupRaises
      BY <1>6, <2>3, StackShapes DEF LeaveMounted, LeaveApt, LeaveService, LeaveDeferred, Leaving, Top
    <3>2. \/ root' = [root EXCEPT !.units = "masked"]
          \/ root' = [root EXCEPT !.units = "left"] /\ failed'
      BY <2>3, <3>1, StackShapes DEF LeaveUnmask, CleanupRaises, Leave, Top
    <3> QED BY <1>0, <2>2, <2>3, <3>2, StacksDiffer DEF GuardInv, RootFields, Lifting, Serving
  <2>4. CASE ctx # USD
    <3>1. Top # "unmask"
      BY <2>2, <2>4, StackShapes DEF Top
    <3>2. \/ root' = root
          \/ ctx = SD /\ \E p : root' = [root EXCEPT !.policyrc = p]
      BY <1>6, <2>2, <3>1, StackShapes DEF LeaveMounted, LeaveApt, LeaveUnmask, LeaveService, LeaveDeferred,
         CleanupRaises, Leaving, Top, chrootVars
    <3> QED BY <1>0, <2>2, <2>4, <3>2, StacksDiffer DEF GuardInv, RootFields, Lifting, Serving
  <2> QED BY <2>3, <2>4
<1> QED BY <1>1, <1>2, <1>3, <1>4, <1>5, <1>6
        DEF Next, Program, Prepare, Chroot, Unwind, Finish, Idle, vars, chrootVars, isoVars, Advance,
            StepFails, Kill, Extract, Generate, Unmount, PairKernels, CopyInitrds, Squash, ClearPart,
            Master, Publish, DropPart, CleanupWorkspace, WriteManifest

\* Whatever fails, is interrupted or killed: the firmware units are unmasked and
\* maintainer scripts run only while policy-rc.d refuses to start services, except
\* that a masking that raises leaves units unmasked in a run that is over.
THEOREM UnitsAreGuarded == Spec => []UnitsGuarded
<1>1. Init => StackInv /\ GuardInv
  BY StacksDiffer DEF Init, StackInv, StackAt, Labels, Body, After, GuardInv, RootFields, Serving
<1>2. StackInv /\ GuardInv /\ [Next]_vars => StackInv' /\ GuardInv'
  BY StackSteps, GuardSteps
<1>3. StackInv /\ GuardInv => UnitsGuarded
  <2> SUFFICES ASSUME StackInv, GuardInv PROVE UnitsGuarded
    OBVIOUS
  <2>1. root.units = "left" => pc \notin Body
    BY DEF StackInv, GuardInv, Body, After
  <2>2. pc \in {"install", "optional"} => ctx \in Serving
    BY DEF StackInv, StackAt, Serving
  <2> QED BY <2>1, <2>2 DEF GuardInv, UnitsGuarded, Lifting, Serving
<1> QED BY <1>1, <1>2, <1>3, PTL DEF Spec

-----------------------------------------------------------------------------
(* The mounts.                                                             *)

\* What local.mounted goes through.
B1 == <<"root">>
B2 == <<"root", "dev">>
B3 == <<"root", "dev", "dev/pts">>
B4 == <<"root", "dev", "dev/pts", "run">>
B5 == <<"root", "dev", "dev/pts", "run", IsoBind>>

Recorded ==
  \/ local.mounted = <<>> /\ mounts = {}
  \/ local.mounted = B1 /\ mounts = {"root"}
  \/ local.mounted = B2 /\ mounts = {"root", "dev"}
  \/ local.mounted = B3 /\ mounts = {"root", "dev", "dev/pts"}
  \/ local.mounted = B4 /\ mounts = {"root", "dev", "dev/pts", "run"}
  \/ local.mounted = B5 /\ mounts = Targets

MountInv ==
  /\ DOMAIN local = DOMAIN NoLocals
  /\ workspace = "removed" => mounts = {} /\ pc \in {"manifest", "done", "failed", "killed"}
  /\ ~failed /\ ctx \in {M, MAUSD} => Recorded
  /\ ~failed /\ ctx \notin {M, MAUSD} => local.mounted = <<>> /\ mounts = {}
  /\ pc = "bind" => \/ local.mounted \in {B1, B2, B3}
                    \/ ctx = MAUSD /\ local.mounted = B4

\* A sequence with one member more.
LEMMA Appended ==
  ASSUME NEW S, NEW s \in Seq(S), NEW t \in Seq(S), Len(t) = Len(s) + 1, \A i \in 1 .. Len(s) : t[i] = s[i]
  PROVE  Append(s, t[Len(t)]) = t /\ Front(t) = s /\ Last(t) = t[Len(t)]
<1> DEFINE x == t[Len(t)]
<1>1. Len(s) \in Nat /\ DOMAIN t = 1 .. Len(t) /\ x \in S
  OBVIOUS
<1>2. /\ Append(s, x) \in Seq(S) /\ Len(Append(s, x)) = Len(s) + 1
      /\ \A i \in 1 .. Len(s) : Append(s, x)[i] = s[i]
      /\ Append(s, x)[Len(s) + 1] = x
  BY <1>1
<1>3. \A i \in 1 .. Len(t) : Append(s, x)[i] = t[i]
  BY <1>1, <1>2
<1>4. Append(s, x) = t
  BY <1>1, <1>2, <1>3
<1>5. SubSeq(Append(s, x), 1, Len(s)) = s
  BY <1>1
<1> QED BY <1>1, <1>4, <1>5 DEF Front, Last

\* The mounts of a chroot, each list with one more.
LEMMA BindShapes ==
  /\ Append(<<>>, "root") = B1 /\ Append(B1, "dev") = B2 /\ Append(B2, "dev/pts") = B3
  /\ Append(B3, "run") = B4 /\ Append(B4, IsoBind) = B5
  /\ Len(B1) = 1 /\ Len(B2) = 2 /\ Len(B3) = 3 /\ Len(B4) = 4 /\ Len(B5) = 5
  /\ Last(B1) = "root" /\ Last(B2) = "dev" /\ Last(B3) = "dev/pts" /\ Last(B4) = "run" /\ Last(B5) = IsoBind
  /\ Front(B1) = <<>> /\ Front(B2) = B1 /\ Front(B3) = B2 /\ Front(B4) = B3 /\ Front(B5) = B4
<1>1. Len(B1) = 1 /\ Len(B2) = 2 /\ Len(B3) = 3 /\ Len(B4) = 4 /\ Len(B5) = 5
  BY DEF B1, B2, B3, B4, B5
<1>2. B1 \in Seq(Targets) /\ B2 \in Seq(Targets) /\ B3 \in Seq(Targets)
  BY DEF B1, B2, B3, Targets
<1>3. B4 \in Seq(Targets) /\ B5 \in Seq(Targets)
  BY DEF B4, B5, Targets
<1>4. Append(<<>>, "root") = B1 /\ Front(B1) = <<>> /\ Last(B1) = "root"
  BY DEF B1, Front, Last
<1>5. Append(B1, "dev") = B2 /\ Front(B2) = B1 /\ Last(B2) = "dev"
  <2>1. B2[2] = "dev" /\ \A i \in 1 .. 1 : B2[i] = B1[i]
    BY DEF B1, B2
  <2>2. Len(B2) = Len(B1) + 1 /\ \A i \in 1 .. Len(B1) : B2[i] = B1[i]
    BY <1>1, <2>1
  <2>3. Append(B1, B2[Len(B2)]) = B2 /\ Front(B2) = B1 /\ Last(B2) = B2[Len(B2)]
    BY <1>2, <1>3, <2>2, Appended
  <2> QED BY <1>1, <2>1, <2>3
<1>6. Append(B2, "dev/pts") = B3 /\ Front(B3) = B2 /\ Last(B3) = "dev/pts"
  <2>1. B3[3] = "dev/pts" /\ \A i \in 1 .. 2 : B3[i] = B2[i]
    BY DEF B2, B3
  <2>2. Len(B3) = Len(B2) + 1 /\ \A i \in 1 .. Len(B2) : B3[i] = B2[i]
    BY <1>1, <2>1
  <2>3. Append(B2, B3[Len(B3)]) = B3 /\ Front(B3) = B2 /\ Last(B3) = B3[Len(B3)]
    BY <1>2, <1>3, <2>2, Appended
  <2> QED BY <1>1, <2>1, <2>3
<1>7. Append(B3, "run") = B4 /\ Front(B4) = B3 /\ Last(B4) = "run"
  <2>1. B4[4] = "run" /\ \A i \in 1 .. 3 : B4[i] = B3[i]
    BY DEF B3, B4
  <2>2. Len(B4) = Len(B3) + 1 /\ \A i \in 1 .. Len(B3) : B4[i] = B3[i]
    BY <1>1, <2>1
  <2>3. Append(B3, B4[Len(B4)]) = B4 /\ Front(B4) = B3 /\ Last(B4) = B4[Len(B4)]
    BY <1>2, <1>3, <2>2, Appended
  <2> QED BY <1>1, <2>1, <2>3
<1>8. Append(B4, IsoBind) = B5 /\ Front(B5) = B4 /\ Last(B5) = IsoBind
  <2>1. B5[5] = IsoBind /\ \A i \in 1 .. 4 : B5[i] = B4[i]
    BY DEF B4, B5
  <2>2. Len(B5) = Len(B4) + 1 /\ \A i \in 1 .. Len(B4) : B5[i] = B4[i]
    BY <1>1, <2>1
  <2>3. Append(B4, B5[Len(B5)]) = B5 /\ Front(B5) = B4 /\ Last(B5) = B5[Len(B5)]
    BY <1>2, <1>3, <2>2, Appended
  <2> QED BY <1>1, <2>1, <2>3
<1> QED BY <1>1, <1>4, <1>5, <1>6, <1>7, <1>8

\* What is mounted in the first visit to the chroot and in the second.
LEMMA TargetShapes ==
  /\ ctx = MAUSD => BindTargets = B5
  /\ ctx = M => BindTargets = B4
<1>1. <<"root">> \o Binds = B4
  <2>1. Tail(B4) = Binds /\ Head(B4) = "root" /\ B4 # <<>>
    BY DEF B4, Binds
  <2>2. B4 \in Seq(Targets) /\ Binds \in Seq(Targets)
    BY DEF B4, Binds, Targets
  <2> QED BY <2>1, <2>2, Pushed
<1>2. B4 \o <<IsoBind>> = B5
  <2>1. B4 \o <<IsoBind>> = Append(B4, IsoBind)
    BY DEF B4
  <2> QED BY <2>1, BindShapes
<1>3. B4 \o <<>> = B4
  BY DEF B4
<1> QED BY <1>1, <1>2, <1>3, AptInside DEF BindTargets

\* Mounting adds the next of them.
LEMMA MountsGrow ==
  ASSUME StackInv, MountInv, MountRoot \/ MountBind
  PROVE  MountInv'
<1>1. CASE MountRoot
  <2>1. /\ ctx' \in {M, MAUSD} /\ local.mounted = <<>> /\ mounts = {} /\ workspace' = workspace
        /\ workspace # "removed"
    <3>1. /\ pc = "mount" /\ ctx \in {AUSD, <<>>} /\ ctx' = <<"mounted">> \o ctx /\ ~failed
          /\ workspace' = workspace
      BY <1>1 DEF MountRoot, Open, StackInv, StackAt, isoVars
    <3> QED BY <3>1, StackShapes, StacksDiffer DEF MountInv
  <2>2. /\ mounts' = mounts \cup {"root"} /\ (failed' = failed \/ failed' = TRUE)
        /\ DOMAIN local' = DOMAIN local
        /\ failed' # TRUE => local'.mounted = Append(local.mounted, "root") /\ pc' = "bind"
        /\ pc' = "bind" => local'.mounted = Append(local.mounted, "root")
    BY <1>1 DEF MountRoot, Mount, Goto, MountInv, NoLocals
  <2>3. mounts' = {"root"}
    BY <2>1, <2>2
  <2>4. Append(local.mounted, "root") = B1
    BY <2>1, BindShapes
  <2> QED BY <2>1, <2>2, <2>3, <2>4 DEF MountInv, Recorded
<1>2. CASE MountBind
  <2> DEFINE n == Len(local.mounted) + 1
  <2>1. /\ pc = "bind" /\ ctx \in {M, MAUSD} /\ ctx' = ctx /\ ~failed /\ workspace' = workspace
        /\ workspace # "removed"
    BY <1>2 DEF MountBind, StackInv, StackAt, isoVars, MountInv
  <2>2. /\ mounts' = mounts \cup {BindTargets[n]} /\ (failed' = failed \/ failed' = TRUE)
        /\ DOMAIN local' = DOMAIN local
        /\ failed' # TRUE => local'.mounted = Append(local.mounted, BindTargets[n])
        /\ pc' = "bind" => n # Len(BindTargets) /\ local'.mounted = Append(local.mounted, BindTargets[n])
    BY <1>2 DEF MountBind, Mount, Goto, MountInv, NoLocals
  <2>3. B5[2] = "dev" /\ B5[3] = "dev/pts" /\ B5[4] = "run" /\ B5[5] = IsoBind
    BY DEF B5
  <2>4. B4[2] = "dev" /\ B4[3] = "dev/pts" /\ B4[4] = "run"
    BY DEF B4
  <2>5. Recorded
    BY <2>1 DEF MountInv
  <2>6. B1 # B2 /\ B1 # B3 /\ B1 # B4 /\ B2 # B3 /\ B2 # B4 /\ B3 # B4 /\ B1 # <<>> /\ B2 # <<>> /\ B3 # <<>> /\ B4 # <<>>
        /\ B5 # B1 /\ B5 # B2 /\ B5 # B3 /\ B5 # B4 
    BY BindShapes
  <2>7. CASE local.mounted = B1
    <3>1. BindTargets[n] = "dev" /\ mounts = {"root"}
      BY <2>1, <2>3, <2>4, <2>5, <2>6, <2>7, BindShapes, TargetShapes DEF Recorded
    <3> QED BY <2>1, <2>2, <2>7, <3>1, BindShapes DEF MountInv, Recorded
  <2>8. CASE local.mounted = B2
    <3>1. BindTargets[n] = "dev/pts" /\ mounts = {"root", "dev"}
      BY <2>1, <2>3, <2>4, <2>5, <2>6, <2>8, BindShapes, TargetShapes DEF Recorded
    <3> QED BY <2>1, <2>2, <2>8, <3>1, BindShapes DEF MountInv, Recorded
  <2>9. CASE local.mounted = B3
    <3>1. BindTargets[n] = "run" /\ mounts = {"root", "dev", "dev/pts"} /\ (ctx = M => n = Len(BindTargets))
      BY <2>1, <2>3, <2>4, <2>5, <2>6, <2>9, BindShapes, TargetShapes DEF Recorded
    <3> QED BY <2>1, <2>2, <2>9, <3>1, BindShapes DEF MountInv, Recorded
  <2>10. CASE ctx = MAUSD /\ local.mounted = B4
    <3>1. BindTargets[n] = IsoBind /\ mounts = {"root", "dev", "dev/pts", "run"} /\ n = Len(BindTargets)
      BY <2>3, <2>5, <2>6, <2>10, BindShapes, TargetShapes DEF Recorded
    <3>2. mounts \cup {IsoBind} = Targets
      BY <3>1 DEF Targets
    <3> QED BY <2>1, <2>2, <2>10, <3>1, <3>2, BindShapes DEF MountInv, Recorded
  <2> QED BY <2>1, <2>7, <2>8, <2>9, <2>10 DEF MountInv
<1> QED BY <1>1, <1>2

\* Unmounting takes the last of them.
LEMMA MountsShrink ==
  ASSUME StackInv, MountInv, Unmount
  PROVE  MountInv'
<1>1. /\ pc = "unwind" /\ pc' = pc /\ ctx' = ctx /\ workspace' = workspace /\ local.mounted # <<>>
      /\ ctx \in {M, MAUSD}
      /\ DOMAIN local' = DOMAIN local /\ local'.mounted = Front(local.mounted)
      /\ \/ mounts' = mounts \ Below(Last(local.mounted)) /\ failed' = failed
         \/ failed' = TRUE
  <2>1. ctx \in {D, SD, USD, AUSD, MAUSD, M} /\ Head(ctx) = "mounted"
    BY DEF Unmount, Top, StackInv, StackAt, Stacks
  <2>2. ctx \in {M, MAUSD}
    BY <2>1, StackShapes
  <2> QED BY <2>2 DEF Unmount, isoVars, MountInv, NoLocals
<1> SUFFICES ASSUME ~failed, mounts' = mounts \ Below(Last(local.mounted)), failed' = failed
             PROVE  Recorded'
  BY <1>1 DEF MountInv
<1>2. Recorded
  BY <1>1 DEF MountInv
<1>3. CASE local.mounted \in {B1, B2, B3, B4} \ {<<>>}
  <2>1. \/ local.mounted = B1 /\ mounts = {"root"}
        \/ local.mounted = B2 /\ mounts = {"root", "dev"}
        \/ local.mounted = B3 /\ mounts = {"root", "dev", "dev/pts"}
        \/ local.mounted = B4 /\ mounts = {"root", "dev", "dev/pts", "run"}
    BY <1>1, <1>2, <1>3, BindShapes DEF Recorded
  <2> QED BY <1>1, <2>1, BindShapes DEF Below, Recorded, Targets
<1>4. CASE local.mounted = B5
  <2>1. mounts = Targets
    BY <1>2, <1>4, BindShapes DEF Recorded
  <2>2. local'.mounted = B4 /\ Below(Last(local.mounted)) = {IsoBind}
    BY <1>1, <1>4, BindShapes DEF Below, IsoBind
  <2>3. mounts' = {"root", "dev", "dev/pts", "run"}
    BY <2>1, <2>2 DEF Targets, IsoBind
  <2> QED BY <2>2, <2>3 DEF Recorded
<1> QED BY <1>1, <1>2, <1>3, <1>4 DEF Recorded

\* Only mounting the root pushes the frame of the mounts, only leaving it pops it.
LEMMA ChrootIsEntered ==
  ASSUME StackInv, [Next]_vars, ~MountRoot, ctx' # ctx
  PROVE  /\ ctx' \notin {M, MAUSD} /\ pc' # "bind"
         /\ ctx \in {M, MAUSD} => LeaveMounted \/ CleanupRaises
<1>1. CASE Defer \/ DenyServices \/ LiftMasks \/ WriteAptConfig
  <2>1. \/ ctx = <<>> /\ ctx' = <<"deferred">> \o ctx
        \/ ctx = D /\ ctx' = <<"service">> \o ctx
        \/ ctx = SD /\ ctx' = <<"unmask">> \o ctx
        \/ ctx = USD /\ ctx' = <<"apt">> \o ctx
    BY <1>1 DEF Defer, DenyServices, LiftMasks, WriteAptConfig, Open, StackInv, StackAt
  <2>2. ctx \in {<<>>, D, SD, USD} /\ ctx' \in {D, SD, USD, AUSD}
    BY <2>1, StackShapes
  <2>3. pc' # "bind"
    BY <1>1 DEF Defer, DenyServices, LiftMasks, WriteAptConfig, Goto
  <2> QED BY <2>2, <2>3, StacksDiffer
<1>2. CASE LeaveMounted \/ LeaveApt \/ LeaveUnmask \/ LeaveService \/ LeaveDeferred \/ CleanupRaises
  <2>1. /\ ctx # <<>> /\ ctx' = Tail(ctx) /\ pc = "unwind" /\ pc' # "bind"
        /\ Head(ctx) = "mounted" => LeaveMounted \/ CleanupRaises
    BY <1>2 DEF LeaveMounted, LeaveApt, LeaveUnmask, LeaveService, LeaveDeferred, CleanupRaises,
       Leaving, Leave, Goto, Top, StackInv, StackAt
  <2>2. ctx \in {D, SD, USD, AUSD, MAUSD, M}
    BY <2>1 DEF StackInv, StackAt, Stacks
  <2>3. ctx' \in {<<>>, D, SD, USD, AUSD}
    BY <2>1, <2>2, StackShapes
  <2> QED BY <2>1, <2>3, StackShapes, StacksDiffer
<1> QED BY <1>1, <1>2
        DEF Next, Program, Prepare, Chroot, Unwind, Finish, Idle, vars, Advance, StepFails, Kill,
            Extract, StageRootPolicy, Divert, DivertAlias, PlaceShim, MountBind, ReplaceResolv, Install,
            InstallOptional, Packages, Generate, RestoreResolv, Unmount, RemoveShim, Undivert, StageMasks,
            StageExtras, PairKernels, CopyInitrds, Squash, ClearPart, Master, Publish, DropPart,
            CleanupWorkspace, WriteManifest

\* The other steps of the run mount and unmount nothing.
LEMMA MountsKept ==
  ASSUME StackInv, MountInv, [Next]_vars, ~MountRoot, ~MountBind, ~Unmount
  PROVE  MountInv'
<1>1. /\ mounts' = mounts /\ DOMAIN local' = DOMAIN local /\ local'.mounted = local.mounted
      /\ workspace' = workspace \/ Extract \/ CleanupWorkspace
  BY DEF Next, Program, Prepare, Chroot, Unwind, Finish, Idle, vars, chrootVars, isoVars,
     Advance, StepFails, Kill, Extract, StageRootPolicy, Defer, Divert, DivertAlias, PlaceShim,
     DenyServices, LiftMasks, WriteAptConfig, ReplaceResolv, Install, InstallOptional, Packages, Generate,
     RestoreResolv, LeaveMounted, LeaveApt, LeaveUnmask, LeaveService, RemoveShim, Undivert, LeaveDeferred,
     CleanupRaises, StageMasks, StageExtras, PairKernels, CopyInitrds, Squash, ClearPart, Master, Publish,
     DropPart, CleanupWorkspace, WriteManifest, MountInv, NoLocals
<1>2. /\ pc' = "bind" => pc = "bind"
      /\ pc \in {"manifest", "done", "failed", "killed"} => pc' \in {"manifest", "done", "failed", "killed"}
  <2>1. CASE Advance
    <3>1. pc' \notin {"bind"} /\ pc \notin {"manifest", "done", "failed", "killed"}
      BY <2>1 DEF Advance, After, Goto
    <3> QED BY <3>1
  <2>2. CASE Unwind
    <3>1. pc = "unwind" /\ pc' # "bind"
      BY <2>2 DEF Unwind, RestoreResolv, Unmount, LeaveMounted, LeaveApt, LeaveUnmask, LeaveService,
         RemoveShim, Undivert, LeaveDeferred, CleanupRaises, Leave, Leaving, Goto
    <3> QED BY <3>1
  <2>3. CASE Prepare \/ Chroot \/ StepFails \/ Kill
    BY <2>3 DEF Prepare, Chroot, Goto, StepFails, Body, After, Kill, Extract, StageRootPolicy, Defer, Divert,
       DivertAlias, PlaceShim, DenyServices, LiftMasks, WriteAptConfig, ReplaceResolv, Install,
       InstallOptional, Packages, Generate
  <2>4. CASE Finish
    BY <2>4 DEF Finish, Goto, StageMasks, StageExtras, PairKernels, CopyInitrds, Squash, ClearPart, Master,
       Publish, DropPart, CleanupWorkspace, WriteManifest
  <2> QED BY <2>1, <2>2, <2>3, <2>4 DEF Next, Program, Idle, vars
<1>3. workspace' = "removed" => mounts' = {} /\ pc' \in {"manifest", "done", "failed", "killed"}
  <2>1. CASE Extract
    BY <1>1, <2>1 DEF Extract
  <2>2. CASE CleanupWorkspace
    BY <1>1, <2>2 DEF CleanupWorkspace, Goto, MountInv
  <2> QED BY <1>1, <1>2, <2>1, <2>2 DEF MountInv
<1>4. ~failed' /\ ctx' \in {M, MAUSD} => Recorded'
  <2> SUFFICES ASSUME ~failed', ctx' \in {M, MAUSD} PROVE Recorded'
    OBVIOUS
  <2>1. ctx' = ctx
    BY ChrootIsEntered
  <2> QED BY <1>1, <2>1, FailuresStay DEF MountInv, Recorded
<1>5. ~failed' /\ ctx' \notin {M, MAUSD} => local'.mounted = <<>> /\ mounts' = {}
  <2> SUFFICES ASSUME ~failed', ctx' \notin {M, MAUSD}
               PROVE  local.mounted = <<>> /\ mounts = {}
    BY <1>1
  <2>1. ~failed
    BY FailuresStay
  <2>2. CASE ctx \notin {M, MAUSD}
    BY <2>1, <2>2 DEF MountInv
  <2>3. CASE ctx \in {M, MAUSD}
    <3>1. LeaveMounted
      BY <2>3, ChrootIsEntered DEF CleanupRaises, Leave
    <3>2. Recorded /\ local.mounted = <<>>
      BY <2>1, <2>3, <3>1 DEF MountInv, LeaveMounted
    <3> QED BY <3>2, BindShapes DEF Recorded
  <2> QED BY <2>2, <2>3
<1>6. pc' = "bind" => ctx' = ctx
  BY ChrootIsEntered
<1> QED BY <1>1, <1>2, <1>3, <1>4, <1>5, <1>6 DEF MountInv

\* The workspace is never removed while something is mounted below it, and a
\* run that reports success has left nothing mounted.
THEOREM MountsNeverOutliveRun == Spec => []MountsKeepWorkspace
<1>1. Init => StackInv /\ MountInv
  BY StacksDiffer DEF Init, StackInv, StackAt, Labels, Body, After, MountInv, NoLocals
<1>2. StackInv /\ MountInv /\ [Next]_vars => StackInv' /\ MountInv'
  BY StackSteps, MountsGrow, MountsShrink, MountsKept
<1>3. StackInv /\ MountInv => MountsKeepWorkspace
  <2> SUFFICES ASSUME StackInv, MountInv, pc = "done" PROVE mounts = {}
    BY DEF MountsKeepWorkspace, MountInv
  <2>1. ctx = <<>> /\ ~failed
    BY DEF StackInv, StackAt
  <2> QED BY <2>1, StacksDiffer DEF MountInv
<1> QED BY <1>1, <1>2, <1>3, PTL DEF Spec

-----------------------------------------------------------------------------
(* The published image.  While nothing has failed, the course of a run from *)
(* step to step and stack to stack is fixed.                                *)

Undisturbed == StackInv /\ ~failed /\ pc # "killed"

\* A run that has not failed by now had not failed before.
LEMMA StaysUndisturbed ==
  ASSUME StackInv, [Next]_vars, ~failed', pc' # "killed"
  PROVE  Undisturbed
<1>1. ~failed
  BY FailuresStay
<1>2. pc # "killed"
  <2> SUFFICES ASSUME pc = "killed" PROVE FALSE
    OBVIOUS
  <2> QED BY DEF Next, Program, Idle, vars, Advance, After, StepFails, Body, Kill,
     Prepare, Extract, StageRootPolicy, Defer, Divert, DivertAlias, PlaceShim, DenyServices, LiftMasks,
     WriteAptConfig, Chroot, MountRoot, MountBind, ReplaceResolv, Install, InstallOptional, Generate,
     Unwind, RestoreResolv, Unmount, LeaveMounted, LeaveApt, LeaveUnmask, LeaveService, RemoveShim, Undivert,
     LeaveDeferred, CleanupRaises, Leaving, Finish, StageMasks, StageExtras, PairKernels, CopyInitrds, Squash,
     ClearPart, Master, Publish, DropPart, CleanupWorkspace, WriteManifest
<1> QED BY <1>1, <1>2 DEF Undisturbed

\* A step of the course: where it goes, and from which stack to which.
Moves(from, to, stack, next) == pc = from /\ pc' = to /\ ctx = stack /\ ctx' = next

\* Where the steps of the preparation come from and lead to, when none fails.
LEMMA PrepareCourse ==
  ASSUME Undisturbed, ~failed'
  PROVE  /\ Extract => Moves("extract", "unsquash", <<>>, <<>>)
         /\ StageRootPolicy => Moves("unsquash", "defer", <<>>, <<>>)
         /\ Defer => Moves("defer", "divert", <<>>, D)
         /\ Divert => Moves("divert", IF job.aliased THEN "alias" ELSE "shim", D, D)
         /\ DivertAlias => Moves("alias", "shim", D, D)
         /\ PlaceShim => Moves("shim", "deny", D, D)
         /\ DenyServices => Moves("deny", "lift", D, SD)
         /\ LiftMasks => Moves("lift", "aptconf", SD, USD)
         /\ WriteAptConfig => Moves("aptconf", "mount", USD, AUSD)
<1>1. pc \in Labels /\ ctx \in StackAt(pc)
  BY DEF Undisturbed, StackInv
<1>2. (Extract => Moves("extract", "unsquash", <<>>, <<>>))
      /\ (StageRootPolicy => Moves("unsquash", "defer", <<>>, <<>>))
  BY <1>1 DEF Extract, StageRootPolicy, Goto, Moves, StackAt
<1>3. Defer => Moves("defer", "divert", <<>>, D)
  BY <1>1, StackShapes DEF Defer, Open, Goto, Moves, StackAt
<1>4. Divert => Moves("divert", IF job.aliased THEN "alias" ELSE "shim", D, D)
  BY <1>1 DEF Divert, Goto, Moves, StackAt
<1>5. (DivertAlias => Moves("alias", "shim", D, D)) /\ (PlaceShim => Moves("shim", "deny", D, D))
  BY <1>1 DEF DivertAlias, PlaceShim, Goto, Moves, StackAt
<1>6. DenyServices => Moves("deny", "lift", D, SD)
  BY <1>1, StackShapes DEF DenyServices, Open, Goto, Moves, StackAt
<1>7. LiftMasks => Moves("lift", "aptconf", SD, USD)
  BY <1>1, StackShapes DEF LiftMasks, Open, Goto, Moves, StackAt
<1>8. WriteAptConfig => Moves("aptconf", "mount", USD, AUSD)
  BY <1>1, StackShapes DEF WriteAptConfig, Open, Goto, Moves, StackAt
<1> QED BY <1>2, <1>3, <1>4, <1>5, <1>6, <1>7, <1>8

\* The same for the steps in the chroot.
LEMMA ChrootCourse ==
  ASSUME Undisturbed, ~failed'
  PROVE  /\ MountRoot => Moves("mount", "bind", AUSD, MAUSD) \/ Moves("mount", "bind", <<>>, M)
         /\ MountBind => ctx \in {MAUSD, M} /\ \E to \in {"bind", "resolv"} : Moves("bind", to, ctx, ctx)
         /\ ReplaceResolv => Moves("resolv", "update", MAUSD, MAUSD) \/ Moves("resolv", "generate", M, M)
         /\ Install => \E to \in {"optional", "clean"} : Moves("install", to, MAUSD, MAUSD)
         /\ InstallOptional => Moves("optional", "clean", MAUSD, MAUSD)
         /\ Generate => \E to \in {"generate", "unwind"} : Moves("generate", to, M, M)
<1>1. pc \in Labels /\ ctx \in StackAt(pc)
  BY DEF Undisturbed, StackInv
<1>2. MountRoot => Moves("mount", "bind", AUSD, MAUSD) \/ Moves("mount", "bind", <<>>, M)
  <2>1. MountRoot => pc = "mount" /\ pc' = "bind" /\ ctx \in {AUSD, <<>>} /\ ctx' = <<"mounted">> \o ctx
    BY <1>1 DEF MountRoot, Mount, Open, Goto, StackAt
  <2> QED BY <2>1, StackShapes DEF Moves
<1>3. MountBind => ctx \in {MAUSD, M} /\ \E to \in {"bind", "resolv"} : Moves("bind", to, ctx, ctx)
  BY <1>1 DEF MountBind, Mount, Goto, Moves, StackAt
<1>4. ReplaceResolv => Moves("resolv", "update", MAUSD, MAUSD) \/ Moves("resolv", "generate", M, M)
  <2>1. ReplaceResolv => /\ pc = "resolv" /\ ctx \in {MAUSD, M} /\ ctx' = ctx
                         /\ pc' = IF Inside("apt") THEN "update" ELSE "generate"
    BY <1>1 DEF ReplaceResolv, Goto, StackAt
  <2> QED BY <2>1, AptInside DEF Moves
<1>5. Install => \E to \in {"optional", "clean"} : Moves("install", to, MAUSD, MAUSD)
  BY <1>1 DEF Install, Packages, Goto, Moves, StackAt
<1>6. InstallOptional => Moves("optional", "clean", MAUSD, MAUSD)
  BY <1>1 DEF InstallOptional, Packages, Goto, Moves, StackAt
<1>7. Generate => \E to \in {"generate", "unwind"} : Moves("generate", to, M, M)
  BY <1>1 DEF Generate, Goto, Moves, StackAt
<1> QED BY <1>2, <1>3, <1>4, <1>5, <1>6, <1>7

\* The same for the unwinding.
LEMMA UnwindCourse ==
  ASSUME Undisturbed, ~failed'
  PROVE  /\ RestoreResolv \/ Unmount => ctx \in {MAUSD, M} /\ Moves("unwind", "unwind", ctx, ctx)
         /\ LeaveMounted => Moves("unwind", "unwind", MAUSD, AUSD) \/ Moves("unwind", "copy", M, <<>>)
         /\ LeaveApt => Moves("unwind", "unwind", AUSD, USD)
         /\ LeaveUnmask => Moves("unwind", "unwind", USD, SD)
         /\ LeaveService => Moves("unwind", "unwind", SD, D)
         /\ RemoveShim \/ Undivert => Moves("unwind", "unwind", D, D)
         /\ LeaveDeferred => Moves("unwind", "masks", D, <<>>)
         /\ ~CleanupRaises
<1>1. pc = "unwind" => ctx \in {D, SD, USD, AUSD, MAUSD, M}
  BY DEF Undisturbed, StackInv, StackAt, Stacks
<1>2. RestoreResolv \/ Unmount => ctx \in {MAUSD, M} /\ Moves("unwind", "unwind", ctx, ctx)
  <2>1. RestoreResolv \/ Unmount => pc = "unwind" /\ Head(ctx) = "mounted" /\ ctx' = ctx /\ pc' = pc
    BY DEF RestoreResolv, Unmount, Top
  <2> QED BY <1>1, <2>1, StackShapes DEF Moves
<1>3. RemoveShim \/ Undivert => Moves("unwind", "unwind", D, D)
  <2>1. RemoveShim \/ Undivert => pc = "unwind" /\ Head(ctx) = "deferred" /\ ctx' = ctx /\ pc' = pc
    BY DEF RemoveShim, Undivert, Leaving, Top
  <2> QED BY <1>1, <2>1, StackShapes DEF Moves
<1>4. ASSUME pc = "unwind", NEW raising, Leave(raising)
      PROVE  /\ ctx' = Tail(ctx)
             /\ ctx \in {SD, USD, AUSD, MAUSD} => pc' = "unwind"
             /\ ctx = M => pc' = "copy"
             /\ ctx = D => pc' = "masks"
  <2>1. /\ ctx' = Tail(ctx) /\ ~raising
        /\ pc' = IF Len(ctx) > 1 THEN "unwind" ELSE IF Head(ctx) = "deferred" THEN "masks" ELSE "copy"
    BY <1>4 DEF Leave, Goto, Top
  <2>2. ctx \in {SD, USD, AUSD, MAUSD} => (Len(ctx) > 1) = TRUE
    BY StackShapes
  <2>3. ctx \in {D, M} => (Len(ctx) > 1) = FALSE
    BY StackShapes
  <2> QED BY <2>1, <2>2, <2>3, StackShapes
<1>5. LeaveMounted => Moves("unwind", "unwind", MAUSD, AUSD) \/ Moves("unwind", "copy", M, <<>>)
  <2> SUFFICES ASSUME LeaveMounted
               PROVE  Moves("unwind", "unwind", MAUSD, AUSD) \/ Moves("unwind", "copy", M, <<>>)
    OBVIOUS
  <2>1. pc = "unwind" /\ Head(ctx) = "mounted" /\ Leave(failed)
    BY DEF LeaveMounted, Leaving, Top
  <2>2. ctx \in {MAUSD, M}
    BY <1>1, <2>1, StackShapes
  <2>3. ctx' = Tail(ctx) /\ (ctx = MAUSD => pc' = "unwind") /\ (ctx = M => pc' = "copy")
    BY <1>4, <2>1
  <2> QED BY <2>1, <2>2, <2>3, StackShapes DEF Moves
<1>6. LeaveApt => Moves("unwind", "unwind", AUSD, USD)
  <2> SUFFICES ASSUME LeaveApt PROVE Moves("unwind", "unwind", AUSD, USD)
    OBVIOUS
  <2>1. pc = "unwind" /\ Head(ctx) = "apt" /\ Leave(failed)
    BY DEF LeaveApt, Leaving, Top
  <2>2. ctx = AUSD
    BY <1>1, <2>1, StackShapes
  <2> QED BY <1>4, <2>1, <2>2, StackShapes DEF Moves
<1>7. LeaveUnmask => Moves("unwind", "unwind", USD, SD)
  <2> SUFFICES ASSUME LeaveUnmask PROVE Moves("unwind", "unwind", USD, SD)
    OBVIOUS
  <2>1. pc = "unwind" /\ Head(ctx) = "unmask" /\ Leave(failed)
    BY DEF LeaveUnmask, Leaving, Top
  <2>2. ctx = USD
    BY <1>1, <2>1, StackShapes
  <2> QED BY <1>4, <2>1, <2>2, StackShapes DEF Moves
<1>8. LeaveService => Moves("unwind", "unwind", SD, D)
  <2> SUFFICES ASSUME LeaveService PROVE Moves("unwind", "unwind", SD, D)
    OBVIOUS
  <2>1. pc = "unwind" /\ Head(ctx) = "service" /\ Leave(failed)
    BY DEF LeaveService, Leaving, Top
  <2>2. ctx = SD
    BY <1>1, <2>1, StackShapes
  <2> QED BY <1>4, <2>1, <2>2, StackShapes DEF Moves
<1>9. LeaveDeferred => Moves("unwind", "masks", D, <<>>)
  <2> SUFFICES ASSUME LeaveDeferred PROVE Moves("unwind", "masks", D, <<>>)
    OBVIOUS
  <2>1. pc = "unwind" /\ Head(ctx) = "deferred" /\ Leave(failed \/ root.command # "real")
    BY DEF LeaveDeferred, Leaving, Top
  <2>2. ctx = D
    BY <1>1, <2>1, StackShapes
  <2> QED BY <1>4, <2>1, <2>2, StackShapes DEF Moves
<1>10. ~CleanupRaises
  BY DEF CleanupRaises, Leave
<1> QED BY <1>2, <1>3, <1>5, <1>6, <1>7, <1>8, <1>9, <1>10

\* The same for the steps after it.
LEMMA FinishCourse ==
  ASSUME Undisturbed, ~failed'
  PROVE  /\ StageMasks => Moves("masks", "extras", <<>>, <<>>)
         /\ StageExtras => Moves("extras", "kernels", <<>>, <<>>)
         /\ PairKernels => Moves("kernels", "mount", <<>>, <<>>)
         /\ CopyInitrds => Moves("copy", "isopolicy", <<>>, <<>>)
         /\ Squash => Moves("squash", "bootargs", <<>>, <<>>)
         /\ ClearPart => Moves("clearpart", "master", <<>>, <<>>)
         /\ Master => Moves("master", "publish", <<>>, <<>>)
         /\ Publish => Moves("publish", "finally", <<>>, <<>>)
         /\ DropPart \/ CleanupWorkspace \/ WriteManifest =>
              \E to \in {"cleanup", "manifest", "done", "failed"} : Moves(pc, to, <<>>, <<>>)
<1>1. pc \in Labels /\ ctx \in StackAt(pc)
  BY DEF Undisturbed, StackInv
<1>2. /\ StageMasks => Moves("masks", "extras", <<>>, <<>>)
      /\ StageExtras => Moves("extras", "kernels", <<>>, <<>>)
      /\ PairKernels => Moves("kernels", "mount", <<>>, <<>>)
  BY <1>1 DEF StageMasks, StageExtras, PairKernels, Goto, Moves, StackAt
<1>3. /\ CopyInitrds => Moves("copy", "isopolicy", <<>>, <<>>)
      /\ Squash => Moves("squash", "bootargs", <<>>, <<>>)
      /\ ClearPart => Moves("clearpart", "master", <<>>, <<>>)
  BY <1>1 DEF CopyInitrds, Squash, ClearPart, Goto, Moves, StackAt
<1>4. /\ Master => Moves("master", "publish", <<>>, <<>>)
      /\ Publish => Moves("publish", "finally", <<>>, <<>>)
  BY <1>1 DEF Master, Publish, Goto, Moves, StackAt
<1>5. DropPart \/ CleanupWorkspace \/ WriteManifest =>
        \E to \in {"cleanup", "manifest", "done", "failed"} : Moves(pc, to, <<>>, <<>>)
  BY <1>1 DEF DropPart, CleanupWorkspace, WriteManifest, Goto, Moves, StackAt
<1> QED BY <1>2, <1>3, <1>4, <1>5

\* The same for the steps that only run a command.
LEMMA AdvanceCourse ==
  ASSUME Undisturbed, Advance
  PROVE  \/ \E from \in {"update", "simulate"}, to \in {"simulate", "install"} : Moves(from, to, MAUSD, MAUSD)
         \/ Moves("clean", "unwind", MAUSD, MAUSD)
         \/ Moves("preflight", "extract", <<>>, <<>>)
         \/ \E from \in {"isopolicy", "metadata"}, to \in {"metadata", "squash"} : Moves(from, to, <<>>, <<>>)
         \/ \E from \in {"bootargs", "checksums"}, to \in {"checksums", "clearpart"} : Moves(from, to, <<>>, <<>>)
<1>1. pc \in Labels /\ ctx \in StackAt(pc)
  BY DEF Undisturbed, StackInv
<1>2. ctx' = ctx /\ pc \in DOMAIN After /\ pc' = After[pc]
  BY DEF Advance, Goto
<1>3. \/ pc \in {"update", "simulate"} /\ pc' \in {"simulate", "install"}
      \/ pc = "clean" /\ pc' = "unwind"
      \/ pc = "preflight" /\ pc' = "extract"
      \/ pc \in {"isopolicy", "metadata"} /\ pc' \in {"metadata", "squash"}
      \/ pc \in {"bootargs", "checksums"} /\ pc' \in {"checksums", "clearpart"}
  BY <1>2 DEF After
<1> QED BY <1>1, <1>2, <1>3 DEF Moves, StackAt

\* The steps an undisturbed run may take, by the course they follow.
LEMMA CourseSteps ==
  ASSUME Undisturbed, [Next]_vars, ~failed', pc' # "killed"
  PROVE  \/ Prepare \/ Chroot \/ Unwind \/ Finish \/ Advance \/ UNCHANGED vars
BY DEF Next, Program, Idle, StepFails, Kill, Goto

\* What a run keeps whatever happens.
Fields ==
  /\ job \in JobType
  /\ DOMAIN root = RootFields /\ DOMAIN local = DOMAIN NoLocals
  /\ DOMAIN boot = Versions /\ \A v \in Versions : DOMAIN boot[v] = {"made", "has"}

\* Every step keeps the fields of the root and the tree, and the job.
LEMMA FieldsStay ==
  ASSUME Fields, [Next]_vars
  PROVE  Fields' /\ job' = job
<1>1. job' = job
  BY DEF Next, Program, Prepare, Chroot, Unwind, Finish, Idle, vars, Advance, StepFails,
     Kill, Extract, StageRootPolicy, Defer, Divert, DivertAlias, PlaceShim, DenyServices, LiftMasks,
     WriteAptConfig, MountRoot, MountBind, ReplaceResolv, Install, InstallOptional, Packages, Generate,
     RestoreResolv, Unmount, LeaveMounted, LeaveApt, LeaveUnmask, LeaveService, RemoveShim, Undivert,
     LeaveDeferred, CleanupRaises, StageMasks, StageExtras, PairKernels, CopyInitrds, Squash, ClearPart,
     Master, Publish, DropPart, CleanupWorkspace, WriteManifest
<1>2. DOMAIN root' = DOMAIN root /\ DOMAIN local' = DOMAIN local
  BY DEF Next, Program, Prepare, Chroot, Unwind, Finish, Idle, vars, chrootVars, Advance, StepFails,
     Kill, Extract, StageRootPolicy, Defer, Divert, DivertAlias, PlaceShim, DenyServices, LiftMasks,
     WriteAptConfig, MountRoot, MountBind, Mount, ReplaceResolv, Install, InstallOptional, Packages, Generate,
     RestoreResolv, Unmount, LeaveMounted, LeaveApt, LeaveUnmask, LeaveService, RemoveShim, Undivert,
     LeaveDeferred, CleanupRaises, StageMasks, StageExtras, PairKernels, CopyInitrds, Squash, ClearPart,
     Master, Publish, DropPart, CleanupWorkspace, WriteManifest, Fields, RootFields, NoLocals
<1>3. DOMAIN boot' = Versions /\ \A v \in Versions : DOMAIN boot'[v] = {"made", "has"}
  <2>1. CASE Install \/ InstallOptional
    BY <2>1 DEF Install, InstallOptional, Packages, Fields
  <2>2. CASE Generate
    BY <2>2 DEF Generate, Fields
  <2>3. CASE boot' = boot
    BY <2>3 DEF Fields
  <2> QED BY <2>1, <2>2, <2>3
     DEF Next, Program, Prepare, Chroot, Unwind, Finish, Idle, vars, chrootVars, Advance, StepFails,
     Kill, Extract, StageRootPolicy, Defer, Divert, DivertAlias, PlaceShim, DenyServices, LiftMasks,
     WriteAptConfig, MountRoot, MountBind, ReplaceResolv,
     RestoreResolv, Unmount, LeaveMounted, LeaveApt, LeaveUnmask, LeaveService, RemoveShim, Undivert,
     LeaveDeferred, CleanupRaises, StageMasks, StageExtras, PairKernels, CopyInitrds, Squash, ClearPart,
     Master, Publish, DropPart, CleanupWorkspace, WriteManifest
<1> QED BY <1>1, <1>2, <1>3 DEF Fields

-----------------------------------------------------------------------------
\* Where a run is: before the scaffolding and after it, inside it, before and
\* after the packages, with everything in the root, with the initrds in the
\* tree, with the root packed.
Untouched == ctx \in {<<>>, M} \/ pc = "divert"
Covered == pc = "deny" \/ ctx \in Serving

Bare == pc \in {"preflight", "extract", "unsquash"}
Based ==
  \/ pc \in {"defer", "divert", "alias", "shim", "deny", "lift", "aptconf"}
  \/ pc = "mount" /\ ctx = AUSD
  \/ pc \in {"bind", "resolv", "update", "simulate", "install"} /\ ctx = MAUSD
Packaged ==
  \/ pc \in {"optional", "clean", "masks", "extras"}
  \/ pc = "unwind" /\ ctx \in {D, SD, USD, AUSD, MAUSD}
Complete ==
  \/ ctx = M
  \/ pc \in {"kernels", "mount", "copy", "isopolicy", "metadata", "squash", "bootargs", "checksums",
             "clearpart", "master", "publish"} /\ ctx = <<>>

Generated == pc = "copy" \/ (pc = "unwind" /\ ctx = M)
Copied == pc \in {"isopolicy", "metadata", "squash", "bootargs", "checksums", "clearpart", "master", "publish"}
Packed == pc \in {"bootargs", "checksums", "clearpart", "master", "publish"}

\* The step that leads from one place to the next.
PlaceSteps ==
  /\ Untouched' => Untouched \/ LeaveDeferred
  /\ pc' = "alias" => pc = "alias" \/ (Divert /\ job.aliased)
  /\ pc' = "shim" => pc = "shim" \/ (Divert /\ ~job.aliased) \/ DivertAlias
  /\ Covered' => Covered \/ PlaceShim
  /\ pc' = "unwind" /\ ctx' = D => (pc = "unwind" /\ ctx = D) \/ LeaveService
  /\ Bare' => Bare
  /\ Based' => Based \/ StageRootPolicy
  /\ Packaged' => Packaged \/ Install
  /\ Complete' => Complete \/ StageExtras
  /\ pc' = "extras" => pc = "extras" \/ StageMasks
  /\ Generated' => Generated \/ Generate
  /\ Copied' => Copied \/ CopyInitrds
  /\ Packed' => Packed \/ Squash

\* Each place is reached only from those before it.
LEMMA PlacesFollow ==
  ASSUME Undisturbed, [Next]_vars, ~failed', pc' # "killed"
  PROVE  PlaceSteps
<1>1. CASE Prepare
  BY <1>1, PrepareCourse, StacksDiffer DEF Prepare, Moves, PlaceSteps, Untouched, Covered, Serving,
     Bare, Based, Packaged, Complete, Generated, Copied, Packed
<1>2. CASE Chroot
  BY <1>2, ChrootCourse, StacksDiffer DEF Chroot, Moves, PlaceSteps, Untouched, Covered, Serving,
     Bare, Based, Packaged, Complete, Generated, Copied, Packed
<1>3. CASE Unwind
  BY <1>3, UnwindCourse, StacksDiffer DEF Unwind, Moves, PlaceSteps, Untouched, Covered, Serving,
     Bare, Based, Packaged, Complete, Generated, Copied, Packed
<1>4. CASE Finish
  BY <1>4, FinishCourse, StacksDiffer DEF Finish, Moves, PlaceSteps, Untouched, Covered, Serving,
     Bare, Based, Packaged, Complete, Generated, Copied, Packed
<1>5. CASE Advance
  BY <1>5, AdvanceCourse, StacksDiffer DEF Moves, PlaceSteps, Untouched, Covered, Serving,
     Bare, Based, Packaged, Complete, Generated, Copied, Packed
<1>6. CASE UNCHANGED vars
  BY <1>6 DEF vars, PlaceSteps, Untouched, Covered, Bare, Based, Packaged, Complete, Generated, Copied, Packed
<1> QED BY <1>1, <1>2, <1>3, <1>4, <1>5, <1>6, CourseSteps

\* The steps that change each part of the state.
Frame ==
  /\ root'.has = root.has \/ StageRootPolicy \/ Install \/ InstallOptional \/ StageExtras
  /\ root'.units = root.units \/ LiftMasks \/ LeaveUnmask \/ StageMasks
  /\ root'.policyrc = root.policyrc \/ DenyServices \/ LeaveService
  /\ (root'.resolv = root.resolv /\ local'.saved = local.saved) \/ ReplaceResolv \/ RestoreResolv
  /\ \/ /\ root'.command = root.command /\ root'.diverted = root.diverted
        /\ local'.active = local.active /\ local'.created = local.created
     \/ Divert \/ DivertAlias \/ PlaceShim \/ Install \/ InstallOptional \/ RemoveShim \/ Undivert
  /\ (boot' = boot /\ local'.generated = local.generated) \/ Install \/ InstallOptional \/ Generate
  /\ initrd' = initrd \/ CopyInitrds
  /\ squash' = squash \/ Squash
  /\ final' = final \/ Publish

\* What each step leaves alone.
LEMMA StepsFrame ==
  ASSUME Undisturbed, Fields, [Next]_vars, ~failed', pc' # "killed"
  PROVE  Frame
<1>1. CASE Prepare
  BY <1>1 DEF Prepare, Extract, StageRootPolicy, Defer, Divert, DivertAlias, PlaceShim, DenyServices,
     LiftMasks, WriteAptConfig, chrootVars, isoVars, Fields, RootFields, NoLocals, Frame
<1>2. CASE Chroot
  BY <1>2 DEF Chroot, MountRoot, MountBind, Mount, ReplaceResolv, Install, InstallOptional, Packages, Generate,
     chrootVars, isoVars, Fields, RootFields, NoLocals, Frame
<1>3. CASE Unwind
  <2>1. ~CleanupRaises
    BY UnwindCourse
  <2> QED BY <1>3, <2>1 DEF Unwind, RestoreResolv, Unmount, LeaveMounted, LeaveApt, LeaveUnmask, LeaveService,
       RemoveShim, Undivert, LeaveDeferred, chrootVars, isoVars, Fields, RootFields, NoLocals, Frame
<1>4. CASE Finish
  BY <1>4 DEF Finish, StageMasks, StageExtras, PairKernels, CopyInitrds, Squash, ClearPart, Master, Publish,
     DropPart, CleanupWorkspace, WriteManifest, chrootVars, isoVars, Fields, RootFields, Frame
<1>5. CASE Advance
  BY <1>5 DEF Advance, chrootVars, isoVars, Frame
<1>6. CASE UNCHANGED vars
  BY <1>6 DEF vars, Frame
<1> QED BY <1>1, <1>2, <1>3, <1>4, <1>5, <1>6, CourseSteps

-----------------------------------------------------------------------------
\* The states of the diversions.
Diverted(command, diverted, active, created) ==
  /\ root.command = command /\ root.diverted = diverted
  /\ local.active = active /\ local.created = created

Whole == Diverted("real", {}, <<>>, FALSE)
Parked == Diverted("none", {"command"}, <<"command">>, FALSE)
Aliased == Diverted("none", {"command", "alias"}, <<"command", "alias">>, FALSE)
Shimmed ==
  IF job.aliased THEN Diverted("shim", {"command", "alias"}, <<"command", "alias">>, TRUE)
  ELSE Diverted("shim", {"command"}, <<"command">>, TRUE)

Diversions ==
  /\ Untouched => Whole
  /\ pc = "alias" => job.aliased /\ Parked
  /\ pc = "shim" => IF job.aliased THEN Aliased ELSE Parked
  /\ Covered => Shimmed
  /\ pc = "unwind" /\ ctx = D => Whole \/ Parked \/ Aliased \/ Shimmed

\* The diversions that can be active.
LEMMA ActiveShapes ==
  /\ Append(<<>>, "command") = <<"command">> /\ Append(<<"command">>, "alias") = <<"command", "alias">>
  /\ <<"command">> # <<>> /\ <<"command", "alias">> # <<>>
  /\ Last(<<"command">>) = "command" /\ Last(<<"command", "alias">>) = "alias"
  /\ Front(<<"command">>) = <<>> /\ Front(<<"command", "alias">>) = <<"command">>
<1> DEFINE one == <<"command">>
           two == <<"command", "alias">>
<1>1. /\ one \in Seq({"command", "alias"}) /\ two \in Seq({"command", "alias"})
      /\ Len(one) = 1 /\ Len(two) = 2 /\ one[1] = "command" /\ two[1] = "command" /\ two[2] = "alias"
  OBVIOUS
<1>2. Append(<<>>, "command") = one /\ Front(one) = <<>> /\ Last(one) = "command"
  BY DEF Front, Last
<1> HIDE DEF one, two
<1>3. Append(one, two[Len(two)]) = two /\ Front(two) = one /\ Last(two) = two[Len(two)]
  <2>1. Len(two) = Len(one) + 1 /\ \A i \in 1 .. Len(one) : two[i] = one[i]
    BY <1>1
  <2> QED BY <1>1, <2>1, Appended
<1>4. one # <<>> /\ two # <<>>
  BY <1>1
<1> QED BY <1>1, <1>2, <1>3, <1>4 DEF one, two

\* While the shim is in place, packages change neither it nor an initrd.
LEMMA ShimHolds ==
  ASSUME Undisturbed, Fields, Diversions, ~failed', Install \/ InstallOptional
  PROVE  /\ root'.command = root.command /\ root'.diverted = root.diverted /\ local' = local /\ boot' = boot
         /\ root'.has = root.has \cup {"packages"}
<1>1. Shimmed
  BY ChrootCourse DEF Moves, Diversions, Covered, Serving
<1>2. PICK path \in {"none", "command"} \cup (IF job.aliased THEN {"alias"} ELSE {}), triggered \in BOOLEAN :
        LET command == IF path \in {"none"} \cup root.diverted THEN root.command ELSE "real"
            has     == root.has \cup {"packages"} IN
        /\ root' = [root EXCEPT !.has = has, !.command = command]
        /\ boot' = IF triggered /\ command = "real"
                   THEN [v \in Versions |-> [made |-> boot[v].made + 1, has |-> has]]
                   ELSE boot
        /\ local' = local
  BY DEF Install, InstallOptional, Packages
<1>3. root.command = "shim" /\ path \in {"none"} \cup root.diverted
  BY <1>1, <1>2 DEF Shimmed, Diverted
<1>4. root' = [root EXCEPT !.has = root.has \cup {"packages"}, !.command = root.command] /\ boot' = boot
  BY <1>2, <1>3
<1> QED BY <1>2, <1>4 DEF Fields, RootFields

\* Diversions are active while the frame that removes them is pushed.
LEMMA DiversionSteps ==
  ASSUME Undisturbed, Fields, Diversions, [Next]_vars, ~failed', pc' # "killed"
  PROVE  Diversions'
<1>1. job' = job /\ PlaceSteps /\ Frame
  BY FieldsStay, PlacesFollow, StepsFrame
<1>2. CASE Divert
  <2>1. Moves("divert", IF job.aliased THEN "alias" ELSE "shim", D, D)
    BY <1>2, PrepareCourse
  <2>2. Whole
    BY <2>1 DEF Moves, Diversions, Untouched
  <2>3. Parked'
    BY <1>2, <2>2, ActiveShapes DEF Divert, Whole, Parked, Diverted, Fields, RootFields, NoLocals
  <2> QED BY <1>1, <2>1, <2>3, StacksDiffer DEF Moves, Diversions, Untouched, Covered, Serving
<1>3. CASE DivertAlias
  <2>1. Moves("alias", "shim", D, D)
    BY <1>3, PrepareCourse
  <2>2. Parked
    BY <2>1 DEF Moves, Diversions
  <2>3. job.aliased
    BY <2>1 DEF Moves, Diversions
  <2>4. Aliased'
    BY <1>3, <2>2, ActiveShapes DEF DivertAlias, Parked, Aliased, Diverted, Fields, RootFields, NoLocals
  <2> QED BY <1>1, <2>1, <2>3, <2>4, StacksDiffer DEF Moves, Diversions, Untouched, Covered, Serving
<1>4. CASE PlaceShim
  <2>1. Moves("shim", "deny", D, D)
    BY <1>4, PrepareCourse
  <2>2. IF job.aliased THEN Aliased ELSE Parked
    BY <2>1 DEF Moves, Diversions
  <2>3. Shimmed'
    BY <1>1, <1>4, <2>2 DEF PlaceShim, Aliased, Parked, Shimmed, Diverted, Fields, RootFields, NoLocals
  <2> QED BY <1>1, <2>1, <2>3, StacksDiffer DEF Moves, Diversions, Untouched, Covered, Serving
<1>5. CASE RemoveShim
  <2>1. Moves("unwind", "unwind", D, D)
    BY <1>5, UnwindCourse
  <2>2. Whole \/ Parked \/ Aliased \/ Shimmed
    BY <2>1 DEF Moves, Diversions
  <2>3. Shimmed
    BY <1>5, <2>2 DEF RemoveShim, Whole, Parked, Aliased, Diverted
  <2>4. Parked' \/ Aliased'
    BY <1>5, <2>3 DEF RemoveShim, Shimmed, Parked, Aliased, Diverted, Fields, RootFields, NoLocals
  <2> QED BY <2>1, <2>4, StacksDiffer DEF Moves, Diversions, Untouched, Covered, Serving
<1>6. CASE Undivert
  <2>1. Moves("unwind", "unwind", D, D)
    BY <1>6, UnwindCourse
  <2>2. Whole \/ Parked \/ Aliased \/ Shimmed
    BY <2>1 DEF Moves, Diversions
  <2>3. Parked \/ Aliased
    BY <1>6, <2>2 DEF Undivert, Whole, Shimmed, Diverted
  <2>4. Parked => Whole'
    BY <1>6, ActiveShapes DEF Undivert, Whole, Parked, Diverted, Fields, RootFields, NoLocals
  <2>5. Aliased => Parked'
    BY <1>6, ActiveShapes DEF Undivert, Aliased, Parked, Diverted, Fields, RootFields, NoLocals
  <2> QED BY <2>1, <2>3, <2>4, <2>5, StacksDiffer DEF Moves, Diversions, Untouched, Covered, Serving
<1>7. CASE ~Divert /\ ~DivertAlias /\ ~PlaceShim /\ ~RemoveShim /\ ~Undivert
  <2>1. /\ root'.command = root.command /\ root'.diverted = root.diverted
        /\ local'.active = local.active /\ local'.created = local.created
    BY <1>1, <1>7, ShimHolds DEF Frame
  <2>2. (Whole' <=> Whole) /\ (Parked' <=> Parked) /\ (Aliased' <=> Aliased) /\ (Shimmed' <=> Shimmed)
    BY <1>1, <2>1 DEF Whole, Parked, Aliased, Shimmed, Diverted
  <2>3. LeaveDeferred => Whole
    <3> SUFFICES ASSUME LeaveDeferred PROVE Whole
      OBVIOUS
    <3>1. Whole \/ Parked \/ Aliased \/ Shimmed
      BY UnwindCourse DEF Moves, Diversions
    <3> QED BY <3>1, ActiveShapes DEF LeaveDeferred, Parked, Aliased, Shimmed, Diverted
  <2>4. LeaveService => Shimmed
    BY UnwindCourse DEF Moves, Diversions, Covered, Serving
  <2> QED BY <1>1, <1>7, <2>2, <2>3, <2>4 DEF PlaceSteps, Diversions
<1> QED BY <1>2, <1>3, <1>4, <1>5, <1>6, <1>7

-----------------------------------------------------------------------------
\* The rest of the scaffolding: firmware units, policy-rc.d, resolv.conf.
Resolv ==
  /\ local.saved = "untouched" => (job.resolv # "link" => root.resolv = job.resolv)
  /\ local.saved # "untouched" =>
       /\ ctx \in {MAUSD, M} /\ pc \notin {"mount", "bind", "resolv"}
       /\ job.resolv # "link" => local.saved = job.resolv

Scaffolding ==
  /\ Complete \/ pc = "extras" => root.units = "masked"
  /\ ctx \notin Serving => root.policyrc = job.policyrc
  /\ Resolv

\* A complete root has its units masked.
LEMMA UnitSteps ==
  ASSUME Undisturbed, Fields, Scaffolding, [Next]_vars, ~failed', pc' # "killed"
  PROVE  Complete' \/ pc' = "extras" => root'.units = "masked"
<1>1. PlaceSteps /\ Frame
  BY PlacesFollow, StepsFrame
<1>2. CASE LiftMasks
  <2>1. Moves("lift", "aptconf", SD, USD)
    BY <1>2, PrepareCourse
  <2> QED BY <2>1, StacksDiffer DEF Moves, Complete
<1>3. CASE LeaveUnmask \/ StageMasks
  BY <1>3 DEF LeaveUnmask, StageMasks, Fields, RootFields
<1>4. CASE root'.units = root.units
  <2>1. StageExtras => pc = "extras"
    BY DEF StageExtras
  <2>2. StageMasks => root'.units = "masked"
    BY DEF StageMasks, Fields, RootFields
  <2> QED BY <1>1, <1>4, <2>1, <2>2 DEF PlaceSteps, Scaffolding
<1> QED BY <1>1, <1>2, <1>3, <1>4 DEF Frame

\* Outside the frame that denies services the policy is the job's.
LEMMA PolicySteps ==
  ASSUME Undisturbed, Fields, Scaffolding, [Next]_vars, ~failed', pc' # "killed"
  PROVE  ctx' \notin Serving => root'.policyrc = job'.policyrc
<1>1. job' = job /\ Frame
  BY FieldsStay, StepsFrame
<1>2. CASE DenyServices
  <2>1. ctx' = SD
    BY <1>2, PrepareCourse DEF Moves
  <2> QED BY <2>1 DEF Serving
<1>3. CASE LeaveService
  BY <1>1, <1>3 DEF LeaveService, Fields, RootFields
<1>4. CASE root'.policyrc = root.policyrc /\ ~DenyServices /\ ~LeaveService
  <2>1. ctx' \notin Serving => ctx \notin Serving
    <3>1. CASE Prepare
      BY <1>4, <3>1, PrepareCourse, StacksDiffer DEF Prepare, Moves, Serving
    <3>2. CASE Chroot
      BY <3>2, ChrootCourse, StacksDiffer DEF Chroot, Moves, Serving
    <3>3. CASE Unwind
      BY <1>4, <3>3, UnwindCourse, StacksDiffer DEF Unwind, Moves, Serving
    <3>4. CASE Finish
      BY <3>4, FinishCourse, StacksDiffer DEF Finish, Moves, Serving
    <3>5. CASE Advance \/ UNCHANGED vars
      BY <3>5 DEF Advance, vars
    <3> QED BY <3>1, <3>2, <3>3, <3>4, <3>5, CourseSteps
  <2> QED BY <1>1, <1>4, <2>1 DEF Scaffolding
<1> QED BY <1>1, <1>2, <1>3, <1>4 DEF Frame

\* The job's resolver file is saved, and replaced only inside the mounts.
LEMMA ResolvSteps ==
  ASSUME Undisturbed, Fields, Resolv, [Next]_vars, ~failed', pc' # "killed"
  PROVE  Resolv'
<1>1. job' = job /\ Frame /\ job.resolv \in {"absent", "file", "link"}
  BY FieldsStay, StepsFrame DEF Fields, JobType
<1>2. CASE ReplaceResolv
  <2>1. /\ pc = "resolv" /\ ctx' \in {MAUSD, M} /\ pc' \in {"update", "generate"}
    BY <1>2, ChrootCourse DEF Moves
  <2>2. local.saved = "untouched"
    BY <2>1 DEF Resolv
  <2>3. \/ root'.resolv = root.resolv /\ local'.saved = local.saved
        \/ local'.saved = root.resolv
    BY <1>2 DEF ReplaceResolv, Fields, NoLocals
  <2>4. job.resolv # "link" => root.resolv = job.resolv
    BY <2>2 DEF Resolv
  <2>5. CASE root'.resolv = root.resolv /\ local'.saved = local.saved
    BY <1>1, <2>2, <2>4, <2>5 DEF Resolv
  <2>6. CASE local'.saved = root.resolv /\ job.resolv # "link"
    BY <1>1, <2>1, <2>4, <2>6 DEF Resolv
  <2>7. CASE local'.saved = root.resolv /\ job.resolv = "link"
    BY <1>1, <2>1, <2>7 DEF Resolv
  <2> QED BY <2>3, <2>5, <2>6, <2>7
<1>3. CASE RestoreResolv
  <2>1. local.saved # "untouched" /\ local'.saved = "untouched"
    BY <1>3 DEF RestoreResolv, Fields, NoLocals
  <2>2. root'.resolv = local.saved \/ local.saved = "link"
    BY <1>3 DEF RestoreResolv, Fields, RootFields
  <2> QED BY <1>1, <2>1, <2>2 DEF Resolv
<1>4. CASE root'.resolv = root.resolv /\ local'.saved = local.saved
  <2>1. CASE local.saved = "untouched"
    BY <1>1, <1>4, <2>1 DEF Resolv
  <2>2. CASE local.saved # "untouched"
    <3>1. ctx \in {MAUSD, M} /\ pc \notin {"mount", "bind", "resolv"}
      BY <2>2 DEF Resolv
    <3>2. ctx' = ctx /\ pc' \notin {"mount", "bind", "resolv"}
      <4>1. CASE Prepare
        BY <3>1, <4>1, PrepareCourse, StacksDiffer DEF Prepare, Moves
      <4>2. CASE Chroot
        BY <3>1, <4>2, ChrootCourse, StacksDiffer DEF Chroot, Moves
      <4>3. CASE Unwind
        <5>1. ~LeaveMounted
          BY <2>2 DEF LeaveMounted
        <5> QED BY <3>1, <4>3, <5>1, UnwindCourse, StacksDiffer DEF Unwind, Moves
      <4>4. CASE Finish
        BY <3>1, <4>4, FinishCourse, StacksDiffer DEF Finish, Moves
      <4>5. CASE Advance
        BY <3>1, <4>5, AdvanceCourse, StacksDiffer DEF Moves
      <4>6. CASE UNCHANGED vars
        BY <3>1, <4>6 DEF vars
      <4> QED BY <4>1, <4>2, <4>3, <4>4, <4>5, <4>6, CourseSteps
    <3> QED BY <1>1, <1>4, <2>2, <3>1, <3>2 DEF Resolv
  <2> QED BY <2>1, <2>2
<1> QED BY <1>1, <1>2, <1>3, <1>4 DEF Frame

\* Nothing a remaster puts up for itself stays in the root.
LEMMA ScaffoldingSteps ==
  ASSUME Undisturbed, Fields, Scaffolding, [Next]_vars, ~failed', pc' # "killed"
  PROVE  Scaffolding'
BY UnitSteps, PolicySteps, ResolvSteps DEF Scaffolding

-----------------------------------------------------------------------------
\* What has been put into the root.
Base(j) == IF j.profile \in {"debian", "kali"} THEN {"policy"} ELSE {}

Contents ==
  /\ Bare => root.has = {}
  /\ Based => root.has = Base(job)
  /\ Packaged => root.has = Base(job) \cup {"packages"}
  /\ Complete => root.has = Required(job)

\* What was installed and staged stays in the root.
LEMMA ContentSteps ==
  ASSUME Undisturbed, Fields, Diversions, Contents, [Next]_vars, ~failed', pc' # "killed"
  PROVE  Contents'
<1>1. job' = job /\ PlaceSteps /\ Frame
  BY FieldsStay, PlacesFollow, StepsFrame
<1>2. CASE StageRootPolicy
  <2>1. Moves("unsquash", "defer", <<>>, <<>>)
    BY <1>2, PrepareCourse
  <2>2. root.has = {}
    BY <2>1 DEF Moves, Contents, Bare
  <2>3. root'.has = Base(job)
    BY <1>2, <2>2 DEF StageRootPolicy, Base, Fields, RootFields
  <2> QED BY <1>1, <2>1, <2>3, StacksDiffer DEF Moves, Contents, Bare, Based, Packaged, Complete
<1>3. CASE Install \/ InstallOptional
  <2>1. /\ pc \in {"install", "optional"} /\ pc' \in {"optional", "clean"} /\ ctx = MAUSD /\ ctx' = MAUSD
    BY <1>3, ChrootCourse DEF Moves
  <2>2. root.has \cup {"packages"} = Base(job) \cup {"packages"}
    BY <2>1 DEF Contents, Based, Packaged
  <2>3. root'.has = Base(job) \cup {"packages"}
    BY <1>3, <2>2, ShimHolds
  <2> QED BY <1>1, <2>1, <2>3, StacksDiffer DEF Contents, Bare, Based, Packaged, Complete
<1>4. CASE StageExtras
  <2>1. Moves("extras", "kernels", <<>>, <<>>)
    BY <1>4, FinishCourse
  <2>2. root.has = Base(job) \cup {"packages"}
    BY <2>1 DEF Moves, Contents, Packaged
  <2>3. root'.has = Required(job)
    BY <1>4, <2>2 DEF StageExtras, Required, Base, Fields, RootFields
  <2> QED BY <1>1, <2>1, <2>3, StacksDiffer DEF Moves, Contents, Bare, Based, Packaged, Complete
<1>5. CASE root'.has = root.has /\ ~StageRootPolicy /\ ~Install /\ ~StageExtras
  BY <1>1, <1>5 DEF PlaceSteps, Contents
<1> QED BY <1>1, <1>2, <1>3, <1>4, <1>5 DEF Frame

-----------------------------------------------------------------------------
\* The initrds: generated once each, from the complete root.
Initrds ==
  \A v \in Versions :
    /\ v \in local.generated => boot[v] = [made |-> 1, has |-> Required(job)]
    /\ v \notin local.generated => boot[v].made = 0

InTree ==
  /\ Generated => KernelsUsed(job) \subseteq local.generated
  /\ Copied => \A m \in Members : initrd[m] = [kernel |-> KernelOf(job, m), has |-> Required(job)]
  /\ Packed => squash = <<root>>

\* The version of a boot entry's kernel.
LEMMA KernelsTyped ==
  ASSUME Fields, NEW m \in Members
  PROVE  KernelOf(job, m) \in Versions
<1>1. job.entries \subseteq Members \X Versions /\ job.default \in Versions
  BY DEF Fields, JobType
<1>2. CASE \E e \in job.entries : e[1] = m
  <2> DEFINE e == CHOOSE e \in job.entries : e[1] = m
  <2>1. e \in job.entries
    BY <1>2
  <2>2. KernelOf(job, m) = e[2]
    BY <1>2 DEF KernelOf
  <2> HIDE DEF e
  <2> QED BY <1>1, <2>1, <2>2
<1>3. CASE ~\E e \in job.entries : e[1] = m
  BY <1>1, <1>3 DEF KernelOf
<1> QED BY <1>2, <1>3

\* The initrds that are generated hold what the root holds by then.
LEMMA InitrdSteps ==
  ASSUME Undisturbed, Fields, Diversions, Contents, Initrds, [Next]_vars, ~failed', pc' # "killed"
  PROVE  Initrds'
<1>1. job' = job /\ Frame
  BY FieldsStay, StepsFrame
<1>2. CASE Generate
  <2>1. PICK v \in Pending :
          /\ boot' = [boot EXCEPT ![v] = [made |-> @.made + 1, has |-> root.has]]
          /\ local' = [local EXCEPT !.generated = @ \cup {v}]
    BY <1>2 DEF Generate
  <2>2. root.has = Required(job)
    BY <1>2, ChrootCourse DEF Moves, Contents, Complete
  <2>3. v \notin local.generated /\ local'.generated = local.generated \cup {v}
    BY <2>1 DEF Pending, Fields, NoLocals
  <2>4. \A u \in Versions : boot'[u] = IF u = v THEN [made |-> boot[v].made + 1, has |-> Required(job)] ELSE boot[u]
    BY <2>1, <2>2 DEF Fields
  <2>5. v \in Versions => boot[v].made = 0
    BY <2>3 DEF Initrds
  <2> QED BY <1>1, <2>3, <2>4, <2>5 DEF Initrds
<1>3. CASE ~Generate
  BY <1>1, <1>3, ShimHolds DEF Frame, Initrds
<1> QED BY <1>2, <1>3

\* The tree that becomes the image holds the root and the initrds.
LEMMA TreeSteps ==
  ASSUME Undisturbed, Fields, Diversions, Contents, Initrds, InTree, [Next]_vars, ~failed', pc' # "killed"
  PROVE  InTree'
<1>1. job' = job /\ PlaceSteps /\ Frame
  BY FieldsStay, PlacesFollow, StepsFrame
<1>2. Generated' => KernelsUsed(job') \subseteq local'.generated
  <2>1. CASE Generate
    <3>1. PICK v \in Pending :
            /\ local' = [local EXCEPT !.generated = @ \cup {v}]
            /\ pc' = IF Pending = {v} THEN "unwind" ELSE "generate"
      BY <2>1 DEF Generate, Goto
    <3>2. local'.generated = local.generated \cup {v}
      BY <3>1 DEF Fields, NoLocals
    <3> QED BY <1>1, <3>1, <3>2 DEF Pending, Generated, KernelsUsed
  <2>2. CASE ~Generate
    <3>1. local'.generated = local.generated
      BY <1>1, <2>2, ShimHolds DEF Frame
    <3> QED BY <1>1, <2>2, <3>1 DEF PlaceSteps, InTree, KernelsUsed
  <2> QED BY <2>1, <2>2
<1>3. Copied' => \A m \in Members : initrd'[m] = [kernel |-> KernelOf(job', m), has |-> Required(job')]
  <2>1. CASE CopyInitrds
    <3>1. pc = "copy" /\ \A m \in Members :
            initrd'[m] = [kernel |-> KernelOf(job, m), has |-> boot[KernelOf(job, m)].has]
      BY <2>1 DEF CopyInitrds
    <3>2. ASSUME NEW m \in Members
          PROVE  boot[KernelOf(job, m)].has = Required(job)
      <4>1. KernelOf(job, m) \in local.generated
        BY <3>1 DEF InTree, Generated, KernelsUsed
      <4>2. KernelOf(job, m) \in Versions
        BY KernelsTyped
      <4> QED BY <4>1, <4>2 DEF Initrds
    <3> QED BY <1>1, <3>1, <3>2
  <2>2. CASE ~CopyInitrds
    BY <1>1, <2>2 DEF PlaceSteps, Frame, InTree
  <2> QED BY <2>1, <2>2
<1>4. Packed' => squash' = <<root'>>
  <2>1. CASE Squash
    BY <2>1 DEF Squash, chrootVars
  <2>2. CASE ~Squash
    <3> SUFFICES ASSUME Packed' PROVE squash' = <<root'>>
      OBVIOUS
    <3>1. Packed /\ squash' = squash
      BY <1>1, <2>2 DEF PlaceSteps, Frame
    <3>2. ctx = <<>>
      BY <3>1 DEF Packed, Undisturbed, StackInv, StackAt
    <3>3. root' = root
      <4>1. CASE Prepare
        BY <3>1, <4>1, PrepareCourse DEF Prepare, Moves, Packed
      <4>2. CASE Chroot
        BY <3>1, <4>2, ChrootCourse DEF Chroot, Moves, Packed
      <4>3. CASE Unwind
        BY <3>1, <4>3, UnwindCourse DEF Unwind, Moves, Packed
      <4>4. CASE Finish
        BY <3>1, <4>4 DEF Finish, StageMasks, StageExtras, PairKernels, CopyInitrds, Squash, ClearPart, Master,
           Publish, DropPart, CleanupWorkspace, WriteManifest, chrootVars, Packed
      <4>5. CASE Advance \/ UNCHANGED vars
        BY <4>5 DEF Advance, vars, chrootVars
      <4> QED BY <4>1, <4>2, <4>3, <4>4, <4>5, CourseSteps
    <3> QED BY <3>1, <3>3 DEF InTree
  <2> QED BY <2>1, <2>2
<1> QED BY <1>2, <1>3, <1>4 DEF InTree

-----------------------------------------------------------------------------
(* Together.                                                               *)

\* While nothing has failed.
OnCourse == Diversions /\ Scaffolding /\ Contents /\ InTree

PublicationInv ==
  /\ Fields /\ StackInv
  /\ ~failed /\ pc # "killed" => OnCourse
  /\ ~failed => Initrds
  /\ PublishedRootClean /\ PublishedInitrdsCurrent

\* A run is killed by a kill.
LEMMA OnlyKillKills ==
  ASSUME StackInv, [Next]_vars, pc' = "killed"
  PROVE  Kill \/ UNCHANGED vars
<1>1. ~Advance
  BY DEF Advance, After, Goto
<1>2. ~Prepare /\ ~Chroot
  BY DEF Prepare, Chroot, Goto, Extract, StageRootPolicy, Defer, Divert, DivertAlias, PlaceShim, DenyServices,
     LiftMasks, WriteAptConfig, MountRoot, MountBind, Mount, ReplaceResolv, Install, InstallOptional, Packages,
     Generate
<1>3. ~Unwind
  BY DEF Unwind, RestoreResolv, Unmount, LeaveMounted, LeaveApt, LeaveUnmask, LeaveService, RemoveShim,
     Undivert, LeaveDeferred, CleanupRaises, Leaving, Leave, Goto
<1>4. ~Finish /\ ~StepFails
  BY DEF Finish, StepFails, Goto, StageMasks, StageExtras, PairKernels, CopyInitrds, Squash, ClearPart, Master,
     Publish, DropPart, CleanupWorkspace, WriteManifest
<1> QED BY <1>1, <1>2, <1>3, <1>4 DEF Next, Program, Idle

\* The published image changes in one step.
LEMMA OnlyPublishPublishes ==
  ASSUME [Next]_vars
  PROVE  final' = final \/ Publish
BY DEF Next, Program, Prepare, Chroot, Unwind, Finish, Idle, vars, isoVars, Advance, StepFails,
   Kill, Extract, StageRootPolicy, Defer, Divert, DivertAlias, PlaceShim, DenyServices, LiftMasks,
   WriteAptConfig, MountRoot, MountBind, ReplaceResolv, Install, InstallOptional, Packages, Generate,
   RestoreResolv, Unmount, LeaveMounted, LeaveApt, LeaveUnmask, LeaveService, RemoveShim, Undivert,
   LeaveDeferred, CleanupRaises, StageMasks, StageExtras, PairKernels, CopyInitrds, Squash, ClearPart,
   Master, DropPart, CleanupWorkspace, WriteManifest

\* Every step keeps what is published sound.
LEMMA PublicationSteps ==
  ASSUME PublicationInv, [Next]_vars
  PROVE  PublicationInv'
<1>1. Fields' /\ job' = job /\ StackInv'
  BY FieldsStay, StackSteps DEF PublicationInv
<1>2. ~failed' /\ pc' # "killed" =>
        Undisturbed /\ Diversions /\ Scaffolding /\ Contents /\ InTree /\ Initrds /\ Fields
  BY StaysUndisturbed DEF PublicationInv, Undisturbed, OnCourse
<1>3. ~failed' /\ pc' # "killed" => OnCourse' /\ Initrds'
  BY <1>2, DiversionSteps, ScaffoldingSteps, ContentSteps, InitrdSteps, TreeSteps DEF OnCourse
<1>4. ~failed' => Initrds'
  <2>1. CASE pc' = "killed"
    <3>1. Kill \/ UNCHANGED vars
      BY <2>1, OnlyKillKills DEF PublicationInv
    <3> QED BY <1>1, <3>1 DEF Kill, vars, chrootVars, PublicationInv, Initrds
  <2> QED BY <1>3, <2>1
<1>5. PublishedRootClean' /\ PublishedInitrdsCurrent'
  <2>1. CASE Publish
    <3>1. pc = "publish" /\ ~failed /\ ctx = <<>>
      BY <2>1 DEF Publish, PublicationInv, StackInv, StackAt
    <3>2. OnCourse /\ Complete /\ Copied /\ Packed /\ Untouched
      BY <3>1 DEF PublicationInv, Complete, Copied, Packed, Untouched
    <3>3. final' = <<[file |-> part, root |-> root, initrd |-> initrd]>>
      BY <2>1, <3>2 DEF Publish, OnCourse, InTree
    <3>4. image'.root = root /\ image'.initrd = initrd
      BY <3>3 DEF image
    <3>5. /\ root.units = "masked" /\ root.policyrc = job.policyrc
          /\ job.resolv # "link" => root.resolv = job.resolv
      BY <3>1, <3>2, StacksDiffer DEF OnCourse, Scaffolding, Resolv, Serving
    <3>6. root.command = "real" /\ root.diverted = {}
      BY <3>2 DEF OnCourse, Diversions, Whole, Diverted
    <3>7. PublishedRootClean'
      BY <1>1, <3>4, <3>5, <3>6 DEF PublishedRootClean
    <3>8. PublishedInitrdsCurrent'
      BY <1>1, <3>2, <3>4 DEF OnCourse, InTree, PublishedInitrdsCurrent
    <3> QED BY <3>7, <3>8
  <2>2. CASE final' = final
    BY <1>1, <2>2 DEF PublicationInv, PublishedRootClean, PublishedInitrdsCurrent, Published, image
  <2>3. final' = final \/ Publish
    BY OnlyPublishPublishes
  <2> QED BY <2>1, <2>2, <2>3
<1> QED BY <1>1, <1>3, <1>4, <1>5 DEF PublicationInv

\* A published image has none of the scaffolding of the chroot work left in
\* it, each of its initrds is the one of its kernel and was generated from the
\* complete root, and no kernel's was generated twice.
THEOREM PublishedImagesAreSound == Spec => []PublishedImageSound
<1>1. Init => PublicationInv
  <2> SUFFICES ASSUME Init PROVE PublicationInv
    OBVIOUS
  <2>1. Fields
    BY JobsAssumption DEF Init, Fields, RootFields
  <2>2. StackInv
    BY StacksDiffer DEF Init, StackInv, StackAt, Labels, Body, After
  <2>3. pc = "preflight" /\ ctx = <<>> /\ final = <<>>
    BY DEF Init
  <2>4. Diversions
    BY <2>3, StacksDiffer DEF Init, NoLocals, Diversions, Untouched, Covered, Serving, Whole, Diverted
  <2>5. Scaffolding
    BY <2>3, StacksDiffer DEF Init, NoLocals, Scaffolding, Resolv, Complete
  <2>6. Contents
    BY <2>3, StacksDiffer DEF Init, Contents, Bare, Based, Packaged, Complete
  <2>7. InTree
    BY <2>3 DEF InTree, Generated, Copied, Packed
  <2>8. Initrds
    BY DEF Init, NoLocals, Initrds
  <2>9. PublishedRootClean /\ PublishedInitrdsCurrent
    BY <2>3 DEF PublishedRootClean, PublishedInitrdsCurrent, Published
  <2> QED BY <2>1, <2>2, <2>4, <2>5, <2>6, <2>7, <2>8, <2>9 DEF PublicationInv, OnCourse
<1>2. PublicationInv /\ [Next]_vars => PublicationInv'
  BY PublicationSteps
<1>3. PublicationInv => PublishedImageSound
  <2> SUFFICES ASSUME PublicationInv, ~failed, NEW v \in Versions PROVE boot[v].made <= 1
    BY DEF PublicationInv, PublishedImageSound, OneGenerationPerKernel
  <2>1. boot[v].made = 1 \/ boot[v].made = 0
    BY DEF PublicationInv, Initrds
  <2> QED BY <2>1
<1> QED BY <1>1, <1>2, <1>3, PTL DEF Spec

-----------------------------------------------------------------------------
(* The final path.                                                         *)

Ending == {"finally", "cleanup", "manifest", "done", "failed", "killed"}

OutcomeInv ==
  /\ StackInv
  /\ pc = "publish" => part = "whole"
  /\ Published => pc \in Ending /\ image.file = "whole"
  /\ pc \in {"finally", "cleanup"} /\ ~failed => Published
  /\ pc \in {"manifest", "done"} => Published

\* Which steps lead to the end of a run.
EndSteps ==
  /\ pc' = "publish" => part' = "whole"
  /\ pc' \in {"finally", "cleanup"} /\ ~failed' => Publish \/ (DropPart /\ pc = "finally" /\ ~failed)
  /\ pc' = "manifest" => pc = "cleanup" /\ ~failed
  /\ pc' = "done" => pc = "manifest"
  /\ pc \in Ending => pc' \in Ending
  /\ pc \notin {"done", "failed", "killed"}
  /\ Publish => pc = "publish" /\ pc' = "finally"

\* How a run may go on once it has published or failed.
LEMMA EndsFollow ==
  ASSUME StackInv, Next
  PROVE  EndSteps \/ UNCHANGED vars
<1>1. CASE Prepare \/ Chroot
  BY <1>1 DEF Prepare, Chroot, Goto, Extract, StageRootPolicy, Defer, Divert, DivertAlias, PlaceShim,
     DenyServices, LiftMasks, WriteAptConfig, MountRoot, MountBind, Mount, ReplaceResolv, Install,
     InstallOptional, Packages, Generate, EndSteps, Ending, Publish
<1>2. CASE Unwind
  <2>1. pc = "unwind" /\ (pc' \in {"unwind", "masks", "copy"} \/ (pc' = "finally" /\ failed' = TRUE))
    BY <1>2 DEF Unwind, RestoreResolv, Unmount, LeaveMounted, LeaveApt, LeaveUnmask, LeaveService,
       RemoveShim, Undivert, LeaveDeferred, CleanupRaises, Leaving, Leave, Goto
  <2> QED BY <2>1 DEF EndSteps, Ending, Publish
<1>3. CASE Finish
  <2>1. CASE StageMasks \/ StageExtras \/ PairKernels \/ CopyInitrds \/ Squash \/ ClearPart
    BY <2>1 DEF StageMasks, StageExtras, PairKernels, CopyInitrds, Squash, ClearPart, Goto, EndSteps, Ending, Publish
  <2>2. CASE Master \/ Publish
    BY <2>2 DEF Master, Publish, Goto, EndSteps, Ending
  <2>3. CASE DropPart \/ CleanupWorkspace \/ WriteManifest
    BY <2>3 DEF DropPart, CleanupWorkspace, WriteManifest, Goto, EndSteps, Ending, Publish
  <2> QED BY <1>3, <2>1, <2>2, <2>3 DEF Finish
<1>4. CASE Advance
  <2>1. pc \notin Ending /\ pc' \notin Ending /\ pc # "publish" /\ pc' # "publish"
    BY <1>4 DEF Advance, After, Goto, Ending
  <2> QED BY <2>1 DEF EndSteps, Ending, Publish
<1>5. CASE StepFails
  <2>1. pc \in Body /\ failed' = TRUE /\ pc' \in {"failed", "finally", "unwind"}
    BY <1>5 DEF StepFails, Goto
  <2>2. pc \notin Ending
    BY <2>1 DEF Body, After, Ending
  <2>3. ~Publish
    BY <1>5 DEF StepFails, Publish, isoVars, Goto, Publish, StackInv, StackAt, Ending
  <2> QED BY <2>1, <2>2, <2>3 DEF EndSteps, Ending
<1>6. CASE Kill
  BY <1>6 DEF Kill, Goto, EndSteps, Ending, Publish
<1>7. CASE Idle
  BY <1>7 DEF Idle
<1> QED BY <1>1, <1>2, <1>3, <1>4, <1>5, <1>6, <1>7 DEF Next, Program

\* Every step is one of the abstract publication's, or changes nothing it sees.
LEMMA OutcomeSteps ==
  ASSUME OutcomeInv, [Next]_vars
  PROVE  OutcomeInv' /\ [IP!Next]_(IP!pvars)
<1> DEFINE output == IF Published THEN image.file ELSE "none"
<1>1. StackInv'
  BY StackSteps DEF OutcomeInv
<1>2. CASE UNCHANGED vars
  <2>1. OutcomeInv'
    BY <1>1, <1>2 DEF vars, OutcomeInv, Published, image, Ending
  <2>2. Stage' = Stage /\ output' = output
    BY <1>2 DEF vars, Stage, Published, image
  <2> QED BY <2>1, <2>2 DEF IP!pvars
<1>3. CASE EndSteps /\ Publish
  <2>1. final' = <<[file |-> part, root |-> squash[1], initrd |-> initrd]>> /\ part = "whole"
    BY <1>3 DEF Publish, OutcomeInv
  <2>2. Published' /\ image'.file = "whole"
    BY <2>1 DEF Published, image
  <2>3. ~Published
    BY <1>3 DEF OutcomeInv, EndSteps, Ending
  <2>4. OutcomeInv'
    BY <1>1, <1>3, <2>2 DEF OutcomeInv, EndSteps, Ending
  <2>5. Stage = "building" /\ Stage' = "published" /\ output' = "whole"
    BY <1>3, <2>2, <2>3 DEF EndSteps, Stage
  <2> QED BY <2>4, <2>5 DEF IP!Next, IP!Publish
<1>4. CASE EndSteps /\ final' = final /\ ~Publish
  <2>1. Published' = Published /\ image' = image /\ output' = output
    BY <1>4 DEF Published, image
  <2>2. OutcomeInv'
    BY <1>1, <1>4, <2>1 DEF OutcomeInv, EndSteps
  <2>3. Stage = IF Published THEN "published" ELSE "building"
    BY <1>4 DEF EndSteps, Stage
  <2>4. CASE pc' \in {"failed", "killed"}
    BY <2>1, <2>2, <2>3, <2>4 DEF Stage, IP!Next, IP!Report
  <2>5. CASE pc' = "done"
    <3>1. Published
      BY <1>4, <2>5 DEF EndSteps, OutcomeInv
    <3> QED BY <2>1, <2>2, <2>3, <2>5, <3>1 DEF Stage, IP!Next, IP!Report
  <2>6. CASE pc' \notin {"done", "failed", "killed"}
    BY <2>1, <2>2, <2>3, <2>6 DEF Stage, IP!pvars
  <2> QED BY <2>4, <2>5, <2>6
<1>5. EndSteps \/ UNCHANGED vars
  BY EndsFollow DEF OutcomeInv
<1>6. final' = final \/ Publish
  BY OnlyPublishPublishes
<1> QED BY <1>2, <1>3, <1>4, <1>5, <1>6

\* Every step of a run is a step of ImagePublication or none of its business:
\* the final path goes once from no image to a whole one, and success is only
\* reported afterwards.
THEOREM PublicationRefined == Spec => IP!Init /\ [][IP!Next]_(IP!pvars)
<1>1. Init => OutcomeInv /\ IP!Init
  <2> SUFFICES ASSUME Init PROVE OutcomeInv /\ IP!Init
    OBVIOUS
  <2>1. StackInv
    BY StacksDiffer DEF Init, StackInv, StackAt, Labels, Body, After
  <2> QED BY <2>1 DEF Init, OutcomeInv, Published, Ending, IP!Init, Stage
<1>2. OutcomeInv /\ [Next]_vars => OutcomeInv' /\ [IP!Next]_(IP!pvars)
  BY OutcomeSteps
<1> QED BY <1>1, <1>2, PTL DEF Spec
=============================================================================
