--------------------------- MODULE BuildIsoProofs ---------------------------
(* What Build ISO publishes, for all plans, catalogs, sources and packages.  *)
EXTENDS BuildIso, WellFoundedInduction, TLAPS

Labels == {"idle", "rebuild", "evidence", "direct", "config", "build", "check", "copy", "copying",
           "payload", "manifest", "clean", "done", "stopped"}

\* The tree that the finished rebuilds and the plan make.
FullTree == Workspace(plan, Effective)

\* What the rules guarantee of a plan in work.
PlanSettled ==
  plan.rootfs = "erofs" /\ plan.policy = "require" /\ plan.mode # "none"
    => "installer_include_dir" \in plan.given

Counted ==
  /\ pc \in Labels
  /\ run \in Nat
  /\ pc # "idle" => run \in 1 .. run /\ PlanSettled

\* Where the run has come to.
Progress ==
  /\ pc \notin {"idle", "rebuild", "stopped"} => ~AuditFails
  /\ pc \notin {"idle", "rebuild", "evidence", "direct", "stopped"} /\ plan.direct # "off"
       => export.di # "none"
  /\ pc \in {"build", "check", "copy", "copying", "payload", "manifest"} => tree = FullTree
  /\ pc \in {"check", "copy", "copying", "payload", "manifest"} =>
       candidate \in [state : {"whole"}, run : {run}, plan : {plan}, tree : {tree}, live : BOOLEAN,
                      archive : BOOLEAN,
                      modules : {tree.modules} \cup {tree.modules \ {m} : m \in Requirements}]
  /\ pc \in {"copy", "copying", "payload", "manifest"} /\ SystemLive(plan) =>
       candidate.archive /\ ContractHolds(candidate)
  /\ pc \in {"payload", "manifest"} => out = candidate
  /\ pc = "manifest" /\ plan.mode = "netinst" => ~out.live

\* What lies at the output path, and what is said of it.
Output ==
  /\ out.state \in {"old", "partial", "whole"}
  /\ AtOutput => out.run \in 1 .. run
  /\ DOMAIN manifests \subseteq 1 .. run
  /\ pc \notin {"clean", "done", "stopped"} => run \notin DOMAIN manifests

PublishedInv == Counted /\ Progress /\ Output /\ PublishedImageChecked

-----------------------------------------------------------------------------

\* The merges keep a plan's choices; packages come from its own lists and, into
\* a live system, from the tool groups, and no list is filled without its field.
LEMMA MergedFields ==
  ASSUME NEW given, PlanFields \subseteq DOMAIN given,
         given.packages # {} => given.given \cap {"base_packages", "extra_chroot_packages"} # {}
  PROVE  LET merged == Merged(given) IN
         /\ DOMAIN merged = DOMAIN given
         /\ merged.mode = given.mode /\ merged.distro = given.distro /\ merged.rootfs = given.rootfs
         /\ merged.policy = given.policy /\ merged.direct = given.direct /\ merged.groups = given.groups
         /\ given.mode # "netinst" => ToolPackages(given) \ Optional(given) \subseteq merged.packages
         /\ given.mode = "netinst" /\ merged.packages # {} =>
              merged.given \cap {"base_packages", "extra_chroot_packages"} # {}
<1> DEFINE tools == WithTools(given)
           specs == WithSpecs(tools)
           merged == Merged(given)
<1>1. /\ DOMAIN tools = DOMAIN given
      /\ tools.mode = given.mode /\ tools.distro = given.distro /\ tools.rootfs = given.rootfs
      /\ tools.policy = given.policy /\ tools.direct = given.direct /\ tools.groups = given.groups
      /\ given.mode = "netinst" => tools = given
      /\ given.mode # "netinst" => ToolPackages(given) \ Optional(given) \subseteq tools.packages
  BY DEF WithTools, PlanFields
<1> HIDE DEF tools
<1>2. /\ DOMAIN specs = DOMAIN tools
      /\ specs.mode = tools.mode /\ specs.distro = tools.distro /\ specs.rootfs = tools.rootfs
      /\ specs.policy = tools.policy /\ specs.direct = tools.direct /\ specs.groups = tools.groups
      /\ specs.packages = Joined(tools, "packages")
      /\ specs.given = Joined(tools, "given") \cup
           {f \in {"extra_chroot_packages"} : \E i \in DOMAIN tools.specs : tools.specs[i].packages # {}}
  BY <1>1 DEF WithSpecs, PlanFields
<1>3. specs.packages # {} => tools.packages # {} \/ \E i \in DOMAIN tools.specs : tools.specs[i].packages # {}
  BY <1>2 DEF Joined
<1>4. tools.given \subseteq specs.given /\ tools.packages \subseteq specs.packages
  BY <1>2 DEF Joined
<1>5. (\E i \in DOMAIN tools.specs : tools.specs[i].packages # {}) => "extra_chroot_packages" \in specs.given
  BY <1>2
<1>6. given.mode = "netinst" /\ specs.packages # {} =>
        specs.given \cap {"base_packages", "extra_chroot_packages"} # {}
  BY <1>1, <1>3, <1>4, <1>5
<1> HIDE DEF specs
<1>7. /\ DOMAIN merged = DOMAIN specs
      /\ merged.mode = specs.mode /\ merged.distro = specs.distro /\ merged.rootfs = specs.rootfs
      /\ merged.policy = specs.policy /\ merged.direct = specs.direct /\ merged.groups = specs.groups
      /\ merged.packages = specs.packages /\ merged.given = specs.given
  BY <1>1, <1>2 DEF Merged, WithOverlay, specs, tools
<1> QED BY <1>1, <1>2, <1>4, <1>6, <1>7

\* What becomes of a plan in the run that accepts it.
LEMMA NormalizedFields ==
  ASSUME NEW r \in DOMAIN Plans, NEW given \in Plans[r]
  PROVE  LET merged == Merged(given)
             normal == Normalized(given) IN
         /\ normal.rootfs = merged.rootfs /\ normal.policy = merged.policy /\ normal.mode = merged.mode
         /\ normal.distro = merged.distro /\ normal.groups = merged.groups /\ normal.packages = merged.packages
         /\ normal.initramfs = merged.initramfs
         /\ merged.given \subseteq normal.given
         /\ normal.given \subseteq merged.given \cup {"filesystem_module_entries"}
<1>1. DOMAIN Merged(given) = DOMAIN given /\ PlanFields \subseteq DOMAIN given
  BY PlansAssumption, MergedFields
<1> QED BY <1>1 DEF Normalized, PlanFields

\* An accepted plan keeps the promises of PlanSettled once it is normalized.
LEMMA AcceptedIsSettled ==
  ASSUME NEW r \in DOMAIN Plans, NEW given \in Plans[r], Accepted(given), plan' = Normalized(given)
  PROVE  PlanSettled'
<1>1. ~ErofsRefused(Merged(given))
  BY DEF Accepted
<1> QED BY <1>1, NormalizedFields DEF ErofsRefused, PlanSettled

\* A complete tree of an audited run has what the EROFS policy requires.
LEMMA TreeIntegrated ==
  ASSUME tree = FullTree, ~AuditFails, PlanSettled
  PROVE  plan.rootfs = "erofs" /\ plan.policy = "require" /\ plan.mode # "none" =>
           /\ DOMAIN tree.udebs # {} /\ plan.overlayFiles
           /\ "installer_include_dir" \in tree.installer
<1>1. tree.udebs = Effective /\ tree.installer = Workspace(plan, Effective).installer
  BY DEF FullTree, Workspace
<1>2. "installer_include_dir" \in plan.given => "installer_include_dir" \in tree.installer
  BY <1>1 DEF Workspace
<1> QED BY <1>1, <1>2 DEF AuditFails, PlanSettled

\* Most steps change neither the plan nor the staged udebs.
LEMMA SameRun ==
  ASSUME plan' = plan, staged' = staged
  PROVE  /\ Effective' = Effective /\ FullTree' = FullTree
         /\ AuditFails' = AuditFails /\ PlanSettled' = PlanSettled
BY DEF Effective, LocalFile, FullTree, AuditFails, PlanSettled

\* What is at the output path and was said of it stays true while it stays.
LEMMA SameOutput ==
  ASSUME out' = out, manifests' = manifests
  PROVE  PublishedImageChecked' = PublishedImageChecked
BY DEF PublishedImageChecked, LiveOutputChecked, ManifestedImageStands, RequiredIntegration, AtOutput

\* A new run keeps what was published.
LEMMA Starts ==
  ASSUME PublishedInv, Start
  PROVE  PublishedInv'
<1>1. PICK given \in Plans[run + 1] : Accepted(given) /\ plan' = Normalized(given)
  BY DEF Start
<1>2. run + 1 \in DOMAIN Plans
  BY PlansAssumption DEF Start, PublishedInv, Counted
<1>3. PlanSettled'
  BY <1>1, <1>2, AcceptedIsSettled
<1>4. PublishedImageChecked'
  BY SameOutput DEF Start, PublishedInv
<1>5. Counted'
  BY <1>3 DEF Start, PublishedInv, Counted, Labels
<1>6. Progress'
  BY DEF Start, Progress
<1>7. Output'
  BY DEF Start, PublishedInv, Counted, Output, AtOutput
<1> QED BY <1>4, <1>5, <1>6, <1>7 DEF PublishedInv

\* The steps up to the checks of the image leave the output path alone.
LEMMA Builds ==
  ASSUME PublishedInv,
         Rebuild \/ Audit \/ BeginEvidence \/ Evidence \/ Export \/ DirectDi \/ Materialize
           \/ LbBuild \/ CheckLive
  PROVE  PublishedInv'
<1>1. PublishedImageChecked'
  BY SameOutput DEF PublishedInv, Rebuild, Audit, BeginEvidence, Evidence, buildVars, Export,
     DirectDi, Materialize, LbBuild, CheckLive
<1>2. Counted' /\ Output'
  BY DEF PublishedInv, Counted, Output, AtOutput, PlanSettled, Labels, Rebuild, Audit, BeginEvidence,
     Evidence, buildVars, Export, DirectDi, Materialize, LbBuild, CheckLive
<1>3. Progress'
  <2>1. CASE Rebuild
    BY <2>1 DEF Rebuild, PublishedInv, Progress
  <2> SUFFICES ASSUME plan' = plan, staged' = staged
               PROVE  Progress'
    BY <2>1 DEF Audit, BeginEvidence, Evidence, buildVars, Export, DirectDi, Materialize, LbBuild, CheckLive
  <2>2. CASE Audit
    BY <2>2, SameRun DEF Audit, PublishedInv, Progress
  <2>3. CASE BeginEvidence \/ Evidence
    BY <2>3, SameRun DEF BeginEvidence, Evidence, buildVars, PublishedInv, Progress
  <2>4. CASE Export
    BY <2>4, SameRun DEF Export, PublishedInv, Progress
  <2>5. CASE DirectDi
    BY <2>5, SameRun DEF DirectDi, PublishedInv, Progress
  <2>6. CASE Materialize
    BY <2>6, SameRun DEF Materialize, PublishedInv, Progress, FullTree
  <2>7. CASE LbBuild
    <3>1. PICK live \in BOOLEAN, archive \in BOOLEAN,
               modules \in {tree.modules} \cup {tree.modules \ {m} : m \in Requirements} :
            candidate' = [state |-> "whole", run |-> run, plan |-> plan, tree |-> tree,
                          live |-> live, archive |-> archive, modules |-> modules]
      BY <2>7 DEF LbBuild
    <3>2. tree' = tree /\ run' = run
      BY <2>7 DEF LbBuild
    <3>3. candidate' \in [state : {"whole"}, run : {run'}, plan : {plan'}, tree : {tree'}, live : BOOLEAN,
                          archive : BOOLEAN,
                          modules : {tree'.modules} \cup {tree'.modules \ {m} : m \in Requirements}]
      BY <3>1, <3>2
    <3> QED BY <2>7, <3>2, <3>3, SameRun DEF LbBuild, PublishedInv, Progress
  <2>8. CASE CheckLive
    BY <2>8, SameRun DEF CheckLive, PublishedInv, Progress, ContractHolds
  <2> QED BY <2>2, <2>3, <2>4, <2>5, <2>6, <2>7, <2>8, <2>1
<1> QED BY <1>1, <1>2, <1>3 DEF PublishedInv

\* The image is put in place.
LEMMA Publishes ==
  ASSUME PublishedInv, CopyBegins \/ CopyEnds
  PROVE  PublishedInv'
<1>1. /\ plan' = plan /\ staged' = staged /\ run' = run /\ tree' = tree /\ candidate' = candidate
      /\ export' = export /\ manifests' = manifests /\ pc \in {"copy", "copying"}
  BY DEF CopyBegins, CopyEnds
<1>2. /\ tree = FullTree /\ ~AuditFails /\ PlanSettled /\ run \in Nat /\ run \in 1 .. run
      /\ run \notin DOMAIN manifests
      /\ candidate.state = "whole" /\ candidate.run = run /\ candidate.plan = plan
      /\ candidate.tree = tree
      /\ SystemLive(plan) => candidate.archive /\ ContractHolds(candidate)
  BY <1>1 DEF PublishedInv, Counted, Progress, Output
<1>3. /\ out'.state \in {"partial", "whole"} /\ out'.run = run /\ out'.plan = plan
      /\ out'.tree = tree /\ out'.archive = candidate.archive /\ out'.modules = candidate.modules
  <2>1. CASE CopyBegins
    BY <1>1, <2>1 DEF CopyBegins, PublishedInv, Progress
  <2>2. CASE CopyEnds
    BY <1>1, <1>2, <2>2 DEF CopyEnds
  <2> QED BY <2>1, <2>2
<1>4. PublishedImageChecked'
  <2>1. LiveOutputChecked'
    BY <1>2, <1>3 DEF LiveOutputChecked, ContractHolds
  <2>2. ManifestedImageStands'
    BY <1>1, <1>2, <1>3 DEF ManifestedImageStands, AtOutput
  <2>3. RequiredIntegration'
    BY <1>2, <1>3, TreeIntegrated DEF RequiredIntegration
  <2> QED BY <2>1, <2>2, <2>3 DEF PublishedImageChecked
<1>5. Counted' /\ Output'
  BY <1>1, <1>2, <1>3 DEF PublishedInv, Counted, Output, AtOutput, PlanSettled, Labels, CopyBegins, CopyEnds
<1>6. Progress'
  BY <1>1, <1>2, SameRun DEF PublishedInv, Progress, CopyBegins, CopyEnds, ContractHolds
<1> QED BY <1>4, <1>5, <1>6 DEF PublishedInv

\* The run ends: with a manifest, and perhaps without its tree, or at any step.
LEMMA Ends ==
  ASSUME PublishedInv, CheckPayload \/ WriteManifest \/ Clean \/ Stop
  PROVE  PublishedInv'
<1>1. /\ plan' = plan /\ staged' = staged /\ run' = run /\ out' = out /\ export' = export
      /\ pc \in Labels \ {"idle"} /\ run \in 1 .. run /\ PlanSettled
  BY DEF CheckPayload, WriteManifest, Clean, Stop, PublishedInv, Counted, Labels
<1>2. CASE CheckPayload
  <2>1. PublishedImageChecked'
    BY <1>2, SameOutput DEF PublishedInv, CheckPayload
  <2> QED BY <1>1, <1>2, <2>1, SameRun DEF CheckPayload, PublishedInv, Counted, Progress, Output,
             AtOutput, Labels, ContractHolds
<1>3. CASE WriteManifest
  <2>1. /\ manifests' = [r \in DOMAIN manifests \cup {run} |->
                        IF r = run THEN [plan |-> plan, di |-> export.di, found |-> support.found]
                        ELSE manifests[r]]
        /\ run \notin DOMAIN manifests /\ out = candidate /\ pc = "manifest"
    BY <1>3 DEF WriteManifest, PublishedInv, Progress, Output
  <2>2. /\ DOMAIN manifests' = DOMAIN manifests \cup {run}
        /\ manifests'[run].plan = plan /\ manifests'[run].di = export.di
        /\ \A r \in DOMAIN manifests : manifests'[r] = manifests[r]
    BY <2>1
  <2>3. /\ out.state = "whole" /\ out.run = run /\ out.plan = plan
        /\ plan.mode = "netinst" => ~out.live
        /\ plan.direct # "off" => export.di # "none"
    BY <2>1 DEF PublishedInv, Progress
  <2>4. ManifestedImageStands'
    BY <1>1, <2>2, <2>3 DEF ManifestedImageStands, AtOutput
  <2>5. LiveOutputChecked' /\ RequiredIntegration'
    BY <1>1 DEF PublishedInv, PublishedImageChecked, LiveOutputChecked, RequiredIntegration, AtOutput, ContractHolds
  <2>6. Output' /\ Counted'
    BY <1>1, <1>3, <2>2, SameRun DEF WriteManifest, PublishedInv, Counted, Output, AtOutput, Labels
  <2>7. Progress'
    BY <1>1, <1>3, SameRun DEF WriteManifest, PublishedInv, Progress
  <2> QED BY <2>4, <2>5, <2>6, <2>7 DEF PublishedInv, PublishedImageChecked
<1>4. CASE Clean \/ Stop
  <2>1. manifests' = manifests /\ pc' \in {"done", "stopped"}
    BY <1>4 DEF Clean, Stop
  <2>2. PublishedImageChecked'
    BY <1>1, <2>1, SameOutput DEF PublishedInv
  <2>3. Counted' /\ Output'
    BY <1>1, <2>1, SameRun DEF PublishedInv, Counted, Output, AtOutput, Labels
  <2>4. Progress'
    <3>1. CASE Clean
      BY <1>1, <3>1, SameRun DEF Clean, PublishedInv, Progress
    <3>2. CASE Stop
      BY <1>1, <3>2, SameRun DEF Stop, PublishedInv, Progress
    <3> QED BY <1>4, <3>1, <3>2
  <2> QED BY <2>2, <2>3, <2>4 DEF PublishedInv
<1> QED BY <1>2, <1>3, <1>4

\* Nothing reaches the output path unchecked, a manifest stands beside a whole
\* image, and EROFS is published with what its policy requires, over any number
\* of runs that fail or are killed at any step.
THEOREM PublishedImagesChecked == Spec => []PublishedImageChecked
<1>1. Init => PublishedInv
  BY DEF Init, PublishedInv, Counted, Labels, Progress, Output, AtOutput, PublishedImageChecked,
     LiveOutputChecked, ManifestedImageStands, RequiredIntegration
<1>2. PublishedInv /\ [Next]_vars => PublishedInv'
  <2> SUFFICES ASSUME PublishedInv, [Next]_vars PROVE PublishedInv'
    OBVIOUS
  <2>1. CASE UNCHANGED vars
    <3>1. PublishedImageChecked'
      BY <2>1, SameOutput DEF PublishedInv, vars, buildVars
    <3> QED BY <2>1, <3>1, SameRun DEF PublishedInv, vars, buildVars, Counted, Progress, Output, AtOutput, ContractHolds
  <2> QED BY <2>1, Starts, Builds, Publishes, Ends DEF Next
<1>3. PublishedInv => PublishedImageChecked
  BY DEF PublishedInv
<1> QED BY <1>1, <1>2, <1>3, PTL DEF Spec

-----------------------------------------------------------------------------
(* The evidence: what a package of the index carries is found.               *)

Untried(c) == \E i \in DOMAIN support.todo : support.todo[i] = c

\* A candidate that is not in front of the loop any more is in the cache, if
\* the index of this pass has it.
Tried == \A c \in ToSet(Candidates) :
  Untried(c) \/ (c \in Index[support.index] => c \in cache.packages)

SupportInv ==
  /\ DOMAIN cache = {"packages", "unpacked"}
  /\ DOMAIN support = DOMAIN Idle
  /\ support.todo \in Seq(DOMAIN Provides)
  /\ support.index \in {"stale", "fresh"}
  /\ support.phase \in {"idle", "fetch", "unpack", "done"}
  /\ support.phase # "done" => support.tree # "cache"
  /\ support.phase \in {"fetch", "unpack"} => Tried
  /\ support.phase = "unpack" => support.todo # <<>> /\ Head(support.todo) \in cache.packages
  /\ support.phase = "done" /\ support.tree = "cache" =>
       /\ Tried /\ support.todo = <<>>
       /\ support.found = support.asked \cap ModulesOf(cache.unpacked)

\* The empty list is a list of candidates.
LEMMA EmptyTodo == <<>> \in Seq(DOMAIN Provides)
OBVIOUS

\* The first candidate of a list, and those after it.
LEMMA TailOfTodo ==
  ASSUME NEW S, NEW s \in Seq(S), s # <<>>
  PROVE  /\ Tail(s) \in Seq(S) /\ Head(s) \in S
         /\ \A i \in DOMAIN s : s[i] = Head(s) \/ \E j \in DOMAIN Tail(s) : Tail(s)[j] = s[i]
<1>1. Len(s) \in Nat /\ Len(s) > 0 /\ DOMAIN s = 1 .. Len(s) /\ Tail(s) \in Seq(S)
  OBVIOUS
<1>2. Head(s) = s[1] /\ Len(Tail(s)) = Len(s) - 1 /\ \A j \in 1 .. (Len(s) - 1) : Tail(s)[j] = s[j + 1]
  OBVIOUS
<1>3. DOMAIN Tail(s) = 1 .. (Len(s) - 1)
  BY <1>1, <1>2
<1>4. ASSUME NEW i \in DOMAIN s, i # 1
      PROVE  \E j \in DOMAIN Tail(s) : Tail(s)[j] = s[i]
  <2>1. i - 1 \in 1 .. (Len(s) - 1)
    BY <1>1, <1>4
  <2> QED BY <2>1, <1>2, <1>3, <1>1
<1> QED BY <1>1, <1>2, <1>4

\* The step from one candidate to the next.
LEMMA NextCandidate ==
  ASSUME Tried, support.todo \in Seq(DOMAIN Provides), support.todo # <<>>,
         support'.todo = Tail(support.todo), support'.index = support.index,
         cache.packages \subseteq cache'.packages,
         Head(support.todo) \in Index[support.index] => Head(support.todo) \in cache'.packages
  PROVE  Tried' /\ support'.todo \in Seq(DOMAIN Provides)
<1>1. /\ Tail(support.todo) \in Seq(DOMAIN Provides)
      /\ \A i \in DOMAIN support.todo :
           support.todo[i] = Head(support.todo)
             \/ \E j \in DOMAIN Tail(support.todo) : Tail(support.todo)[j] = support.todo[i]
  BY TailOfTodo
<1>2. ASSUME NEW c \in ToSet(Candidates)
      PROVE  Untried(c)' \/ (c \in Index[support'.index] => c \in cache'.packages)
  <2>1. CASE Untried(c)
    BY <1>1, <2>1 DEF Untried
  <2>2. CASE ~Untried(c)
    BY <2>2 DEF Tried
  <2> QED BY <2>1, <2>2
<1> QED BY <1>1, <1>2 DEF Tried

\* The steps of an inspection.
LEMMA InspectionSteps ==
  ASSUME SupportInv, Inspect
  PROVE  SupportInv'
<1>1. CASE Skip
  <2>1. Tried' /\ support'.todo \in Seq(DOMAIN Provides)
    BY <1>1, NextCandidate DEF Skip, SupportInv, Idle
  <2> QED BY <1>1, <2>1 DEF Skip, SupportInv, Idle
<1>2. CASE Fetch
  <2>1. Tried'
    BY <1>2 DEF Fetch, SupportInv, Tried, Untried, Idle
  <2> QED BY <1>2, <2>1 DEF Fetch, SupportInv, Idle
<1>3. CASE Unpack
  <2>1. cache'.packages = cache.packages /\ DOMAIN cache' = DOMAIN cache
    BY <1>3 DEF Unpack, SupportInv
  <2>2. Tried' /\ support'.todo \in Seq(DOMAIN Provides)
    BY <1>3, <2>1, NextCandidate DEF Unpack, SupportInv, Idle
  <2> QED BY <1>3, <2>1, <2>2 DEF Unpack, SupportInv, Idle
<1>4. CASE RefreshIndex
  <2>1. PICK refreshed \in BOOLEAN :
          support' = [support EXCEPT !.updated = TRUE,
                                     !.index = IF refreshed THEN "fresh" ELSE @,
                                     !.todo = IF refreshed THEN Candidates ELSE <<>>]
    BY <1>4 DEF RefreshIndex
  <2>2. cache' = cache /\ support.todo = <<>> /\ support.phase = "fetch"
    BY <1>4 DEF RefreshIndex
  <2>3. Tried'
    <3>1. CASE refreshed
      BY <2>1, <3>1 DEF Tried, Untried, SupportInv, Idle, ToSet
    <3>2. CASE ~refreshed
      BY <2>1, <2>2, <3>2 DEF Tried, Untried, SupportInv, Idle
    <3> QED BY <3>1, <3>2
  <2>4. support'.todo \in Seq(DOMAIN Provides)
    BY <2>1, EmptyTodo, CandidatesAssumption DEF SupportInv, Idle
  <2> QED BY <2>1, <2>2, <2>3, <2>4 DEF SupportInv, Idle
<1>5. CASE Conclude
  <2>1. Tried' /\ cache' = cache
    BY <1>5 DEF Conclude, SupportInv, Tried, Untried, Idle
  <2> QED BY <1>5, <2>1 DEF Conclude, SupportInv, Idle
<1> QED BY <1>1, <1>2, <1>3, <1>4, <1>5 DEF Inspect

\* After a download that found the version's tree in the cache, no module that
\* was asked for and that a package of the index carries is reported missing,
\* whatever packages earlier runs left there.
THEOREM OfferedModulesAreFound == Spec => []OfferedModulesFound
<1>1. Init => SupportInv
  BY EmptyTodo DEF Init, SupportInv, EmptyCache, Idle
<1>2. SupportInv /\ [Next]_vars => SupportInv'
  <2> SUFFICES ASSUME SupportInv, [Next]_vars PROVE SupportInv'
    OBVIOUS
  <2>1. CASE UNCHANGED kernelVars
    BY <2>1 DEF SupportInv, Tried, Untried, kernelVars
  <2>2. CASE Start
    BY <2>2, EmptyTodo DEF Start, SupportInv, Idle
  <2>3. CASE BeginEvidence
    <3>1. /\ cache' = cache /\ DOMAIN support' = DOMAIN Idle
          /\ support'.todo \in {<<>>, Candidates} /\ support'.index = "stale"
          /\ support'.phase \in {"fetch", "done"} /\ support'.tree \in {"host", "none"}
          /\ support'.phase = "fetch" => support'.todo = Candidates
      BY <2>3 DEF BeginEvidence, BeginInspection, OnHost, Idle
    <3>2. support'.phase = "fetch" => Tried'
      BY <3>1 DEF Tried, Untried, ToSet
    <3> QED BY <3>1, <3>2, EmptyTodo, CandidatesAssumption DEF SupportInv
  <2>4. CASE Evidence
    BY <2>4, InspectionSteps DEF Evidence
  <2> QED BY <2>1, <2>2, <2>3, <2>4 DEF Next, vars, Rebuild, Audit, Export, DirectDi, Materialize,
             LbBuild, CheckLive, CopyBegins, CopyEnds, CheckPayload, WriteManifest, Clean, Stop, kernelVars
<1>3. SupportInv => OfferedModulesFound
  <2> SUFFICES ASSUME SupportInv, support.phase = "done", support.tree = "cache", Stranded = {}
               PROVE  support.asked \cap ModulesOf(Index[support.index]) \subseteq support.found
    BY DEF OfferedModulesFound
  <2>1. Index[support.index] \subseteq cache.packages
    BY CandidatesAssumption DEF SupportInv, Tried, Untried
  <2>2. cache.packages \subseteq cache.unpacked
    BY DEF Stranded
  <2> QED BY <2>1, <2>2 DEF ModulesOf, SupportInv
<1> QED BY <1>1, <1>2, <1>3, PTL DEF Spec

-----------------------------------------------------------------------------
(* The medium and the exported workspace.                                     *)

Finished(entry) ==
  entry.kind = "source" => entry.udeb \in listed /\ \E file \in DOMAIN staged : file[1] = entry.udeb

RebuildInv ==
  /\ Rebuilds \in Seq(ToSet(Rebuilds))
  /\ \A entry \in ToSet(Rebuilds) : <<entry.source, entry.version>> \in DOMAIN Upstream
  /\ todo \in Seq(ToSet(Rebuilds))
  /\ \A entry \in ToSet(Rebuilds) : Finished(entry) \/ \E j \in DOMAIN todo : todo[j] = entry

\* What Export writes down.
Exported ==
  Exports => /\ export.files = Effective
             /\ export.listed = IF listed # {} THEN listed ELSE {file[1] : file \in DOMAIN Effective}

ExportInv ==
  /\ pc \in Labels /\ run \in Nat
  /\ DOMAIN export = DOMAIN NoExport
  /\ \A r \in DOMAIN rooms : "control" \in DOMAIN rooms[r].last
  /\ pc # "idle" => RebuildInv
  /\ pc \notin {"idle", "rebuild", "stopped"} \/ tree # NoTree => todo = <<>>
  /\ pc \in {"idle", "rebuild", "evidence", "direct", "config"} => tree = NoTree
  /\ pc \notin {"idle", "rebuild", "evidence", "stopped"} \/ tree # NoTree => Exported
  /\ tree # NoTree => tree = FullTree

\* What a rebuild prepares has its control file, with a paragraph for the udeb of a source.
LEMMA PreparedHasControl ==
  ASSUME NEW entry, <<entry.source, entry.version>> \in DOMAIN Upstream,
         \A r \in DOMAIN rooms : "control" \in DOMAIN rooms[r].last
  PROVE  /\ "control" \in DOMAIN Prepared(rooms, entry)
         /\ entry.kind # "linux" =>
              /\ entry.udeb \in DOMAIN Prepared(rooms, entry).control
              /\ Prepared(rooms, entry).control[entry.udeb].type = "udeb"
<1> DEFINE checkout == Checkout(rooms, entry)
<1>1. "control" \in DOMAIN checkout
  BY UpstreamAssumption DEF Checkout, Checkouts, Unpacked
<1>2. "control" \in DOMAIN Overlaid(checkout, entry.overlay)
  BY <1>1 DEF Overlaid
<1>3. CASE entry.kind = "linux"
  <2>1. Prepared(rooms, entry) = KernelPrepared(checkout, entry)
    BY <1>3 DEF Prepared
  <2>2. "control" \in DOMAIN KernelPrepared(checkout, entry)
    BY <1>2 DEF KernelPrepared, Configured
  <2> QED BY <1>3, <2>1, <2>2
<1>4. CASE entry.kind # "linux"
  <2> DEFINE base == Overlaid(checkout, entry.overlay)
  <2>1. Prepared(rooms, entry) = Packaged(base, entry)
    BY <1>4 DEF Prepared
  <2>2. DOMAIN Packaged(base, entry) = DOMAIN base
    BY DEF Packaged
  <2>3. Packaged(base, entry).control =
          [x \in DOMAIN base.control \cup {entry.udeb} |->
             IF x = entry.udeb THEN Paragraph(base, entry) ELSE base.control[x]]
    BY <1>2 DEF Packaged
  <2>4. Paragraph(base, entry).type = "udeb"
    BY DEF Paragraph
  <2> QED BY <1>2, <2>1, <2>2, <2>3, <2>4
<1> QED BY <1>3, <1>4

\* A rebuild stages and lists its own udeb and keeps what the others staged.
LEMMA RebuildFinishes ==
  ASSUME NEW entry, "control" \in DOMAIN Prepared(rooms, entry),
         entry.kind # "linux" =>
           /\ entry.udeb \in DOMAIN Prepared(rooms, entry).control
           /\ Prepared(rooms, entry).control[entry.udeb].type = "udeb",
         staged' = Staged(staged, Prepared(rooms, entry), entry),
         listed' = listed \cup Listed(entry)
  PROVE  /\ DOMAIN staged \subseteq DOMAIN staged' /\ listed \subseteq listed'
         /\ Finished(entry)'
<1> DEFINE prepared == Prepared(rooms, entry)
<1> HIDE DEF prepared
<1>1. DOMAIN staged \subseteq DOMAIN staged' /\ listed \subseteq listed'
  BY DEF Staged
<1>2. ASSUME entry.kind = "source"
      PROVE  entry.udeb \in listed' /\ \E file \in DOMAIN staged' : file[1] = entry.udeb
  <2> DEFINE file == <<entry.udeb, prepared.version>>
  <2>1. entry.udeb \in {x \in DOMAIN prepared.control : prepared.control[x].type = "udeb"}
    BY <1>2 DEF prepared
  <2>2. file \in DOMAIN Built(prepared, entry)
    BY <1>2, <2>1 DEF Built
  <2>3. file \in DOMAIN Staged(staged, prepared, entry)
    BY <2>2 DEF Staged
  <2>4. file \in DOMAIN staged' /\ file[1] = entry.udeb
    BY <2>3 DEF prepared
  <2> QED BY <1>2, <2>4 DEF Listed
<1> QED BY <1>1, <1>2 DEF Finished

\* One rebuild after the other.
LEMMA RebuildSteps ==
  ASSUME ExportInv, Rebuild
  PROVE  ExportInv'
<1> DEFINE entry == Head(todo)
<1>1. /\ plan' = plan /\ pc' = pc /\ tree' = tree /\ export' = export /\ pc = "rebuild"
      /\ tree = NoTree /\ RebuildInv /\ Rebuilds' = Rebuilds /\ todo # <<>> /\ todo' = Tail(todo)
  BY DEF Rebuild, ExportInv, Rebuilds
<1>2. /\ Tail(todo) \in Seq(ToSet(Rebuilds)) /\ entry \in ToSet(Rebuilds)
      /\ \A i \in DOMAIN todo : todo[i] = entry \/ \E j \in DOMAIN Tail(todo) : Tail(todo)[j] = todo[i]
  BY <1>1, TailOfTodo DEF RebuildInv
<1>3. <<entry.source, entry.version>> \in DOMAIN Upstream
  BY <1>1, <1>2 DEF RebuildInv
<1>4. /\ "control" \in DOMAIN Prepared(rooms, entry)
      /\ entry.kind # "linux" =>
           /\ entry.udeb \in DOMAIN Prepared(rooms, entry).control
           /\ Prepared(rooms, entry).control[entry.udeb].type = "udeb"
  BY <1>3, PreparedHasControl DEF ExportInv
<1>5. /\ staged' = Staged(staged, Prepared(rooms, entry), entry) /\ listed' = listed \cup Listed(entry)
      /\ rooms' = Used(rooms, entry)
  BY DEF Rebuild
<1> HIDE DEF entry
<1>9. /\ DOMAIN staged \subseteq DOMAIN staged' /\ listed \subseteq listed'
      /\ (entry.kind = "source" => entry.udeb \in listed' /\ \E file \in DOMAIN staged' : file[1] = entry.udeb)
  BY <1>4, <1>5, RebuildFinishes DEF Finished
<1>6. \A r \in DOMAIN rooms' : "control" \in DOMAIN rooms'[r].last
  BY <1>4, <1>5 DEF Used, ExportInv
<1>7. ASSUME NEW other \in ToSet(Rebuilds)
      PROVE  Finished(other)' \/ \E j \in DOMAIN todo' : todo'[j] = other
  <2>1. CASE Finished(other)
    BY <1>9, <2>1 DEF Finished
  <2>2. CASE ~Finished(other)
    <3>1. PICK i \in DOMAIN todo : todo[i] = other
      BY <1>1, <2>2 DEF RebuildInv
    <3>2. CASE other = entry
      BY <1>9, <3>2 DEF Finished
    <3>3. CASE other # entry
      BY <1>1, <1>2, <3>1, <3>3
    <3> QED BY <3>2, <3>3
  <2> QED BY <2>1, <2>2
<1>8. RebuildInv'
  BY <1>1, <1>2, <1>7 DEF RebuildInv
<1> QED BY <1>1, <1>6, <1>8 DEF ExportInv, Labels, Rebuild

\* The steps after the rebuilds.
LEMMA ExportSteps ==
  ASSUME ExportInv,
         Audit \/ BeginEvidence \/ Evidence \/ Export \/ DirectDi \/ Materialize \/ LbBuild
           \/ CheckLive \/ CopyBegins \/ CopyEnds \/ CheckPayload \/ WriteManifest \/ Clean \/ Stop
           \/ UNCHANGED vars
  PROVE  ExportInv'
<1>1. /\ plan' = plan /\ staged' = staged /\ listed' = listed /\ todo' = todo /\ rooms' = rooms
  BY DEF Audit, BeginEvidence, Evidence, buildVars, Export, DirectDi, Materialize, LbBuild, CheckLive,
     CopyBegins, CopyEnds, CheckPayload, WriteManifest, Clean, Stop, vars
<1>2. /\ Effective' = Effective /\ FullTree' = FullTree /\ Exports' = Exports
      /\ RebuildInv' = RebuildInv
  BY <1>1, SameRun DEF Exports, RebuildInv, Rebuilds, Finished
<1>3. CASE Export
  <2>1. export' = IF ~Exports THEN NoExport
                  ELSE [files |-> Effective,
                        listed |-> IF listed # {} THEN listed ELSE {file[1] : file \in DOMAIN Effective},
                        di |-> "none"]
    BY <1>3 DEF Export
  <2>2. Exported' /\ DOMAIN export' = DOMAIN NoExport
    BY <1>1, <1>2, <2>1 DEF Exported, NoExport
  <2> QED BY <1>1, <1>2, <1>3, <2>2 DEF Export, ExportInv, Labels
<1>4. CASE DirectDi
  <2>1. /\ DOMAIN export' = DOMAIN NoExport
        /\ export'.files = export.files /\ export'.listed = export.listed
    BY <1>4 DEF DirectDi, ExportInv, NoExport
  <2>2. Exported' = Exported
    BY <1>1, <1>2, <2>1 DEF Exported
  <2> QED BY <1>1, <1>2, <1>4, <2>1, <2>2 DEF DirectDi, ExportInv, Labels
<1> SUFFICES ASSUME export' = export PROVE ExportInv'
  BY <1>3, <1>4 DEF Audit, BeginEvidence, Evidence, buildVars, Materialize, LbBuild, CheckLive,
     CopyBegins, CopyEnds, CheckPayload, WriteManifest, Clean, Stop, vars
<1>5. Exported' = Exported
  BY <1>1, <1>2 DEF Exported
<1>6. CASE Materialize
  BY <1>1, <1>2, <1>5, <1>6 DEF Materialize, FullTree, ExportInv, Labels
<1>7. CASE Audit
  BY <1>1, <1>2, <1>5, <1>7 DEF Audit, ExportInv, Labels
<1>8. CASE Clean
  BY <1>1, <1>2, <1>5, <1>8 DEF Clean, ExportInv, Labels
<1>9. CASE BeginEvidence \/ Evidence \/ UNCHANGED vars
  BY <1>1, <1>2, <1>5, <1>9 DEF BeginEvidence, Evidence, buildVars, vars, ExportInv, Labels
<1>10. CASE LbBuild \/ CheckLive \/ CopyBegins \/ CopyEnds \/ CheckPayload
  BY <1>1, <1>2, <1>5, <1>10 DEF LbBuild, CheckLive, CopyBegins, CopyEnds, CheckPayload, ExportInv, Labels
<1>11. CASE WriteManifest \/ Stop
  BY <1>1, <1>2, <1>5, <1>11 DEF WriteManifest, Stop, ExportInv, Labels
<1> QED BY <1>3, <1>4, <1>6, <1>7, <1>8, <1>9, <1>10, <1>11

\* The udebs on the medium are those of the exported installer workspace; the
\* rebuilt ones are all there, in place of local ones, and listed.
THEOREM ExportsMatchMedia == Spec => []ExportMatchesMedia
<1>1. Init => ExportInv
  BY DEF Init, ExportInv, Labels, NoExport
<1>2. ExportInv /\ [Next]_vars => ExportInv'
  <2> SUFFICES ASSUME ExportInv, [Next]_vars PROVE ExportInv'
    OBVIOUS
  <2>1. CASE Start
    <3>1. PICK given \in Plans[run + 1] : /\ Accepted(given) /\ Resolvable(given)
                                          /\ plan' = Normalized(given) /\ todo' = AllRebuilds(plan')
      BY <2>1 DEF Start
    <3>2. run + 1 \in DOMAIN Plans
      BY <2>1, PlansAssumption DEF Start, ExportInv
    <3>3. /\ todo' \in Seq(ToSet(todo')) /\ Rebuilds' = todo'
          /\ \A entry \in ToSet(todo') : <<entry.source, entry.version>> \in DOMAIN Upstream
      BY <3>1, <3>2, PlansAssumption DEF Rebuilds, IsSequence, Buildable
    <3>4. RebuildInv'
      BY <3>3 DEF RebuildInv, ToSet
    <3> QED BY <2>1, <3>4 DEF Start, ExportInv, Labels, NoExport
  <2> QED BY <2>1, RebuildSteps, ExportSteps DEF Next
<1>3. ExportInv => ExportMatchesMedia
  <2> SUFFICES ASSUME ExportInv, tree # NoTree, Exports
               PROVE  /\ tree.udebs = export.files
                      /\ \A file \in DOMAIN staged : export.files[file] = staged[file]
                      /\ \A i \in DOMAIN Rebuilds : Rebuilds[i].kind = "source" =>
                            /\ Rebuilds[i].udeb \in export.listed
                            /\ \E file \in DOMAIN export.files : file[1] = Rebuilds[i].udeb
    BY DEF ExportMatchesMedia
  <2>1. /\ export.files = Effective /\ tree.udebs = Effective
        /\ listed # {} => export.listed = listed
    BY DEF ExportInv, Exported, FullTree, Workspace
  <2>2. /\ DOMAIN staged \subseteq DOMAIN Effective
        /\ \A file \in DOMAIN staged : Effective[file] = staged[file]
    BY DEF Effective
  <2>3. \A i \in DOMAIN Rebuilds : Finished(Rebuilds[i])
    BY DEF ExportInv, RebuildInv, ToSet
  <2> QED BY <2>1, <2>2, <2>3 DEF Finished
<1> QED BY <1>1, <1>2, <1>3, PTL DEF Spec

-----------------------------------------------------------------------------
(* The tree that live-build is given.                                         *)

\* What the rules guarantee of the plan: an installer image has no Live content,
\* a Live one without an installer no installer content, and no package is out of
\* the distribution's scope.
PlanInScope(p) ==
  /\ p.mode = "netinst" =>
       /\ p.packages = {} /\ p.initramfs = {} /\ p.rootfs = "none"
       /\ p.given \cap {"live_include_dir", "include_installer_launcher"} = {}
  /\ p.given \cap {"preseed_path", "installer_include_dir"} # {} => p.mode # "none"
  /\ Profiled(p.distro) => (p.packages \cup Optional(p)) \cap Known \subseteq Allowed(p.distro)
  /\ p.mode # "netinst" => ToolPackages(p) \ Optional(p) \subseteq p.packages

\* The validator asks for no package that the catalog keeps from the distribution.
LEMMA AcceptedIsInScope ==
  ASSUME NEW r \in DOMAIN Plans, NEW given \in Plans[r], Accepted(given)
  PROVE  PlanInScope(Normalized(given))
<1> DEFINE merged == Merged(given)
           normal == Normalized(given)
<1>1. ~ModeRefused(merged) /\ ~PackagesRefused(merged)
  BY DEF Accepted
<1>2. given.mode = "netinst" /\ merged.packages # {} =>
        merged.given \cap {"base_packages", "extra_chroot_packages"} # {}
  BY PlansAssumption, MergedFields
<1>3. /\ merged.mode = given.mode /\ merged.distro = given.distro /\ merged.groups = given.groups
      /\ given.mode # "netinst" => ToolPackages(given) \ Optional(given) \subseteq merged.packages
  BY PlansAssumption, MergedFields
<1>4. /\ normal.rootfs = merged.rootfs /\ normal.mode = merged.mode
      /\ normal.distro = merged.distro /\ normal.groups = merged.groups /\ normal.packages = merged.packages
      /\ normal.initramfs = merged.initramfs
      /\ normal.given \subseteq merged.given \cup {"filesystem_module_entries"}
  BY NormalizedFields
<1> HIDE DEF merged, normal
<1>3a. /\ ToolPackages(normal) = ToolPackages(given) /\ Optional(normal) = Optional(given)
       /\ Optional(merged) = Optional(normal)
  BY <1>3, <1>4 DEF ToolPackages, Groups, Optional
<1>5. CASE merged.mode = "netinst"
  <2>1. /\ merged.given \cap NetinstForbids = {}
        /\ merged.initramfs = {} /\ merged.rootfs = "none"
    BY <1>1, <1>5 DEF ModeRefused
  <2>2. merged.packages = {}
    BY <1>2, <1>3, <1>5, <2>1 DEF NetinstForbids
  <2>3. normal.given \cap {"live_include_dir", "include_installer_launcher"} = {}
    BY <1>4, <2>1 DEF NetinstForbids
  <2>4. Optional(normal) = {}
    BY <1>4, <1>5 DEF Optional
  <2> QED BY <1>4, <1>5, <2>1, <2>2, <2>3, <2>4 DEF PlanInScope, normal
<1>6. CASE merged.mode # "netinst"
  <2>1. Profiled(merged.distro) => (merged.packages \cup Optional(merged)) \cap Known \subseteq Allowed(merged.distro)
    BY <1>1, <1>6 DEF PackagesRefused
  <2>2. merged.mode = "none" => merged.given \cap {"preseed_path", "installer_include_dir"} = {}
    BY <1>1 DEF ModeRefused, NoInstallerForbids
  <2>3. normal.given \cap {"preseed_path", "installer_include_dir"} # {} => normal.mode # "none"
    BY <1>4, <2>2
  <2> QED BY <1>3, <1>3a, <1>4, <1>6, <2>1, <2>3 DEF PlanInScope, normal
<1> QED BY <1>5, <1>6

\* The workspace holds all of such a plan and nothing out of scope.
LEMMA WorkspaceHonours ==
  ASSUME PlanInScope(plan), tree = Workspace(plan, tree.udebs)
  PROVE  PlanHonoured
<1> DEFINE base == {"systemd_masks", "runtime_policy_hook"}
                   \cup (IF plan.initramfs # {} THEN {"initramfs_hook"} ELSE {})
                   \cup (IF plan.distro = "debian" THEN {"locale", "apt_policy"} ELSE {})
                   \cup (IF Profiled(plan.distro) THEN {"wifi_runtime"} ELSE {})
                   \cup {f \in {"live_include_dir", "include_installer_launcher"} : f \in plan.given}
<1>1. /\ tree.modules = IF SystemLive(plan) THEN plan.initramfs ELSE {}
      /\ tree.chroot = IF SystemLive(plan) THEN plan.packages \cup base ELSE {}
      /\ tree.optional = Optional(plan)
  <2>1. /\ tree.modules = Workspace(plan, tree.udebs).modules
        /\ tree.chroot = Workspace(plan, tree.udebs).chroot
        /\ tree.optional = Workspace(plan, tree.udebs).optional
    OBVIOUS
  <2> QED BY <2>1 DEF Workspace
<1>2. "erofs_hook" \in tree.binary <=> SystemLive(plan) /\ plan.rootfs = "erofs"
  <2>1. tree.binary = Workspace(plan, tree.udebs).binary
    OBVIOUS
  <2> QED BY <2>1 DEF Workspace
<1>3. base \subseteq LiveEntries
  BY DEF LiveEntries
<1>4. plan.given \cap {"live_include_dir", "include_installer_launcher"} \subseteq base
  OBVIOUS
<1> HIDE DEF base
<1>5. PlanDelivered
  <2>1. CASE SystemLive(plan)
    BY <1>1, <1>2, <1>4, <2>1 DEF PlanDelivered, PlanInScope, SystemLive
  <2>2. CASE ~SystemLive(plan)
    BY <1>1, <1>2, <2>2 DEF PlanDelivered, PlanInScope, SystemLive
  <2> QED BY <2>1, <2>2
<1>6. PackagesInScope
  BY <1>1, <1>3, KnownAssumption DEF PackagesInScope, PlanInScope
<1> QED BY <1>5, <1>6 DEF PlanHonoured

\* live-build is given all of the merged plan and nothing the catalog keeps for
\* another distribution, for any plans, specs and catalogs, and any number of runs.
THEOREM PlansHonoured == Spec => []PlanHonoured
<1> DEFINE Inv == /\ run \in Nat
                  /\ pc # "idle" => PlanInScope(plan)
                  /\ tree # NoTree => pc # "idle" /\ tree = Workspace(plan, tree.udebs)
<1>1. Init => Inv
  BY DEF Init
<1>2. Inv /\ [Next]_vars => Inv'
  <2> SUFFICES ASSUME Inv, [Next]_vars PROVE Inv'
    OBVIOUS
  <2>1. CASE Start
    <3>1. run + 1 \in DOMAIN Plans /\ run' \in Nat
      BY <2>1, PlansAssumption DEF Start
    <3>2. PlanInScope(plan')
      BY <2>1, <3>1, AcceptedIsInScope DEF Start
    <3> QED BY <2>1, <3>1, <3>2 DEF Start
  <2>2. CASE Materialize
    <3>1. tree' = Workspace(plan, Effective) /\ plan' = plan /\ pc = "config" /\ pc' = "build" /\ run' = run
      BY <2>2 DEF Materialize
    <3>2. tree'.udebs = Effective
      BY <3>1 DEF Workspace
    <3> QED BY <3>1, <3>2
  <2>3. CASE Clean
    BY <2>3 DEF Clean
  <2>4. CASE UNCHANGED <<run, plan, tree>> /\ (pc' = "idle" => pc = "idle") /\ (pc = "idle" => pc' = "idle")
    BY <2>4
  <2> QED BY <2>1, <2>2, <2>3, <2>4 DEF Next, vars, buildVars, Rebuild, Audit, BeginEvidence, Evidence,
             Export, DirectDi, LbBuild, CheckLive, CopyBegins, CopyEnds, CheckPayload, WriteManifest, Stop
<1>3. Inv => PlanHonoured
  <2> SUFFICES ASSUME Inv, tree # NoTree PROVE PlanHonoured
    BY DEF PlanHonoured, PlanDelivered, PackagesInScope
  <2> QED BY WorkspaceHonours
<1> QED BY <1>1, <1>2, <1>3, PTL DEF Spec

-----------------------------------------------------------------------------
(* Folds: the steps one is made of, and that there is one.                   *)

\* A set of numbers has a least member: what stands in for induction below.
LEMMA Least ==
  ASSUME NEW T \in SUBSET Nat, T # {}
  PROVE  \E x \in T : \A y \in T : x <= y
<1> DEFINE Less == {p \in Nat \X Nat : p[1] < p[2]}
<1>1. IsWellFoundedOn(Less, Nat)
  BY NatLessThanWellFounded DEF OpToRel
<1>2. PICK x \in T : \A y \in T : ~(<<y, x>> \in Less)
  BY <1>1, WFMin
<1>3. ASSUME NEW y \in T PROVE x <= y
  <2>1. x \in Nat /\ y \in Nat /\ (y < x => <<y, x>> \in Less)
    OBVIOUS
  <2> QED BY <1>3, <2>1, <1>2
<1> QED BY <1>3

\* What holds at first, and after each step if before it, holds all along.
LEMMA AllAlong ==
  ASSUME NEW n \in Nat, NEW B \in SUBSET (0 .. n), 0 \in B, \A j \in 1 .. n : j - 1 \in B => j \in B
  PROVE  B = 0 .. n
<1> DEFINE Missing == (0 .. n) \ B
<1>1. SUFFICES ASSUME Missing # {} PROVE FALSE
  OBVIOUS
<1>2. Missing \in SUBSET Nat
  OBVIOUS
<1>3. PICK j \in Missing : \A k \in Missing : j <= k
  BY <1>1, <1>2, Least
<1>4. j \in 1 .. n /\ j - 1 \in 0 .. n /\ ~(j <= j - 1)
  BY <1>3
<1> QED BY <1>3, <1>4

\* The greatest of the numbers up to n.
LEMMA MaxOf ==
  ASSUME NEW n \in Nat \ {0}, NEW s \in SUBSET (1 .. n), n \in s
  PROVE  Max(s) = n
<1>1. n \in s /\ \A y \in s : n >= y
  OBVIOUS
<1>2. \A x \in s : (\A y \in s : x >= y) => x = n
  OBVIOUS
<1> QED BY <1>1, <1>2 DEF Max

\* A set of numbers up to n that is not empty has its greatest in it.
LEMMA MaxIn ==
  ASSUME NEW n \in Nat, NEW s \in SUBSET (1 .. n), s # {}
  PROVE  Max(s) \in s
<1> DEFINE T == {n - x : x \in s}
<1>0. \A x \in s : x \in Nat /\ n - x \in Nat /\ n - x \in T
  OBVIOUS
<1>1. T \in SUBSET Nat /\ T # {}
  BY <1>0
<1>2. PICK t \in T : \A u \in T : t <= u
  <2> HIDE DEF T
  <2> QED BY <1>1, Least
<1>3. PICK x \in s : t = n - x
  BY <1>2
<1>4. ASSUME NEW y \in s PROVE x >= y
  <2>1. n - x <= n - y
    BY <1>0, <1>2, <1>3
  <2> QED BY <1>0, <2>1
<1> QED BY <1>4 DEF Max

\* A fold as the library computes it, from the greatest member of a set down, of
\* the functions F[1], F[2], ... on D.
IsFold(it, n, base, F) ==
  it = [s \in SUBSET (1 .. n) |-> IF s = {} THEN base ELSE F[Max(s)][it[s \ {Max(s)}]]]

\* There is such a fold.
LEMMA FoldExists ==
  ASSUME NEW D, NEW base \in D, NEW n \in Nat, NEW F \in [1 .. n -> [D -> D]]
  PROVE  \E it \in [SUBSET (1 .. n) -> D] : IsFold(it, n, base, F)
<1> DEFINE Good(m, it) ==
             /\ it \in [SUBSET (1 .. m) -> D]
             /\ \A s \in SUBSET (1 .. m) : it[s] = IF s = {} THEN base ELSE F[Max(s)][it[s \ {Max(s)}]]
           B == {m \in 0 .. n : \E it : Good(m, it)}
<1>1. 0 \in B
  <2> DEFINE it == [s \in SUBSET (1 .. 0) |-> base]
  <2>1. \A s \in SUBSET (1 .. 0) : s = {}
    OBVIOUS
  <2>2. Good(0, it)
    BY <2>1
  <2> HIDE DEF it, Good
  <2> QED BY <2>2
<1>2. ASSUME NEW m \in 1 .. n, m - 1 \in B PROVE m \in B
  <2>1. PICK it : Good(m - 1, it)
    BY <1>2
  <2> DEFINE jt == [s \in SUBSET (1 .. m) |-> IF m \in s THEN F[m][it[s \ {m}]] ELSE it[s]]
  <2>2. ASSUME NEW s \in SUBSET (1 .. m)
        PROVE  /\ m \notin s => s \in SUBSET (1 .. m - 1) /\ s \ {Max(s)} \in SUBSET (1 .. m - 1)
               /\ m \in s => s \ {m} \in SUBSET (1 .. m - 1) /\ Max(s) = m /\ s # {}
               /\ s \ {Max(s)} \in SUBSET (1 .. m)
    <3>1. m \in Nat \ {0} /\ m - 1 \in Nat /\ \A k \in 1 .. m : k # m => k \in 1 .. m - 1
      OBVIOUS
    <3>2. m \in s => Max(s) = m
      BY <3>1, MaxOf
    <3>3. m \notin s => s \in SUBSET (1 .. m - 1)
      BY <3>1
    <3>4. s \ {m} \in SUBSET (1 .. m - 1)
      BY <3>1
    <3> QED BY <3>2, <3>3, <3>4
  <2>3. ASSUME NEW s \in SUBSET (1 .. m) PROVE jt[s] \in D
    <3>1. m \in s => it[s \ {m}] \in D
      BY <2>1, <2>2
    <3>2. m \notin s => it[s] \in D
      BY <2>1, <2>2
    <3> QED BY <3>1, <3>2
  <2>4. ASSUME NEW s \in SUBSET (1 .. m)
        PROVE  jt[s] = IF s = {} THEN base ELSE F[Max(s)][jt[s \ {Max(s)}]]
    <3>1. CASE m \in s
      <4>1. jt[s] = F[m][it[s \ {m}]]
        BY <3>1
      <4>2. jt[s \ {m}] = it[s \ {m}]
        BY <2>2, <3>1
      <4> QED BY <4>1, <4>2, <2>2, <3>1
    <3>2. CASE m \notin s
      <4>1. jt[s] = it[s] /\ jt[s \ {Max(s)}] = it[s \ {Max(s)}]
        BY <2>2, <3>2
      <4>2. it[s] = IF s = {} THEN base ELSE F[Max(s)][it[s \ {Max(s)}]]
        BY <2>1, <2>2, <3>2
      <4> QED BY <4>1, <4>2
    <3> QED BY <3>1, <3>2
  <2>5. jt \in [SUBSET (1 .. m) -> D]
    BY <2>3
  <2> HIDE DEF jt
  <2>6. Good(m, jt)
    BY <2>4, <2>5
  <2> HIDE DEF Good
  <2> QED BY <2>6
<1>3. n \in B
  <2> HIDE DEF B
  <2>1. B \in SUBSET (0 .. n)
    BY DEF B
  <2> QED BY <1>1, <1>2, <2>1, AllAlong
<1> QED BY <1>3 DEF IsFold

\* Up to each member, a fold is a step more.
LEMMA FoldSteps ==
  ASSUME NEW n \in Nat, NEW j \in 1 .. n
  PROVE  /\ 1 .. j \in SUBSET (1 .. n) /\ 1 .. j - 1 \in SUBSET (1 .. n)
         /\ 1 .. j # {} /\ Max(1 .. j) = j /\ (1 .. j) \ {j} = 1 .. j - 1
<1>1. 1 .. j \in SUBSET (1 .. j) /\ j \in 1 .. j /\ j \in Nat \ {0}
  OBVIOUS
<1>2. Max(1 .. j) = j
  BY <1>1, MaxOf
<1> QED BY <1>2

TargetsFolded(lists, targets) == FoldLeft(Target, lists, targets)

\* Module lists of D stay in D, and become made, one target after the other.
TargetsStay(D, n, seq) == \A x \in D : \A j \in 1 .. n : Target(x, seq[j]) \in D
TargetSteps(g, D, base, n, seq) ==
  /\ g \in [0 .. n -> D] /\ g[0] = base /\ g[n] = TargetsFolded(base, seq)
  /\ \A j \in 1 .. n : g[j] = Target(g[j - 1], seq[j])

\* Folding targets into module lists, one after the other.
LEMMA FoldTargets ==
  ASSUME NEW D, NEW base, base \in D, NEW n, n \in Nat, NEW seq, DOMAIN seq = 1 .. n, TargetsStay(D, n, seq)
  PROVE  \E g : TargetSteps(g, D, base, n, seq)
<1> DEFINE Eq(it) == it = [s \in SUBSET (1 .. n) |->
                             IF s = {} THEN base ELSE Target(it[s \ {Max(s)}], seq[Max(s)])]
           F == [j \in 1 .. n |-> [x \in D |-> Target(x, seq[j])]]
           fold == CHOOSE it : Eq(it)
           g == [j \in 0 .. n |-> fold[1 .. j]]
<1>1. TargetsFolded(base, seq) = fold[1 .. n]
  BY DEF TargetsFolded, FoldLeft, MapThenFoldSet
<1>2. \E it : Eq(it)
  <2>1. F \in [1 .. n -> [D -> D]]
    BY DEF TargetsStay
  <2>2. PICK it \in [SUBSET (1 .. n) -> D] : IsFold(it, n, base, F)
    BY <2>1, FoldExists
  <2>3. ASSUME NEW s \in SUBSET (1 .. n), s # {}
        PROVE  F[Max(s)][it[s \ {Max(s)}]] = Target(it[s \ {Max(s)}], seq[Max(s)])
    <3>1. Max(s) \in 1 .. n
      BY <2>3, MaxIn
    <3> QED BY <3>1, <2>2
  <2> HIDE DEF F
  <2>4. Eq(it)
    BY <2>2, <2>3 DEF IsFold
  <2> QED BY <2>4
<1>3. Eq(fold)
  BY <1>2
<1> HIDE DEF fold
<1>4. g[0] = base
  BY <1>3
<1>5. ASSUME NEW j \in 1 .. n PROVE g[j] = Target(g[j - 1], seq[j])
  <2>1. /\ 1 .. j \in SUBSET (1 .. n) /\ 1 .. j - 1 \in SUBSET (1 .. n)
        /\ 1 .. j # {} /\ Max(1 .. j) = j /\ (1 .. j) \ {j} = 1 .. j - 1
    BY FoldSteps
  <2>2. fold[1 .. j] = Target(fold[(1 .. j) \ {Max(1 .. j)}], seq[Max(1 .. j)])
    BY <1>3, <2>1
  <2>3. fold[1 .. j] = Target(fold[1 .. j - 1], seq[j])
    BY <2>1, <2>2
  <2> QED BY <2>3
<1>6. g \in [0 .. n -> D]
  <2> DEFINE B == {j \in 0 .. n : g[j] \in D}
  <2> HIDE DEF g
  <2>1. 0 \in B /\ \A j \in 1 .. n : j - 1 \in B => j \in B
    BY <1>4, <1>5 DEF TargetsStay
  <2>2. B = 0 .. n
    <3> HIDE DEF B
    <3>1. B \in SUBSET (0 .. n)
      BY DEF B
    <3> QED BY <2>1, <3>1, AllAlong
  <2> QED BY <2>2 DEF g
<1>7. g[n] = fold[1 .. n]
  OBVIOUS
<1> HIDE DEF g
<1> QED BY <1>1, <1>4, <1>5, <1>6, <1>7 DEF TargetSteps

-----------------------------------------------------------------------------
(* Module lists.                                                             *)

\* The list at p has the modules m.
Has(lists, p, m) == p \in DOMAIN lists /\ m \subseteq lists[p]

\* Another path's list, or more for this one, takes nothing away.
Adds(target, p) == target.path # p \/ target.strategy = "append"

\* One target puts its modules into its list and keeps the others.
LEMMA TargetHas ==
  ASSUME NEW lists, NEW target
  PROVE  /\ Has(Target(lists, target), target.path, target.modules)
         /\ \A p, m : Has(lists, p, m) /\ Adds(target, p) => Has(Target(lists, target), p, m)
BY DEF Has, Adds, Target, At

\* After all targets of a rebuild, a list has what the last that did not add to it
\* left there, and what each has added since.
LEMMA TargetsHave ==
  ASSUME NEW lists, IsFunction(lists), NEW targets, IsSequence(targets)
  PROVE  LET made == TargetsFolded(lists, targets) IN
         /\ IsFunction(made)
         /\ \A k \in DOMAIN targets :
              (\A l \in DOMAIN targets : l > k => Adds(targets[l], targets[k].path))
                => Has(made, targets[k].path, targets[k].modules)
         /\ \A p, m : Has(lists, p, m) /\ (\A l \in DOMAIN targets : Adds(targets[l], p)) => Has(made, p, m)
<1> DEFINE n == Len(targets)
           Paths == DOMAIN lists \cup {targets[l].path : l \in 1 .. n}
           Modules == UNION ({lists[p] : p \in DOMAIN lists} \cup {targets[l].modules : l \in 1 .. n})
           D == UNION {[Q -> SUBSET Modules] : Q \in SUBSET Paths}
<1>1. n \in Nat /\ DOMAIN targets = 1 .. n
  BY DEF IsSequence
<1> HIDE DEF n
<1>2. lists \in D
  <2>1. lists \in [DOMAIN lists -> SUBSET Modules] /\ DOMAIN lists \in SUBSET Paths
    BY DEF IsFunction
  <2> QED BY <2>1
<1>3. ASSUME NEW x \in D, NEW j \in 1 .. n PROVE Target(x, targets[j]) \in D
  <2>1. PICK Q \in SUBSET Paths : x \in [Q -> SUBSET Modules]
    BY <1>3
  <2>2. targets[j].path \in Paths /\ targets[j].modules \in SUBSET Modules
    BY <1>3
  <2> DEFINE R == Q \cup {targets[j].path}
  <2> HIDE DEF Paths, Modules
  <2>3. Target(x, targets[j]) \in [R -> SUBSET Modules]
    BY <2>1, <2>2 DEF Target, At
  <2>4. R \in SUBSET Paths
    BY <2>1, <2>2
  <2> HIDE DEF R
  <2> QED BY <2>3, <2>4
<1>4. \A x \in D : IsFunction(x)
  BY DEF IsFunction
<1> HIDE DEF D
<1>a. PICK g : TargetSteps(g, D, lists, n, targets)
  <2>1. TargetsStay(D, n, targets)
    BY <1>3 DEF TargetsStay
  <2> QED BY <1>1, <1>2, <2>1, FoldTargets
<1>5. /\ g \in [0 .. n -> D] /\ g[0] = lists /\ g[n] = TargetsFolded(lists, targets)
      /\ \A j \in 1 .. n : g[j] = Target(g[j - 1], targets[j])
  BY <1>a DEF TargetSteps
<1>6. ASSUME NEW k \in 0 .. n, NEW p, NEW m, Has(g[k], p, m), \A l \in 1 .. n : l > k => Adds(targets[l], p)
      PROVE  Has(g[n], p, m)
  <2> DEFINE B == {j \in 0 .. n : j >= k => Has(g[j], p, m)}
  <2>1. 0 \in B
    BY <1>1, <1>6
  <2>2. ASSUME NEW j \in 1 .. n, j - 1 \in B PROVE j \in B
    <3>1. CASE j > k
      <4>1. Has(g[j - 1], p, m) /\ Adds(targets[j], p)
        BY <1>1, <1>6, <2>2, <3>1
      <4>2. Has(Target(g[j - 1], targets[j]), p, m)
        BY <4>1, TargetHas
      <4>3. Has(g[j], p, m)
        BY <4>2, <1>5
      <4> QED BY <4>3
    <3>2. CASE ~(j > k)
      BY <1>6, <3>2
    <3> QED BY <3>1, <3>2
  <2>3. B = 0 .. n
    <3>1. B \in SUBSET (0 .. n)
      OBVIOUS
    <3> HIDE DEF B
    <3> QED BY <1>1, <2>1, <2>2, <3>1, AllAlong
  <2>4. n \in B
    BY <1>1, <2>3
  <2> QED BY <1>1, <2>4
<1>7. ASSUME NEW k \in 1 .. n, \A l \in 1 .. n : l > k => Adds(targets[l], targets[k].path)
      PROVE  Has(g[n], targets[k].path, targets[k].modules)
  <2>1. Has(g[k], targets[k].path, targets[k].modules)
    BY <1>5, TargetHas
  <2> QED BY <1>6, <1>7, <2>1
<1>8. ASSUME NEW p, NEW m, Has(lists, p, m), \A l \in 1 .. n : Adds(targets[l], p)
      PROVE  Has(g[n], p, m)
  BY <1>1, <1>5, <1>6, <1>8
<1>9. IsFunction(g[n])
  BY <1>1, <1>4, <1>5
<1> QED BY <1>1, <1>5, <1>7, <1>8, <1>9

-----------------------------------------------------------------------------
(* Kernel configuration: the steps of the rewrites, and what they leave.     *)

\* A fragment rewritten for all entries; all lines of one for one entry.
RewrittenAll(lines, entries) == FoldLeft(Rewrite, lines, entries)
RewrittenLines(lines, entry) == FoldLeftDomain(LAMBDA done, i : Rewritten(lines, entry, done, i), <<>>, lines)

\* Rewriting the lines of a fragment, one after the other.
LineStay(lines, entry, D, n) == \A x \in D : \A j \in 1 .. n : Rewritten(lines, entry, x, j) \in D
LineSteps(g, lines, entry, D, base, n) ==
  /\ g \in [0 .. n -> D] /\ g[0] = base /\ g[n] = RewrittenLines(lines, entry)
  /\ \A j \in 1 .. n : g[j] = Rewritten(lines, entry, g[j - 1], j)

\* Rewriting takes one step for each line.
LEMMA LineFold ==
  ASSUME NEW lines, NEW entry, NEW D, NEW base, base \in D, NEW n, n \in Nat,
         DOMAIN lines = 1 .. n, LineStay(lines, entry, D, n), base = <<>>
  PROVE  \E g : LineSteps(g, lines, entry, D, base, n)
<1> DEFINE idx == [i \in DOMAIN lines |-> i]
           Eq(it) == it = [s \in SUBSET DOMAIN idx |->
                             IF s = {} THEN <<>> ELSE Rewritten(lines, entry, it[s \ {Max(s)}], idx[Max(s)])]
           F == [j \in 1 .. n |-> [x \in D |-> Rewritten(lines, entry, x, j)]]
           fold == CHOOSE it : Eq(it)
           g == [j \in 0 .. n |-> fold[1 .. j]]
<1>1. RewrittenLines(lines, entry) = fold[DOMAIN idx]
  BY DEF RewrittenLines, FoldLeftDomain, FoldLeft, MapThenFoldSet
<1>0. DOMAIN idx = 1 .. n /\ \A j \in 1 .. n : idx[j] = j
  OBVIOUS
<1>2. \E it : Eq(it)
  <2>1. F \in [1 .. n -> [D -> D]]
    BY DEF LineStay
  <2>2. PICK it \in [SUBSET (1 .. n) -> D] : IsFold(it, n, base, F)
    BY <2>1, FoldExists
  <2>3. ASSUME NEW s \in SUBSET (1 .. n), s # {}
        PROVE  F[Max(s)][it[s \ {Max(s)}]] = Rewritten(lines, entry, it[s \ {Max(s)}], idx[Max(s)])
    <3>1. Max(s) \in 1 .. n
      BY <2>3, MaxIn
    <3>2. it[s \ {Max(s)}] \in D
      BY <2>2
    <3> QED BY <3>1, <3>2, <1>0
  <2> HIDE DEF F, idx
  <2>4. Eq(it)
    BY <1>0, <2>2, <2>3 DEF IsFold
  <2> QED BY <2>4
<1>3. Eq(fold)
  BY <1>2
<1> HIDE DEF fold
<1>4. g[0] = base
  <2> HIDE DEF idx
  <2>1. fold[{}] = base
    BY <1>3
  <2> QED BY <2>1
<1>5. ASSUME NEW j \in 1 .. n PROVE g[j] = Rewritten(lines, entry, g[j - 1], j)
  <2>1. /\ 1 .. j \in SUBSET (1 .. n) /\ 1 .. j - 1 \in SUBSET (1 .. n)
        /\ 1 .. j # {} /\ Max(1 .. j) = j /\ (1 .. j) \ {j} = 1 .. j - 1
    BY FoldSteps
  <2> HIDE DEF idx
  <2> DEFINE s == 1 .. j
  <2>2. fold[s] = Rewritten(lines, entry, fold[s \ {Max(s)}], idx[Max(s)])
    <3> HIDE DEF s
    <3>1. s \in SUBSET (1 .. n) /\ s # {}
      BY <2>1 DEF s
    <3> QED BY <1>0, <1>3, <3>1
  <2>3. fold[1 .. j] = Rewritten(lines, entry, fold[1 .. j - 1], j)
    BY <2>1, <2>2, <1>0
  <2> QED BY <2>3
<1>6. g \in [0 .. n -> D]
  <2> DEFINE B == {j \in 0 .. n : g[j] \in D}
  <2> HIDE DEF g
  <2>1. 0 \in B /\ \A j \in 1 .. n : j - 1 \in B => j \in B
    BY <1>4, <1>5 DEF LineStay
  <2>2. B = 0 .. n
    <3> HIDE DEF B
    <3>1. B \in SUBSET (0 .. n)
      BY DEF B
    <3> QED BY <2>1, <3>1, AllAlong
  <2> QED BY <2>2 DEF g
<1>7. g[n] = fold[1 .. n]
  OBVIOUS
<1> HIDE DEF g, idx
<1> QED BY <1>0, <1>1, <1>4, <1>5, <1>6, <1>7 DEF LineSteps

\* Rewriting a fragment for the entries, one after the other.
ConfigStay(entries, D, n) == \A x \in D : \A j \in 1 .. n : Rewrite(x, entries[j]) \in D
ConfigSteps(g, entries, D, base, n) ==
  /\ g \in [0 .. n -> D] /\ g[0] = base /\ g[n] = RewrittenAll(base, entries)
  /\ \A j \in 1 .. n : g[j] = Rewrite(g[j - 1], entries[j])

\* Configuring takes one rewrite for each entry.
LEMMA ConfigFold ==
  ASSUME NEW entries, NEW D, NEW base, base \in D, NEW n, n \in Nat,
         DOMAIN entries = 1 .. n, ConfigStay(entries, D, n)
  PROVE  \E g : ConfigSteps(g, entries, D, base, n)
<1> DEFINE idx == [i \in DOMAIN entries |-> i]
           Eq(it) == it = [s \in SUBSET DOMAIN entries |->
                             IF s = {} THEN base ELSE Rewrite(it[s \ {Max(s)}], entries[Max(s)])]
           F == [j \in 1 .. n |-> [x \in D |-> Rewrite(x, entries[j])]]
           fold == CHOOSE it : Eq(it)
           g == [j \in 0 .. n |-> fold[1 .. j]]
<1>1. RewrittenAll(base, entries) = fold[DOMAIN entries]
  BY DEF RewrittenAll, FoldLeft, MapThenFoldSet
<1>0. DOMAIN entries = 1 .. n /\ \A j \in 1 .. n : idx[j] = j
  OBVIOUS
<1>2. \E it : Eq(it)
  <2>1. F \in [1 .. n -> [D -> D]]
    BY DEF ConfigStay
  <2>2. PICK it \in [SUBSET (1 .. n) -> D] : IsFold(it, n, base, F)
    BY <2>1, FoldExists
  <2>3. ASSUME NEW s \in SUBSET (1 .. n), s # {}
        PROVE  F[Max(s)][it[s \ {Max(s)}]] = Rewrite(it[s \ {Max(s)}], entries[Max(s)])
    <3>1. Max(s) \in 1 .. n
      BY <2>3, MaxIn
    <3>2. it[s \ {Max(s)}] \in D
      BY <2>2
    <3> QED BY <3>1, <3>2, <1>0
  <2> HIDE DEF F, idx
  <2>4. Eq(it)
    BY <1>0, <2>2, <2>3 DEF IsFold
  <2> QED BY <2>4
<1>3. Eq(fold)
  BY <1>2
<1> HIDE DEF fold
<1>4. g[0] = base
  <2> HIDE DEF idx
  <2>1. fold[{}] = base
    BY <1>3
  <2> QED BY <2>1
<1>5. ASSUME NEW j \in 1 .. n PROVE g[j] = Rewrite(g[j - 1], entries[j])
  <2>1. /\ 1 .. j \in SUBSET (1 .. n) /\ 1 .. j - 1 \in SUBSET (1 .. n)
        /\ 1 .. j # {} /\ Max(1 .. j) = j /\ (1 .. j) \ {j} = 1 .. j - 1
    BY FoldSteps
  <2> HIDE DEF idx
  <2> DEFINE s == 1 .. j
  <2>2. fold[s] = Rewrite(fold[s \ {Max(s)}], entries[Max(s)])
    <3> HIDE DEF s
    <3>1. s \in SUBSET (1 .. n) /\ s # {}
      BY <2>1 DEF s
    <3> QED BY <1>0, <1>3, <3>1
  <2>3. fold[1 .. j] = Rewrite(fold[1 .. j - 1], entries[j])
    BY <2>1, <2>2, <1>0
  <2> QED BY <2>3
<1>6. g \in [0 .. n -> D]
  <2> DEFINE B == {j \in 0 .. n : g[j] \in D}
  <2> HIDE DEF g
  <2>1. 0 \in B /\ \A j \in 1 .. n : j - 1 \in B => j \in B
    BY <1>4, <1>5 DEF ConfigStay
  <2>2. B = 0 .. n
    <3> HIDE DEF B
    <3>1. B \in SUBSET (0 .. n)
      BY DEF B
    <3> QED BY <2>1, <3>1, AllAlong
  <2> QED BY <2>2 DEF g
<1>7. g[n] = fold[1 .. n]
  OBVIOUS
<1> HIDE DEF g, idx
<1> QED BY <1>0, <1>1, <1>4, <1>5, <1>6, <1>7 DEF ConfigSteps

\* Entering the entries, one after the other.
EntryStay(entries, D, n) == \A x \in D : \A j \in 1 .. n : Entered(entries, x, j) \in D
EntrySteps(g, entries, D, base, n) ==
  /\ g \in [0 .. n -> D] /\ g[0] = base /\ g[n] = EntryMap(entries)
  /\ \A j \in 1 .. n : g[j] = Entered(entries, g[j - 1], j)

\* The entries are entered one by one.
LEMMA EntryFold ==
  ASSUME NEW entries, NEW D, NEW base, base \in D, NEW n, n \in Nat,
         DOMAIN entries = 1 .. n, EntryStay(entries, D, n), base = <<>>
  PROVE  \E g : EntrySteps(g, entries, D, base, n)
<1> DEFINE idx == [i \in DOMAIN entries |-> i]
           Eq(it) == it = [s \in SUBSET DOMAIN idx |->
                             IF s = {} THEN <<>> ELSE Entered(entries, it[s \ {Max(s)}], idx[Max(s)])]
           F == [j \in 1 .. n |-> [x \in D |-> Entered(entries, x, j)]]
           fold == CHOOSE it : Eq(it)
           g == [j \in 0 .. n |-> fold[1 .. j]]
<1>1. EntryMap(entries) = fold[DOMAIN idx]
  BY DEF EntryMap, FoldLeftDomain, FoldLeft, MapThenFoldSet
<1>0. DOMAIN idx = 1 .. n /\ \A j \in 1 .. n : idx[j] = j
  OBVIOUS
<1>2. \E it : Eq(it)
  <2>1. F \in [1 .. n -> [D -> D]]
    BY DEF EntryStay
  <2>2. PICK it \in [SUBSET (1 .. n) -> D] : IsFold(it, n, base, F)
    BY <2>1, FoldExists
  <2>3. ASSUME NEW s \in SUBSET (1 .. n), s # {}
        PROVE  F[Max(s)][it[s \ {Max(s)}]] = Entered(entries, it[s \ {Max(s)}], idx[Max(s)])
    <3>1. Max(s) \in 1 .. n
      BY <2>3, MaxIn
    <3>2. it[s \ {Max(s)}] \in D
      BY <2>2
    <3> QED BY <3>1, <3>2, <1>0
  <2> HIDE DEF F, idx
  <2>4. Eq(it)
    BY <1>0, <2>2, <2>3 DEF IsFold
  <2> QED BY <2>4
<1>3. Eq(fold)
  BY <1>2
<1> HIDE DEF fold
<1>4. g[0] = base
  <2> HIDE DEF idx
  <2>1. fold[{}] = base
    BY <1>3
  <2> QED BY <2>1
<1>5. ASSUME NEW j \in 1 .. n PROVE g[j] = Entered(entries, g[j - 1], j)
  <2>1. /\ 1 .. j \in SUBSET (1 .. n) /\ 1 .. j - 1 \in SUBSET (1 .. n)
        /\ 1 .. j # {} /\ Max(1 .. j) = j /\ (1 .. j) \ {j} = 1 .. j - 1
    BY FoldSteps
  <2> HIDE DEF idx
  <2> DEFINE s == 1 .. j
  <2>2. fold[s] = Entered(entries, fold[s \ {Max(s)}], idx[Max(s)])
    <3> HIDE DEF s
    <3>1. s \in SUBSET (1 .. n) /\ s # {}
      BY <2>1 DEF s
    <3> QED BY <1>0, <1>3, <3>1
  <2>3. fold[1 .. j] = Entered(entries, fold[1 .. j - 1], j)
    BY <2>1, <2>2, <1>0
  <2> QED BY <2>3
<1>6. g \in [0 .. n -> D]
  <2> DEFINE B == {j \in 0 .. n : g[j] \in D}
  <2> HIDE DEF g
  <2>1. 0 \in B /\ \A j \in 1 .. n : j - 1 \in B => j \in B
    BY <1>4, <1>5 DEF EntryStay
  <2>2. B = 0 .. n
    <3> HIDE DEF B
    <3>1. B \in SUBSET (0 .. n)
      BY DEF B
    <3> QED BY <2>1, <3>1, AllAlong
  <2> QED BY <2>2 DEF g
<1>7. g[n] = fold[1 .. n]
  OBVIOUS
<1> HIDE DEF g, idx
<1> QED BY <1>0, <1>1, <1>4, <1>5, <1>6, <1>7 DEF EntrySteps

\* The lines set a symbol in exactly one line, which is the entry; or in none.
Sets(lines, entry) == \E n \in DOMAIN lines : Occurs(lines, entry.symbol) = {n} /\ lines[n] = entry
Lacks(lines, symbol) == Occurs(lines, symbol) = {}

\* One line more sets its symbol, if none did before, and leaves the others.
LEMMA AppendSets ==
  ASSUME NEW S, NEW lines \in Seq(S), NEW line \in S
  PROVE  /\ Append(lines, line) \in Seq(S)
         /\ \A symbol : Lacks(lines, symbol) /\ line.symbol # symbol => Lacks(Append(lines, line), symbol)
         /\ \A entry : Sets(lines, entry) /\ line.symbol # entry.symbol => Sets(Append(lines, line), entry)
         /\ Lacks(lines, line.symbol) => Sets(Append(lines, line), line)
<1> DEFINE more == Append(lines, line)
<1>1. /\ more \in Seq(S) /\ Len(more) = Len(lines) + 1 /\ Len(lines) \in Nat
      /\ DOMAIN more = 1 .. Len(lines) + 1 /\ DOMAIN lines = 1 .. Len(lines)
      /\ more[Len(lines) + 1] = line /\ \A i \in 1 .. Len(lines) : more[i] = lines[i]
  OBVIOUS
<1> HIDE DEF more
<1>2. ASSUME NEW symbol
      PROVE  Occurs(more, symbol) = Occurs(lines, symbol) \cup (IF line.symbol = symbol THEN {Len(lines) + 1} ELSE {})
  BY <1>1 DEF Occurs
<1>3. ASSUME NEW entry, Sets(lines, entry), line.symbol # entry.symbol PROVE Sets(more, entry)
  BY <1>1, <1>2, <1>3 DEF Sets
<1>4. ASSUME Lacks(lines, line.symbol) PROVE Sets(more, line)
  BY <1>1, <1>2, <1>4 DEF Sets, Lacks
<1>5. ASSUME NEW symbol, Lacks(lines, symbol), line.symbol # symbol PROVE Lacks(more, symbol)
  BY <1>2, <1>5 DEF Lacks
<1> QED BY <1>1, <1>3, <1>4, <1>5 DEF more

\* A rewrite leaves one line of its symbol, and those of the others alone.
LEMMA RewriteSets ==
  ASSUME NEW S, Blank \in S, NEW lines \in Seq(S), NEW entry \in S, entry.symbol # Blank.symbol
  PROVE  /\ Rewrite(lines, entry) \in Seq(S)
         /\ Sets(Rewrite(lines, entry), entry)
         /\ \A other : /\ Sets(lines, other) /\ other.symbol # entry.symbol /\ other.symbol # Blank.symbol
                       => Sets(Rewrite(lines, entry), other)
<1> DEFINE at == Occurs(lines, entry.symbol)
           n == Len(lines)
<1>0. n \in Nat /\ DOMAIN lines = 1 .. n /\ \A i \in 1 .. n : lines[i] \in S
  OBVIOUS
<1>1. CASE at = {}
  <2> DEFINE spaced == IF lines # <<>> /\ lines[Len(lines)] # Blank THEN Append(lines, Blank) ELSE lines
  <2>1. spaced \in Seq(S) /\ Lacks(spaced, entry.symbol)
    BY <1>1, AppendSets DEF Lacks
  <2>2. ASSUME NEW other, Sets(lines, other), other.symbol # Blank.symbol PROVE Sets(spaced, other)
    BY <2>2, AppendSets
  <2>3. Rewrite(lines, entry) = Append(spaced, entry)
    BY <1>1 DEF Rewrite
  <2> HIDE DEF spaced
  <2> QED BY <2>1, <2>2, <2>3, AppendSets
<1>2. CASE at # {}
  <2> DEFINE D == Seq(S)
             first == CHOOSE j \in at : \A k \in at : j <= k
  <2>1. at \in SUBSET (1 .. n) /\ \A i \in 1 .. n : i \in at <=> lines[i].symbol = entry.symbol
    BY <1>0 DEF Occurs
  <2>2. first \in at /\ \A k \in at : first <= k
    <3>1. at \in SUBSET Nat
      BY <1>0, <2>1
    <3> HIDE DEF at
    <3>2. \E j \in at : \A k \in at : j <= k
      BY <1>2, <3>1, Least
    <3> QED BY <3>2
  <2>3. ASSUME NEW done, NEW i \in 1 .. n
        PROVE  Rewritten(lines, entry, done, i) = IF i \notin at THEN Append(done, lines[i])
                                                 ELSE IF i = first THEN Append(done, entry) ELSE done
    BY DEF Rewritten
  <2> HIDE DEF at, first
  <2>4. ASSUME NEW done \in D, NEW i \in 1 .. n PROVE Rewritten(lines, entry, done, i) \in D
    <3>1. done \in Seq(S) /\ lines[i] \in S
      BY <1>0
    <3>2. Append(done, lines[i]) \in Seq(S) /\ Append(done, entry) \in Seq(S)
      BY <3>1
    <3> QED BY <2>3, <3>1, <3>2
  <2>5. LineStay(lines, entry, D, n)
    BY <2>4 DEF LineStay
  <2>6. <<>> \in D
    OBVIOUS
  <2>7. PICK g : LineSteps(g, lines, entry, D, <<>>, n)
    <3> HIDE DEF D, n
    <3> QED BY <1>0, <2>5, <2>6, LineFold
  <2>8. /\ g \in [0 .. n -> D] /\ g[0] = <<>> /\ g[n] = RewrittenLines(lines, entry)
        /\ \A j \in 1 .. n : g[j] = Rewritten(lines, entry, g[j - 1], j)
    BY <2>7 DEF LineSteps
  <2>9. Rewrite(lines, entry) = g[n]
    BY <1>2, <2>8 DEF Rewrite, RewrittenLines, at
  <2> HIDE DEF n
  <2>10. \A j \in 1 .. n : j - 1 \in 0 .. n /\ g[j - 1] \in Seq(S)
    BY <1>0, <2>8
  <2>e. \A symbol : Lacks(<<>>, symbol)
    BY DEF Lacks, Occurs
  <2>11. Sets(g[n], entry)
    <3> DEFINE B == {j \in 0 .. n : IF j < first THEN Lacks(g[j], entry.symbol) ELSE Sets(g[j], entry)}
    <3>1. 0 \in B
      BY <1>0, <2>1, <2>2, <2>8, <2>e
    <3>2. ASSUME NEW j \in 1 .. n, j - 1 \in B PROVE j \in B
      <4>0. j \in Nat /\ first \in Nat /\ j - 1 \in Nat
        BY <1>0, <2>1, <2>2
      <4>1. CASE j \notin at
        <5>1. g[j] = Append(g[j - 1], lines[j]) /\ lines[j].symbol # entry.symbol /\ j # first
          BY <2>1, <2>2, <2>3, <2>8, <4>1
        <5>2. j - 1 < first <=> j < first
          BY <4>0, <5>1
        <5>3. g[j - 1] \in Seq(S) /\ lines[j] \in S
          BY <1>0, <2>10
        <5>4. /\ Lacks(g[j - 1], entry.symbol) => Lacks(g[j], entry.symbol)
              /\ Sets(g[j - 1], entry) => Sets(g[j], entry)
          BY <5>1, <5>3, AppendSets
        <5> QED BY <3>2, <5>2, <5>4
      <4>2. CASE j = first
        <5>1. g[j] = Append(g[j - 1], entry)
          BY <2>2, <2>3, <2>8, <4>2
        <5>2. j - 1 < first
          BY <4>0, <4>2
        <5>3. Lacks(g[j - 1], entry.symbol)
          BY <3>2, <5>2
        <5>4. Sets(g[j], entry) /\ ~(j < first)
          BY <2>10, <5>1, <5>3, <4>0, <4>2, AppendSets
        <5> QED BY <5>4
      <4>3. CASE j \in at /\ j # first
        <5>1. g[j] = g[j - 1]
          BY <2>3, <2>8, <4>3
        <5>2. first <= j
          BY <2>2, <4>3
        <5>3. ~(j - 1 < first) /\ ~(j < first)
          BY <5>2, <4>0, <4>3
        <5> QED BY <3>2, <5>1, <5>3
      <4> QED BY <4>1, <4>2, <4>3
    <3>3. B = 0 .. n
      <4>1. B \in SUBSET (0 .. n)
        OBVIOUS
      <4> HIDE DEF B
      <4> QED BY <1>0, <3>1, <3>2, <4>1, AllAlong
    <3>4. n \in B /\ ~(n < first)
      BY <1>0, <2>1, <2>2, <3>3
    <3> QED BY <3>4
  <2>12. ASSUME NEW other, Sets(lines, other), other.symbol # entry.symbol PROVE Sets(g[n], other)
    <3>1. PICK m \in 1 .. n : Occurs(lines, other.symbol) = {m} /\ lines[m] = other
      BY <1>0, <2>12 DEF Sets
    <3>2. \A i \in 1 .. n : lines[i].symbol = other.symbol <=> i = m
      BY <1>0, <3>1 DEF Occurs
    <3> DEFINE B == {j \in 0 .. n : IF j < m THEN Lacks(g[j], other.symbol) ELSE Sets(g[j], other)}
    <3>3. 0 \in B
      BY <1>0, <2>8, <2>e
    <3>4. ASSUME NEW j \in 1 .. n, j - 1 \in B PROVE j \in B
      <4>0. j \in Nat /\ m \in Nat /\ j - 1 \in Nat
        BY <1>0
      <4>1. CASE j = m
        <5>1. g[j] = Append(g[j - 1], lines[j]) /\ lines[j] = other
          BY <2>1, <2>3, <2>8, <2>12, <3>1, <4>1
        <5>2. Lacks(g[j - 1], other.symbol)
          BY <3>4, <4>0, <4>1
        <5>3. Sets(g[j], other) /\ ~(j < m)
          BY <1>0, <2>10, <5>1, <5>2, <4>0, <4>1, AppendSets
        <5> QED BY <5>3
      <4>2. CASE j # m /\ j \notin at
        <5>1. g[j] = Append(g[j - 1], lines[j]) /\ lines[j].symbol # other.symbol
          BY <2>3, <2>8, <3>2, <4>2
        <5>2. j - 1 < m <=> j < m
          BY <4>0, <4>2
        <5>3. g[j - 1] \in Seq(S) /\ lines[j] \in S
          BY <1>0, <2>10
        <5>4. /\ Lacks(g[j - 1], other.symbol) => Lacks(g[j], other.symbol)
              /\ Sets(g[j - 1], other) => Sets(g[j], other)
          BY <5>1, <5>3, AppendSets
        <5> QED BY <3>4, <5>2, <5>4
      <4>3. CASE j # m /\ j \in at
        <5>0. j - 1 < m <=> j < m
          BY <4>0, <4>3
        <5>1. g[j] = Append(g[j - 1], entry) \/ g[j] = g[j - 1]
          BY <2>3, <2>8, <4>3
        <5>2. g[j - 1] \in Seq(S)
          BY <2>10
        <5>3. /\ Lacks(g[j - 1], other.symbol) => Lacks(Append(g[j - 1], entry), other.symbol)
              /\ Sets(g[j - 1], other) => Sets(Append(g[j - 1], entry), other)
          BY <2>12, <5>2, AppendSets
        <5>4. /\ Lacks(g[j - 1], other.symbol) => Lacks(g[j], other.symbol)
              /\ Sets(g[j - 1], other) => Sets(g[j], other)
          BY <5>1, <5>3
        <5> QED BY <3>4, <5>0, <5>4
      <4> QED BY <4>1, <4>2, <4>3
    <3>5. B = 0 .. n
      <4>1. B \in SUBSET (0 .. n)
        OBVIOUS
      <4> HIDE DEF B
      <4> QED BY <1>0, <3>3, <3>4, <4>1, AllAlong
    <3>6. n \in B /\ ~(n < m)
      BY <1>0, <3>1, <3>5
    <3> QED BY <3>6
  <2>13. g[n] \in Seq(S)
    BY <1>0, <2>8
  <2> QED BY <2>9, <2>11, <2>12, <2>13
<1> QED BY <1>1, <1>2

\* A sequence is one of its members.
LEMMA SequenceOf ==
  ASSUME NEW S, NEW seq \in Seq(S)
  PROVE  IsSequence(seq) /\ ToSet(seq) \in SUBSET S
<1>1. Len(seq) \in Nat /\ DOMAIN seq = 1 .. Len(seq) /\ seq \in [1 .. Len(seq) -> S]
  OBVIOUS
<1>2. seq \in [1 .. Len(seq) -> ToSet(seq)]
  BY <1>1 DEF ToSet
<1>3. seq \in Seq(ToSet(seq))
  <2> DEFINE T == ToSet(seq)
  <2> HIDE DEF T
  <2>1. seq \in [1 .. Len(seq) -> T]
    BY <1>2 DEF T
  <2>2. seq \in Seq(T)
    BY <1>1, <2>1
  <2> QED BY <2>2 DEF T
<1> QED BY <1>1, <1>3 DEF IsSequence, ToSet

\* The entries entered are of the configuration, with one for each symbol.
Distinct(entries) == \A i, j \in DOMAIN entries : i # j => entries[i].symbol # entries[j].symbol
LEMMA EntriesDistinct ==
  ASSUME NEW entries, IsSequence(entries)
  PROVE  EntryMap(entries) \in Seq(ToSet(entries)) /\ Distinct(EntryMap(entries))
<1> DEFINE n == Len(entries)
           S == ToSet(entries)
           D == Seq(S)
           Newest(i) == \A j \in 1 .. n : j > i => entries[j].symbol # entries[i].symbol
           Of(map, j) == \A k \in DOMAIN map : \E i \in 1 .. j : map[k] = entries[i] /\ Newest(i)
<1>1. n \in Nat /\ DOMAIN entries = 1 .. n /\ \A i \in 1 .. n : entries[i] \in S
  BY DEF IsSequence
<1> HIDE DEF n, S
<1>2. ASSUME NEW map, NEW i \in 1 .. n
      PROVE  Entered(entries, map, i) = IF Newest(i) THEN Append(map, entries[i]) ELSE map
  BY <1>1 DEF Entered
<1>3. PICK g : EntrySteps(g, entries, D, <<>>, n)
  <2>1. <<>> \in D
    OBVIOUS
  <2>2. ASSUME NEW map \in D, NEW i \in 1 .. n PROVE Entered(entries, map, i) \in D
    <3>1. map \in Seq(S) /\ entries[i] \in S
      BY <1>1
    <3>2. Append(map, entries[i]) \in Seq(S)
      BY <3>1
    <3> HIDE DEF Newest
    <3> QED BY <1>2, <3>1, <3>2
  <2>3. EntryStay(entries, D, n)
    BY <2>2 DEF EntryStay
  <2> HIDE DEF D
  <2> QED BY <1>1, <2>1, <2>3, EntryFold
<1>4. /\ g \in [0 .. n -> D] /\ g[0] = <<>> /\ g[n] = EntryMap(entries)
      /\ \A j \in 1 .. n : g[j] = Entered(entries, g[j - 1], j)
  BY <1>3 DEF EntrySteps
<1> DEFINE B == {j \in 0 .. n : Of(g[j], j) /\ Distinct(g[j])}
<1>5. 0 \in B
  BY <1>1, <1>4 DEF Distinct
<1>6. ASSUME NEW j \in 1 .. n, j - 1 \in B PROVE j \in B
  <2>0. j \in Nat /\ j - 1 \in Nat /\ j - 1 \in 0 .. n /\ \A i \in 1 .. j - 1 : i \in 1 .. n /\ i \in 1 .. j /\ j > i
    BY <1>1
  <2>1. g[j - 1] \in Seq(S) /\ Of(g[j - 1], j - 1) /\ Distinct(g[j - 1])
    BY <1>4, <1>6, <2>0
  <2>2. CASE ~Newest(j)
    <3>1. g[j] = g[j - 1]
      BY <1>2, <1>4, <2>2
    <3> HIDE DEF Newest
    <3> QED BY <2>0, <2>1, <3>1
  <2>3. CASE Newest(j)
    <3>1. g[j] = Append(g[j - 1], entries[j]) /\ entries[j] \in S
      BY <1>1, <1>2, <1>4, <2>3
    <3> DEFINE m == Len(g[j - 1])
    <3>2. /\ m \in Nat /\ DOMAIN g[j - 1] = 1 .. m /\ DOMAIN g[j] = 1 .. m + 1
          /\ g[j][m + 1] = entries[j] /\ \A k \in 1 .. m : g[j][k] = g[j - 1][k]
      BY <2>1, <3>1
    <3> HIDE DEF m
    <3>3. \A k \in 1 .. m + 1 : k \in 1 .. m \/ k = m + 1
      BY <3>2
    <3>4. ASSUME NEW k \in 1 .. m PROVE g[j][k].symbol # entries[j].symbol
      <4>1. PICK i \in 1 .. j - 1 : g[j - 1][k] = entries[i] /\ Newest(i)
        <5> HIDE DEF Newest
        <5> QED BY <2>1, <3>2
      <4>2. entries[j].symbol # entries[i].symbol
        BY <2>0, <4>1
      <4> QED BY <3>2, <4>1, <4>2
    <3>5. Of(g[j], j)
      <4>1. ASSUME NEW k \in 1 .. m PROVE \E i \in 1 .. j : g[j][k] = entries[i] /\ Newest(i)
        <5> HIDE DEF Newest
        <5> QED BY <2>0, <2>1, <3>2
      <4>2. j \in 1 .. j
        BY <2>0
      <4> HIDE DEF Newest
      <4> QED BY <2>3, <3>2, <3>3, <4>1, <4>2
    <3>6. Distinct(g[j])
      <4>1. SUFFICES ASSUME NEW k \in 1 .. m + 1, NEW l \in 1 .. m + 1, k # l
                     PROVE  g[j][k].symbol # g[j][l].symbol
        BY <3>2 DEF Distinct
      <4>2. CASE k \in 1 .. m /\ l \in 1 .. m
        BY <2>1, <3>2, <4>1, <4>2 DEF Distinct
      <4>3. CASE k = m + 1
        BY <3>2, <3>3, <3>4, <4>1, <4>3
      <4>4. CASE l = m + 1
        BY <3>2, <3>3, <3>4, <4>1, <4>4
      <4> QED BY <3>3, <4>2, <4>3, <4>4
    <3> QED BY <3>5, <3>6
  <2> QED BY <2>2, <2>3
<1>7. n \in B
  <2>1. B \in SUBSET (0 .. n)
    OBVIOUS
  <2> HIDE DEF B
  <2> QED BY <1>1, <1>5, <1>6, <2>1, AllAlong
<1>8. g[n] \in Seq(S) /\ Distinct(g[n])
  BY <1>1, <1>4, <1>7
<1> QED BY <1>4, <1>8 DEF S

\* After the rewrites for entries of distinct symbols each has its line, and the
\* lines of other symbols are left.
LEMMA ConfigSets ==
  ASSUME NEW S, Blank \in S, NEW lines \in Seq(S), NEW entries \in Seq(S), Distinct(entries),
         \A i \in DOMAIN entries : entries[i].symbol # Blank.symbol
  PROVE  LET made == RewrittenAll(lines, entries) IN
         /\ made \in Seq(S)
         /\ \A i \in DOMAIN entries : Sets(made, entries[i])
         /\ \A other : /\ Sets(lines, other) /\ other.symbol # Blank.symbol
                       /\ \A i \in DOMAIN entries : entries[i].symbol # other.symbol
                       => Sets(made, other)
<1> DEFINE n == Len(entries)
           D == Seq(S)
<1>1. n \in Nat /\ DOMAIN entries = 1 .. n /\ \A i \in 1 .. n : entries[i] \in S
  OBVIOUS
<1> HIDE DEF n
<1>2. ASSUME NEW x \in D, NEW i \in 1 .. n PROVE Rewrite(x, entries[i]) \in D
  <2>1. x \in Seq(S) /\ entries[i] \in S /\ entries[i].symbol # Blank.symbol
    BY <1>1
  <2> HIDE DEF D
  <2>2. Rewrite(x, entries[i]) \in Seq(S)
    BY <2>1, RewriteSets
  <2> QED BY <2>2 DEF D
<1>3. PICK g : ConfigSteps(g, entries, D, lines, n)
  <2>1. ConfigStay(entries, D, n)
    BY <1>2 DEF ConfigStay
  <2>2. lines \in D
    OBVIOUS
  <2> HIDE DEF D
  <2> QED BY <1>1, <2>1, <2>2, ConfigFold
<1>4. /\ g \in [0 .. n -> D] /\ g[0] = lines /\ g[n] = RewrittenAll(lines, entries)
      /\ \A j \in 1 .. n : g[j] = Rewrite(g[j - 1], entries[j])
  BY <1>3 DEF ConfigSteps
<1>5. ASSUME NEW j \in 1 .. n
      PROVE  /\ Sets(g[j], entries[j])
             /\ \A other : /\ Sets(g[j - 1], other) /\ other.symbol # entries[j].symbol /\ other.symbol # Blank.symbol
                           => Sets(g[j], other)
  <2>0. j - 1 \in 0 .. n
    BY <1>1
  <2>1. g[j - 1] \in Seq(S) /\ entries[j] \in S /\ entries[j].symbol # Blank.symbol
    BY <1>1, <1>4, <2>0
  <2>2. g[j] = Rewrite(g[j - 1], entries[j])
    BY <1>4
  <2> QED BY <2>1, <2>2, RewriteSets
<1>6. ASSUME NEW i \in 0 .. n, NEW other, Sets(g[i], other), other.symbol # Blank.symbol,
             \A j \in 1 .. n : j > i => entries[j].symbol # other.symbol
      PROVE  Sets(g[n], other)
  <2> DEFINE B == {j \in 0 .. n : j >= i => Sets(g[j], other)}
  <2>1. 0 \in B
    BY <1>1, <1>6
  <2>2. ASSUME NEW j \in 1 .. n, j - 1 \in B PROVE j \in B
    <3>1. CASE j > i
      <4>1. Sets(g[j - 1], other) /\ other.symbol # entries[j].symbol
        BY <1>1, <1>6, <2>2, <3>1
      <4>2. Sets(g[j], other)
        BY <4>1, <1>5, <1>6
      <4> QED BY <4>2
    <3>2. CASE ~(j > i)
      BY <1>6, <3>2
    <3> QED BY <3>1, <3>2
  <2>3. B = 0 .. n
    <3>1. B \in SUBSET (0 .. n)
      OBVIOUS
    <3> HIDE DEF B
    <3> QED BY <1>1, <2>1, <2>2, <3>1, AllAlong
  <2>4. n \in B
    BY <1>1, <2>3
  <2> QED BY <1>1, <2>4
<1>7. ASSUME NEW i \in 1 .. n PROVE Sets(g[n], entries[i])
  <2>1. Sets(g[i], entries[i]) /\ entries[i].symbol # Blank.symbol /\ i \in 0 .. n
    BY <1>1, <1>5
  <2>2. \A j \in 1 .. n : j > i => entries[j].symbol # entries[i].symbol
    BY <1>1 DEF Distinct
  <2> QED BY <1>6, <2>1, <2>2
<1>8. ASSUME NEW other, Sets(lines, other), other.symbol # Blank.symbol,
             \A i \in 1 .. n : entries[i].symbol # other.symbol
      PROVE  Sets(g[n], other)
  BY <1>1, <1>4, <1>6, <1>8
<1>9. g[n] \in Seq(S)
  BY <1>1, <1>4
<1> QED BY <1>1, <1>4, <1>7, <1>8, <1>9

-----------------------------------------------------------------------------
(* What a kernel rebuild makes, and what the udebs of its kernel carry.      *)

\* A checkout with its lists and fragments; a kernel rebuild's targets and symbols.
Usable(checkout) ==
    /\ {"version", "upstream", "lists", "conf", "control"} \subseteq DOMAIN checkout
    /\ IsFunction(checkout.lists)
    /\ IsFunction(checkout.conf) /\ \A f \in DOMAIN checkout.conf : IsSequence(checkout.conf[f])

KernelEntry(rebuild) ==
    /\ rebuild.kind = "linux"
    /\ rebuild.overlay # "none" => rebuild.overlay \in DOMAIN Overlays
    /\ IsSequence(rebuild.targets) /\ IsSequence(rebuild.config)
    /\ \A line \in ToSet(rebuild.config) : line.symbol # Blank.symbol

\* A sequence of members of a set is one of those of a larger set.
LEMMA SequenceWidens ==
  ASSUME NEW seq, IsSequence(seq), NEW T, ToSet(seq) \subseteq T
  PROVE  seq \in Seq(T)
<1> DEFINE S == ToSet(seq)
<1> HIDE DEF S
<1>1. seq \in Seq(S) /\ S \subseteq T
  BY DEF IsSequence, S
<1>2. Len(seq) \in Nat /\ seq \in [1 .. Len(seq) -> S]
  BY <1>1
<1>3. seq \in [1 .. Len(seq) -> T]
  BY <1>1, <1>2
<1> QED BY <1>2, <1>3

\* Configuring a checkout gives the chosen fragments a line for each entry and
\* keeps, in every fragment, the lines of the symbols that are not configured.
LEMMA ConfiguredSets ==
  ASSUME NEW checkout, Usable(checkout), NEW rebuild, KernelEntry(rebuild)
  PROVE  LET made == Configured(checkout, rebuild) IN
         /\ Usable(made) /\ made.version = checkout.version /\ made.upstream = checkout.upstream
         /\ made.lists = checkout.lists
         /\ DOMAIN made.conf = DOMAIN checkout.conf
         /\ \A entry \in ToSet(EntryMap(rebuild.config)), f \in Fragments(DOMAIN checkout.conf, rebuild.arch) :
              entry.symbol # Blank.symbol /\ Sets(made.conf[f], entry)
         /\ \A f \in DOMAIN checkout.conf : \A other :
              /\ Sets(checkout.conf[f], other) /\ other.symbol # Blank.symbol
              /\ Occurs(rebuild.config, other.symbol) = {}
              => Sets(made.conf[f], other)
<1> DEFINE made == Configured(checkout, rebuild)
           map == EntryMap(rebuild.config)
           chosen == Fragments(DOMAIN checkout.conf, rebuild.arch)
<1>1. IsSequence(map) /\ ToSet(map) \in SUBSET ToSet(rebuild.config) /\ Distinct(map)
  <2> DEFINE S == ToSet(rebuild.config)
  <2>1. map \in Seq(S) /\ Distinct(map)
    BY EntriesDistinct DEF KernelEntry
  <2> HIDE DEF map, S
  <2> QED BY <2>1, SequenceOf DEF S
<1>2. chosen \subseteq DOMAIN checkout.conf
  BY DEF Fragments
<1>3. \A entry \in ToSet(map) : entry.symbol # Blank.symbol
  BY <1>1 DEF KernelEntry
<1>4. ASSUME NEW symbol, Occurs(rebuild.config, symbol) = {} PROVE \A entry \in ToSet(map) : entry.symbol # symbol
  <2>1. \A entry \in ToSet(rebuild.config) : entry.symbol # symbol
    BY <1>4 DEF Occurs, ToSet
  <2> QED BY <1>1, <2>1
<1> HIDE DEF map, chosen
<1>5. CASE rebuild.config = <<>>
  <2>1. made = checkout
    BY <1>5 DEF Configured
  <2>2. ToSet(map) = {}
    BY <1>1, <1>5 DEF ToSet
  <2> HIDE DEF made
  <2> QED BY <2>1, <2>2 DEF made, map
<1>6. CASE rebuild.config # <<>>
  <2> DEFINE conf == [f \in DOMAIN checkout.conf |->
                         IF f \in chosen THEN RewrittenAll(checkout.conf[f], map) ELSE checkout.conf[f]]
  <2>1. made = [checkout EXCEPT !.conf = conf]
    BY <1>6 DEF Configured, RewrittenAll, map, chosen
  <2> HIDE DEF made
  <2>2. ASSUME NEW f \in DOMAIN checkout.conf
        PROVE  LET all == RewrittenAll(checkout.conf[f], map) IN
               /\ IsSequence(all)
               /\ \A entry \in ToSet(map) : Sets(all, entry)
               /\ \A other : /\ Sets(checkout.conf[f], other) /\ other.symbol # Blank.symbol
                             /\ \A entry \in ToSet(map) : entry.symbol # other.symbol
                             => Sets(all, other)
    <3> DEFINE S == ToSet(checkout.conf[f]) \cup ToSet(map) \cup {Blank}
               lines == checkout.conf[f]
    <3>1. IsSequence(lines) /\ ToSet(lines) \subseteq S /\ ToSet(map) \subseteq S /\ Blank \in S
      BY DEF Usable
    <3> HIDE DEF S
    <3>2. lines \in Seq(S) /\ map \in Seq(S)
      BY <1>1, <3>1, SequenceWidens
    <3> HIDE DEF lines
    <3>3. \A i \in DOMAIN map : map[i] \in ToSet(map) /\ map[i].symbol # Blank.symbol
      BY <1>3 DEF ToSet
    <3>4. \A entry \in ToSet(map) : \E i \in DOMAIN map : entry = map[i]
      BY DEF ToSet
    <3> DEFINE all == RewrittenAll(lines, map)
    <3>5. /\ all \in Seq(S)
          /\ \A i \in DOMAIN map : Sets(all, map[i])
          /\ \A other : /\ Sets(lines, other) /\ other.symbol # Blank.symbol
                        /\ \A i \in DOMAIN map : map[i].symbol # other.symbol
                        => Sets(all, other)
      BY <1>1, <3>1, <3>2, <3>3, ConfigSets
    <3> HIDE DEF all
    <3>6. IsSequence(all)
      BY <3>5, SequenceOf
    <3>7. \A entry \in ToSet(map) : Sets(all, entry)
      BY <3>4, <3>5
    <3>8. \A other : /\ Sets(lines, other) /\ other.symbol # Blank.symbol
                     /\ \A entry \in ToSet(map) : entry.symbol # other.symbol
                     => Sets(all, other)
      BY <3>3, <3>5
    <3> QED BY <3>6, <3>7, <3>8 DEF all, lines
  <2>3. /\ DOMAIN made = DOMAIN checkout /\ made.version = checkout.version /\ made.upstream = checkout.upstream
        /\ made.lists = checkout.lists /\ made.conf = conf
    BY <2>1 DEF Usable
  <2>4. IsFunction(conf) /\ DOMAIN conf = DOMAIN checkout.conf
    BY DEF IsFunction
  <2>5. ASSUME NEW f \in DOMAIN checkout.conf
        PROVE  /\ IsSequence(conf[f])
               /\ f \in chosen => \A entry \in ToSet(map) : Sets(conf[f], entry)
               /\ \A other : /\ Sets(checkout.conf[f], other) /\ other.symbol # Blank.symbol
                             /\ \A entry \in ToSet(map) : entry.symbol # other.symbol
                             => Sets(conf[f], other)
    <3>1. CASE f \in chosen
      <4>1. conf[f] = RewrittenAll(checkout.conf[f], map)
        BY <3>1
      <4> HIDE DEF conf
      <4> QED BY <2>2, <4>1
    <3>2. CASE f \notin chosen
      <4>1. conf[f] = checkout.conf[f] /\ IsSequence(conf[f])
        BY <3>2 DEF Usable
      <4> HIDE DEF conf
      <4> QED BY <3>2, <4>1
    <3> QED BY <3>1, <3>2
  <2> HIDE DEF conf
  <2>6. Usable(made)
    BY <2>3, <2>4, <2>5 DEF Usable
  <2>7. ASSUME NEW entry \in ToSet(map), NEW f \in chosen
        PROVE  entry.symbol # Blank.symbol /\ Sets(made.conf[f], entry)
    BY <1>2, <1>3, <2>3, <2>5
  <2>8. ASSUME NEW f \in DOMAIN checkout.conf, NEW other,
               Sets(checkout.conf[f], other), other.symbol # Blank.symbol,
               Occurs(rebuild.config, other.symbol) = {}
        PROVE  Sets(made.conf[f], other)
    BY <1>4, <2>3, <2>5, <2>8
  <2> QED BY <2>3, <2>4, <2>6, <2>7, <2>8 DEF made, map, chosen
<1> QED BY <1>5, <1>6

\* The configuration fragments a rebuild's overlay brings.
Bringing(rebuild) == IF rebuild.overlay = "none" THEN {} ELSE DOMAIN Overlays[rebuild.overlay].conf

\* An overlay leaves the files in the checkout that it does not bring itself.
LEMMA OverlaidHas ==
  ASSUME NEW checkout, Usable(checkout), NEW rebuild, KernelEntry(rebuild)
  PROVE  LET merged == Overlaid(checkout, rebuild.overlay) IN
         /\ Usable(merged) /\ merged.version = checkout.version /\ merged.upstream = checkout.upstream
         /\ DOMAIN merged.conf = DOMAIN checkout.conf \cup Bringing(rebuild)
         /\ \A f \in DOMAIN checkout.conf : ~Brings(rebuild, "conf", f) => merged.conf[f] = checkout.conf[f]
         /\ \A p, m : Has(checkout.lists, p, m) /\ ~Brings(rebuild, "lists", p) => Has(merged.lists, p, m)
<1> DEFINE merged == Overlaid(checkout, rebuild.overlay)
           over == Overlays[rebuild.overlay]
           lists == Over(over.lists, checkout.lists)
           conf == Over(over.conf, checkout.conf)
<1>1. CASE rebuild.overlay = "none"
  BY <1>1 DEF Overlaid, Bringing
<1>2. CASE rebuild.overlay # "none"
  <2>1. /\ DOMAIN merged = DOMAIN checkout
        /\ merged.version = checkout.version /\ merged.upstream = checkout.upstream
        /\ merged.lists = lists /\ merged.conf = conf
    BY <1>2 DEF Overlaid, Usable
  <2>2. IsFunction(lists) /\ IsFunction(conf) /\ DOMAIN conf = DOMAIN checkout.conf \cup DOMAIN over.conf
    BY DEF Over, IsFunction
  <2>3. \A f \in DOMAIN checkout.conf : f \notin DOMAIN over.conf => conf[f] = checkout.conf[f]
    BY DEF Over
  <2>4. \A f \in DOMAIN over.conf : IsSequence(over.conf[f]) /\ conf[f] = over.conf[f]
    BY <1>2, OverlaysAssumption DEF KernelEntry, Over
  <2>5. \A p, m : Has(checkout.lists, p, m) /\ p \notin DOMAIN over.lists => Has(lists, p, m)
    BY DEF Has, Over
  <2>6. Bringing(rebuild) = DOMAIN over.conf
    BY <1>2 DEF Bringing
  <2>7. \A name : /\ Brings(rebuild, "conf", name) <=> name \in DOMAIN over.conf
                  /\ Brings(rebuild, "lists", name) <=> name \in DOMAIN over.lists
    BY <1>2 DEF Brings
  <2> HIDE DEF merged, lists, conf, over
  <2>8. \A f \in DOMAIN conf : IsSequence(conf[f])
    BY <2>2, <2>3, <2>4 DEF Usable
  <2>9. Usable(merged)
    BY <2>1, <2>2, <2>8 DEF Usable
  <2> QED BY <2>1, <2>2, <2>3, <2>5, <2>6, <2>7, <2>9 DEF merged
<1> QED BY <1>1, <1>2

\* A kernel rebuild puts into a checkout what it asks for, and leaves there what
\* it does not replace.
LEMMA KernelPreparedHas ==
  ASSUME NEW checkout, Usable(checkout), NEW rebuild, KernelEntry(rebuild)
  PROVE  LET made == KernelPrepared(checkout, rebuild)
             targets == rebuild.targets
         IN
         /\ Usable(made) /\ made.version = checkout.version /\ made.upstream = checkout.upstream
         /\ DOMAIN made.conf = DOMAIN checkout.conf \cup Bringing(rebuild)
         /\ \A k \in DOMAIN targets :
              (\A l \in DOMAIN targets : l > k => Adds(targets[l], targets[k].path))
                => Has(made.lists, targets[k].path, targets[k].modules)
         /\ \A p, m : /\ Has(checkout.lists, p, m) /\ ~Brings(rebuild, "lists", p)
                      /\ \A l \in DOMAIN targets : Adds(targets[l], p)
                      => Has(made.lists, p, m)
         /\ \A entry \in ToSet(EntryMap(rebuild.config)), f \in Fragments(DOMAIN made.conf, rebuild.arch) :
              entry.symbol # Blank.symbol /\ Sets(made.conf[f], entry)
         /\ \A f \in DOMAIN checkout.conf : \A other :
              /\ Sets(checkout.conf[f], other) /\ other.symbol # Blank.symbol
              /\ Occurs(rebuild.config, other.symbol) = {} /\ ~Brings(rebuild, "conf", f)
              => Sets(made.conf[f], other)
<1> DEFINE tree0 == Overlaid(checkout, rebuild.overlay)
           targets == rebuild.targets
           folded == TargetsFolded(tree0.lists, targets)
           tree1 == [tree0 EXCEPT !.lists = folded]
<1>1. /\ Usable(tree0) /\ tree0.version = checkout.version /\ tree0.upstream = checkout.upstream
      /\ DOMAIN tree0.conf = DOMAIN checkout.conf \cup Bringing(rebuild)
      /\ \A f \in DOMAIN checkout.conf : ~Brings(rebuild, "conf", f) => tree0.conf[f] = checkout.conf[f]
      /\ \A p, m : Has(checkout.lists, p, m) /\ ~Brings(rebuild, "lists", p) => Has(tree0.lists, p, m)
  BY OverlaidHas
<1> HIDE DEF tree0
<1>2. KernelPrepared(checkout, rebuild) = Configured(tree1, rebuild)
  BY DEF KernelPrepared, TargetsFolded, tree0
<1>3. /\ IsFunction(folded)
      /\ \A k \in DOMAIN targets :
           (\A l \in DOMAIN targets : l > k => Adds(targets[l], targets[k].path))
             => Has(folded, targets[k].path, targets[k].modules)
      /\ \A p, m : Has(tree0.lists, p, m) /\ (\A l \in DOMAIN targets : Adds(targets[l], p)) => Has(folded, p, m)
  BY <1>1, TargetsHave DEF KernelEntry, Usable
<1> HIDE DEF folded
<1>4. /\ DOMAIN tree1 = DOMAIN tree0 /\ tree1.version = checkout.version /\ tree1.upstream = checkout.upstream
      /\ tree1.conf = tree0.conf /\ tree1.lists = folded
  BY <1>1 DEF Usable
<1> HIDE DEF tree1
<1>5. Usable(tree1)
  BY <1>1, <1>3, <1>4 DEF Usable
<1> DEFINE made == Configured(tree1, rebuild)
<1>6. /\ Usable(made) /\ made.version = tree1.version /\ made.upstream = tree1.upstream /\ made.lists = tree1.lists
      /\ DOMAIN made.conf = DOMAIN tree1.conf
      /\ \A entry \in ToSet(EntryMap(rebuild.config)), f \in Fragments(DOMAIN tree1.conf, rebuild.arch) :
           entry.symbol # Blank.symbol /\ Sets(made.conf[f], entry)
      /\ \A f \in DOMAIN tree1.conf : \A other :
           /\ Sets(tree1.conf[f], other) /\ other.symbol # Blank.symbol
           /\ Occurs(rebuild.config, other.symbol) = {}
           => Sets(made.conf[f], other)
  BY <1>5, ConfiguredSets
<1>7. /\ Usable(made) /\ made.version = checkout.version /\ made.upstream = checkout.upstream /\ made.lists = folded
      /\ DOMAIN made.conf = DOMAIN checkout.conf \cup Bringing(rebuild)
      /\ \A entry \in ToSet(EntryMap(rebuild.config)), f \in Fragments(DOMAIN made.conf, rebuild.arch) :
           entry.symbol # Blank.symbol /\ Sets(made.conf[f], entry)
      /\ \A f \in DOMAIN checkout.conf : \A other :
           /\ Sets(checkout.conf[f], other) /\ other.symbol # Blank.symbol
           /\ Occurs(rebuild.config, other.symbol) = {} /\ ~Brings(rebuild, "conf", f)
           => Sets(made.conf[f], other)
  <2> HIDE DEF made
  <2> QED BY <1>1, <1>4, <1>6
<1> HIDE DEF made
<1>8. \A p, m : /\ Has(checkout.lists, p, m) /\ ~Brings(rebuild, "lists", p)
                /\ \A l \in DOMAIN targets : Adds(targets[l], p)
                => Has(folded, p, m)
  BY <1>1, <1>3
<1> QED BY <1>2, <1>3, <1>7, <1>8 DEF made

\* Of the rebuilds all, two are of one kernel and version.
Alike(all, i, j) ==
  /\ all[i].kind = "linux" /\ all[j].kind = "linux"
  /\ all[i].source = all[j].source /\ all[i].version = all[j].version

\* Neither the overlay nor the targets of a rebuild take away from the list at p.
Spares(rebuild, p) ==
  /\ ~Brings(rebuild, "lists", p)
  /\ \A l \in DOMAIN rebuild.targets : Adds(rebuild.targets[l], p)

\* Neither the overlay nor the entries of a rebuild touch a symbol in fragment f.
Leaves(rebuild, symbol, f) ==
  /\ Occurs(rebuild.config, symbol) = {} /\ ~Brings(rebuild, "conf", f)

\* The fragments there are once the first n rebuilds have brought theirs.
Names(all, i, n) ==
  DOMAIN Unpacked(all[i]).conf \cup UNION {Bringing(all[j]) : j \in {k \in DOMAIN all : k <= n /\ Alike(all, i, k)}}

\* What was made has all that rebuild i asked for and none up to n took away.
Serves(all, i, n, made) ==
  LET rebuild == all[i]
      later == {j \in DOMAIN all : i < j /\ j <= n /\ Alike(all, i, j)}
  IN /\ \A k \in DOMAIN rebuild.targets :
          (/\ \A l \in DOMAIN rebuild.targets : l > k => Adds(rebuild.targets[l], rebuild.targets[k].path)
           /\ \A j \in later : Spares(all[j], rebuild.targets[k].path))
          => Has(made.lists, rebuild.targets[k].path, rebuild.targets[k].modules)
     /\ \A entry \in ToSet(EntryMap(rebuild.config)) :
          /\ entry.symbol # Blank.symbol
          /\ \A f \in Fragments(Names(all, i, i), rebuild.arch) :
               (\A j \in later : Leaves(all[j], entry.symbol, f)) => Sets(made.conf[f], entry)

\* A rebuild adds to the fragments of its kernel those of its overlay.
LEMMA NamesGrow ==
  ASSUME NEW all, DOMAIN all \in SUBSET (Nat \ {0}), NEW n \in Nat \ {0}, n \in DOMAIN all, NEW i
  PROVE  /\ Alike(all, i, n) => Names(all, i, n) = Names(all, i, n - 1) \cup Bringing(all[n])
         /\ ~Alike(all, i, n) => Names(all, i, n) = Names(all, i, n - 1)
<1> DEFINE before == {k \in DOMAIN all : k <= n - 1 /\ Alike(all, i, k)}
           upto == {k \in DOMAIN all : k <= n /\ Alike(all, i, k)}
<1>1. \A k \in DOMAIN all : k <= n <=> k <= n - 1 \/ k = n
  OBVIOUS
<1>2. /\ Alike(all, i, n) => upto = before \cup {n}
      /\ ~Alike(all, i, n) => upto = before
  BY <1>1
<1> HIDE DEF before, upto
<1> DEFINE new == UNION {Bringing(all[j]) : j \in upto}
           old == UNION {Bringing(all[j]) : j \in before}
<1>3. Alike(all, i, n) => new = old \cup Bringing(all[n])
  <2> SUFFICES ASSUME Alike(all, i, n) PROVE new = old \cup Bringing(all[n])
    OBVIOUS
  <2>1. \A f : f \in new <=> \E j \in upto : f \in Bringing(all[j])
    OBVIOUS
  <2>2. \A f : f \in old <=> \E j \in before : f \in Bringing(all[j])
    OBVIOUS
  <2>3. \A f : (\E j \in upto : f \in Bringing(all[j])) <=> (\E j \in before : f \in Bringing(all[j])) \/ f \in Bringing(all[n])
    BY <1>2
  <2> HIDE DEF new, old
  <2> QED BY <2>1, <2>2, <2>3
<1>3a. ~Alike(all, i, n) => new = old
  BY <1>2
<1> HIDE DEF new, old
<1>4. /\ Names(all, i, n) = DOMAIN Unpacked(all[i]).conf \cup new
      /\ Names(all, i, n - 1) = DOMAIN Unpacked(all[i]).conf \cup old
  BY DEF Names, before, upto, new, old
<1> QED BY <1>3, <1>3a, <1>4

\* Rebuilds of one kernel find the same fragments.
LEMMA NamesAlike ==
  ASSUME NEW all, NEW i, NEW l, Alike(all, i, l), NEW n
  PROVE  Names(all, i, n) = Names(all, l, n)
<1>1. \A k : Alike(all, i, k) <=> Alike(all, l, k)
  BY DEF Alike
<1>2. Unpacked(all[i]) = Unpacked(all[l])
  BY DEF Unpacked, Alike
<1> QED BY <1>1, <1>2 DEF Names

\* Those found once stay.
LEMMA NamesStay ==
  ASSUME NEW all, DOMAIN all \in SUBSET (Nat \ {0}), NEW m \in Nat, NEW n \in Nat, m <= n, NEW i
  PROVE  Names(all, i, m) \subseteq Names(all, i, n)
<1>1. \A k \in DOMAIN all : k <= m => k <= n
  OBVIOUS
<1> QED BY <1>1 DEF Names

\* What is made from a checkout serves the rebuild it is made for.
LEMMA ServesItself ==
  ASSUME NEW all, DOMAIN all \in SUBSET (Nat \ {0}), NEW n \in Nat \ {0}, n \in DOMAIN all, KernelEntry(all[n]),
         NEW checkout, Usable(checkout), DOMAIN checkout.conf = Names(all, n, n - 1)
  PROVE  /\ Serves(all, n, n, KernelPrepared(checkout, all[n]))
         /\ DOMAIN KernelPrepared(checkout, all[n]).conf = Names(all, n, n)
<1> DEFINE rebuild == all[n]
           made == KernelPrepared(checkout, rebuild)
           targets == rebuild.targets
<1>1. /\ \A k \in DOMAIN targets :
           (\A l \in DOMAIN targets : l > k => Adds(targets[l], targets[k].path))
             => Has(made.lists, targets[k].path, targets[k].modules)
      /\ \A entry \in ToSet(EntryMap(rebuild.config)), f \in Fragments(DOMAIN made.conf, rebuild.arch) :
           entry.symbol # Blank.symbol /\ Sets(made.conf[f], entry)
      /\ DOMAIN made.conf = DOMAIN checkout.conf \cup Bringing(rebuild)
  BY KernelPreparedHas
<1>2. DOMAIN made.conf = Names(all, n, n)
  <2>1. Alike(all, n, n)
    BY DEF Alike, KernelEntry
  <2> HIDE DEF made
  <2> QED BY <1>1, <2>1, NamesGrow
<1>3. \A entry \in ToSet(EntryMap(rebuild.config)) : entry.symbol # Blank.symbol
  <2>1. EntryMap(rebuild.config) \in Seq(ToSet(rebuild.config))
    BY EntriesDistinct DEF KernelEntry
  <2>2. ToSet(EntryMap(rebuild.config)) \in SUBSET ToSet(rebuild.config)
    <3> DEFINE map == EntryMap(rebuild.config)
               S == ToSet(rebuild.config)
    <3> HIDE DEF map, S
    <3>1. map \in Seq(S)
      BY <2>1 DEF map, S
    <3>2. ToSet(map) \in SUBSET S
      BY <3>1, SequenceOf
    <3> QED BY <3>2 DEF map, S
  <2> QED BY <2>2 DEF KernelEntry
<1> HIDE DEF made
<1> QED BY <1>1, <1>2, <1>3 DEF Serves, made

\* One that was served stays served in what a later rebuild of its kernel makes.
LEMMA ServesMore ==
  ASSUME NEW all, DOMAIN all \in SUBSET (Nat \ {0}), NEW n \in Nat, n \in DOMAIN all, NEW i \in 1 .. n - 1, Alike(all, i, n),
         KernelEntry(all[n]), NEW checkout, Usable(checkout),
         DOMAIN checkout.conf = Names(all, n, n - 1),
         Serves(all, i, n - 1, checkout)
  PROVE  Serves(all, i, n, KernelPrepared(checkout, all[n]))
<1> DEFINE rebuild == all[i]
           made == KernelPrepared(checkout, all[n])
           later == {j \in DOMAIN all : i < j /\ j <= n /\ Alike(all, i, j)}
           before == {j \in DOMAIN all : i < j /\ j <= n - 1 /\ Alike(all, i, j)}
<1>1. n \in later /\ before \subseteq later
  <2>1. i < n /\ n <= n
    OBVIOUS
  <2>2. ASSUME NEW j \in before PROVE j <= n
    OBVIOUS
  <2> QED BY <2>1, <2>2
<1>2. /\ \A p, m : Has(checkout.lists, p, m) /\ Spares(all[n], p) => Has(made.lists, p, m)
      /\ \A f \in DOMAIN checkout.conf : \A other :
           /\ Sets(checkout.conf[f], other) /\ other.symbol # Blank.symbol
           /\ Leaves(all[n], other.symbol, f)
           => Sets(made.conf[f], other)
  BY KernelPreparedHas DEF Spares, Leaves
<1> HIDE DEF made
<1>3. ASSUME NEW k \in DOMAIN rebuild.targets,
             \A l \in DOMAIN rebuild.targets : l > k => Adds(rebuild.targets[l], rebuild.targets[k].path),
             \A j \in later : Spares(all[j], rebuild.targets[k].path)
      PROVE  Has(made.lists, rebuild.targets[k].path, rebuild.targets[k].modules)
  <2>1. Has(checkout.lists, rebuild.targets[k].path, rebuild.targets[k].modules)
    BY <1>1, <1>3 DEF Serves
  <2> QED BY <1>1, <1>2, <1>3, <2>1
<1>4. ASSUME NEW entry \in ToSet(EntryMap(rebuild.config)) PROVE entry.symbol # Blank.symbol
  BY DEF Serves
<1>5. ASSUME NEW entry \in ToSet(EntryMap(rebuild.config)), NEW f \in Fragments(Names(all, i, i), rebuild.arch),
             \A j \in later : Leaves(all[j], entry.symbol, f)
      PROVE  Sets(made.conf[f], entry)
  <2>1. Sets(checkout.conf[f], entry)
    BY <1>1, <1>5 DEF Serves
  <2>2. f \in DOMAIN checkout.conf
    <3>1. Names(all, i, i) \subseteq Names(all, i, n - 1) /\ Names(all, i, n - 1) = Names(all, n, n - 1)
      BY NamesStay, NamesAlike
    <3> QED BY <1>5, <3>1 DEF Fragments
  <2> QED BY <1>1, <1>2, <1>4, <1>5, <2>1, <2>2
<1> QED BY <1>3, <1>4, <1>5 DEF Serves, made

\* A rebuild of anything else takes nothing from a kernel's.
LEMMA ServesOn ==
  ASSUME NEW all, DOMAIN all \in SUBSET (Nat \ {0}), NEW n \in Nat, NEW i, ~Alike(all, i, n), NEW made, Serves(all, i, n - 1, made)
  PROVE  Serves(all, i, n, made)
<1>1. {j \in DOMAIN all : i < j /\ j <= n /\ Alike(all, i, j)}
       = {j \in DOMAIN all : i < j /\ j <= n - 1 /\ Alike(all, i, j)}
  <2>1. ASSUME NEW j \in DOMAIN all, Alike(all, i, j) PROVE j <= n <=> j <= n - 1
    BY <2>1
  <2> QED BY <2>1
<1> QED BY <1>1 DEF Serves

\* What is served depends on the lists and fragments alone.
LEMMA ServesSame ==
  ASSUME NEW all, NEW n, NEW i, NEW made, NEW other, made.lists = other.lists, made.conf = other.conf,
         Serves(all, i, n, made)
  PROVE  Serves(all, i, n, other)
BY DEF Serves

\* What is to be done of the rebuilds all: those after the first n.
Remains(all, n, rest) ==
  /\ all \in Seq(ToSet(all)) /\ rest \in Seq(ToSet(all))
  /\ n = Len(all) - Len(rest) /\ n \in Nat
  /\ \A j \in 1 .. Len(rest) : rest[j] = all[n + j]

Sound(all) ==
  /\ \A i \in DOMAIN all : Buildable(all[i])
  /\ \A i, j \in DOMAIN all : Apart(all[i], all[j])

Undisturbed(all) ==
  ~\E j, k \in DOMAIN all :
      /\ j < k /\ all[j].kind = "linux" /\ all[k].kind = "linux"
      /\ all[j].source = all[k].source /\ all[j].version # all[k].version
      /\ \/ Unpacked(all[j]).upstream = Unpacked(all[k]).upstream
         \/ \E l \in DOMAIN all : l > k /\ Alike(all, j, l)

Kin(all, i, j) == all[i].kind = "linux" /\ all[j].kind = "linux" /\ all[i].source = all[j].source

File(rebuild) == <<rebuild.source, rebuild.version>>

\* The checkout a kernel's room has, and what is staged of it.
KernelStaged(all, n, i) ==
  /\ Room(all[i]) \in DOMAIN rooms /\ \E c \in rooms[Room(all[i])].all : c.upstream = Unpacked(all[i]).upstream
  /\ File(all[i]) \in DOMAIN staged
  /\ Serves(all, i, n, staged[File(all[i])])

KernelRoom(all, n, i) ==
  Room(all[i]) \in DOMAIN rooms =>
    LET room == rooms[Room(all[i])]
        file == <<all[i].source, room.last.version>>
    IN /\ \A c \in room.all : \E j \in 1 .. n : Kin(all, i, j) /\ c.upstream = Unpacked(all[j]).upstream
       /\ \E l \in 1 .. n : /\ Kin(all, i, l) /\ room.last.version = all[l].version
                            /\ room.last.upstream = Unpacked(all[l]).upstream
                            /\ DOMAIN room.last.conf = Names(all, l, n)
                            /\ \A j \in 1 .. n : Kin(all, i, j) => j <= l
       /\ Usable(room.last)
       /\ room.last.lists = staged[file].lists /\ room.last.conf = staged[file].conf

KernelsKept(all, n) ==
  /\ \A i \in 1 .. n : all[i].kind = "linux" => KernelStaged(all, n, i)
  /\ \A i \in DOMAIN all : all[i].kind = "linux" => KernelRoom(all, n, i)

\* A kernel rebuild finds a checkout of its version that serves the rebuilds
\* of it so far, or none was made.
LEMMA CheckoutServes ==
  ASSUME NEW all, NEW n \in Nat \ {0}, n \in DOMAIN all, DOMAIN all \in SUBSET (Nat \ {0}), 1 .. n \in SUBSET DOMAIN all,
         Sound(all), Undisturbed(all), all[n].kind = "linux", KernelsKept(all, n - 1)
  PROVE  LET checkout == Checkout(rooms, all[n]) IN
         /\ Usable(checkout) /\ checkout.version = all[n].version
         /\ checkout.upstream = Unpacked(all[n]).upstream
         /\ DOMAIN checkout.conf = Names(all, n, n - 1)
         /\ \A i \in 1 .. n - 1 : Alike(all, i, n) => Serves(all, i, n - 1, checkout)
<1> DEFINE entry == all[n]
           room == rooms[Room(entry)]
           checkout == Checkout(rooms, entry)
<1>1. /\ <<entry.source, entry.version>> \in DOMAIN Upstream
      /\ Usable(Unpacked(entry)) /\ Unpacked(entry).version = entry.version
  BY UpstreamAssumption DEF Sound, Buildable, Usable, Unpacked
<1>2. \A i \in 1 .. n - 1 : i \in 1 .. n /\ i \in DOMAIN all /\ i < n
  OBVIOUS
<1>3. \A i \in 1 .. n - 1 : Alike(all, i, n) => Room(all[i]) = Room(entry) /\ File(all[i]) = File(entry) /\ all[i].kind = "linux"
  BY DEF Alike, Room, File
<1>4. CASE Room(entry) \in DOMAIN rooms /\ \E there \in room.all : there.upstream = Unpacked(entry).upstream
  <2>1. checkout = room.last
    BY <1>4 DEF Checkout, Checkouts
  <2>2. KernelRoom(all, n - 1, n)
    BY DEF KernelsKept
  <2>3. PICK j \in 1 .. n - 1 : Kin(all, n, j) /\ Unpacked(entry).upstream = Unpacked(all[j]).upstream
    BY <1>4, <2>2 DEF KernelRoom
  <2>3a. entry.version = all[j].version
    <3>1. j < n /\ j \in DOMAIN all /\ all[j].kind = "linux" /\ all[j].source = entry.source
      BY <1>2, <2>3 DEF Kin
    <3> QED BY <2>3, <3>1 DEF Undisturbed
  <2>4. PICK l \in 1 .. n - 1 : /\ Kin(all, n, l) /\ room.last.version = all[l].version
                                /\ room.last.upstream = Unpacked(all[l]).upstream
                                /\ DOMAIN room.last.conf = Names(all, l, n - 1)
                                /\ \A m \in 1 .. n - 1 : Kin(all, n, m) => m <= l
    BY <1>4, <2>2 DEF KernelRoom
  <2>5. all[l].version = entry.version
    <3>1. SUFFICES ASSUME all[l].version # entry.version PROVE FALSE
      OBVIOUS
    <3>2. j <= l /\ j # l
      BY <2>3, <2>3a, <2>4, <3>1
    <3>3. j < l /\ l < n /\ j \in DOMAIN all /\ l \in DOMAIN all
      BY <3>2, <1>2
    <3>4. Alike(all, j, n)
      BY <2>3, <2>3a DEF Kin, Alike
    <3>5. all[j].kind = "linux" /\ all[l].kind = "linux" /\ all[j].source = all[l].source /\ all[j].version # all[l].version
      BY <2>3, <2>3a, <2>4, <3>1 DEF Kin
    <3>6. n > l
      BY <3>3
    <3> QED BY <3>3, <3>4, <3>5, <3>6 DEF Undisturbed
  <2>6. <<entry.source, room.last.version>> = File(entry)
    BY <2>4, <2>5 DEF File
  <2>7. /\ Usable(room.last)
        /\ room.last.lists = staged[File(entry)].lists /\ room.last.conf = staged[File(entry)].conf
    BY <1>4, <2>2, <2>6 DEF KernelRoom
  <2>7a. DOMAIN room.last.conf = Names(all, n, n - 1)
    <3>1. Alike(all, l, n)
      BY <2>4, <2>5 DEF Kin, Alike
    <3> QED BY <2>4, <3>1, NamesAlike
  <2>7b. room.last.upstream = Unpacked(entry).upstream
    <3>1. Unpacked(all[l]) = Unpacked(entry)
      BY <2>4, <2>5 DEF Unpacked, Kin
    <3> QED BY <2>4, <3>1
  <2>8. ASSUME NEW i \in 1 .. n - 1, Alike(all, i, n) PROVE Serves(all, i, n - 1, room.last)
    <3>1. Serves(all, i, n - 1, staged[File(entry)])
      BY <1>3, <2>8 DEF KernelsKept, KernelStaged
    <3> QED BY <2>7, <3>1, ServesSame
  <2> QED BY <2>1, <2>4, <2>5, <2>7, <2>7a, <2>7b, <2>8
<1>5. CASE ~(Room(entry) \in DOMAIN rooms /\ \E there \in room.all : there.upstream = Unpacked(entry).upstream)
  <2>1. checkout = Unpacked(entry)
    BY <1>5 DEF Checkout, Checkouts
  <2>2. ASSUME NEW i \in 1 .. n - 1, Alike(all, i, n) PROVE FALSE
    <3>1. KernelStaged(all, n - 1, i)
      BY <1>3, <2>2 DEF KernelsKept
    <3>2. Unpacked(all[i]) = Unpacked(entry)
      BY <2>2 DEF Alike, Unpacked
    <3> QED BY <1>3, <1>5, <2>2, <3>1, <3>2 DEF KernelStaged
  <2>3. Names(all, n, n - 1) = DOMAIN Unpacked(entry).conf
    <3>1. ASSUME NEW k \in DOMAIN all, k <= n - 1, Alike(all, n, k) PROVE FALSE
      <4>1. k \in 1 .. n - 1 /\ Alike(all, k, n)
        BY <3>1 DEF Alike
      <4> QED BY <2>2, <4>1
    <3> QED BY <3>1 DEF Names
  <2> QED BY <1>1, <2>1, <2>2, <2>3
<1> QED BY <1>4, <1>5

\* A kernel's rebuild leaves its room and the staged file of its version for
\* what it made, and the others as they are.
LEMMA KernelUses ==
  ASSUME NEW entry, entry.kind = "linux", Prepared(rooms, entry).version = entry.version,
         rooms' = Used(rooms, entry), staged' = Staged(staged, Prepared(rooms, entry), entry)
  PROVE  LET made == Prepared(rooms, entry) IN
         /\ DOMAIN rooms' = DOMAIN rooms \cup {Room(entry)}
         /\ rooms'[Room(entry)].last = made
         /\ made \in rooms'[Room(entry)].all
         /\ \A c \in rooms'[Room(entry)].all :
              c = made \/ (Room(entry) \in DOMAIN rooms /\ c \in rooms[Room(entry)].all)
         /\ Room(entry) \in DOMAIN rooms =>
              \A c \in rooms[Room(entry)].all : c.upstream = made.upstream \/ c \in rooms'[Room(entry)].all
         /\ \A r \in DOMAIN rooms : r # Room(entry) => rooms'[r] = rooms[r]
         /\ DOMAIN staged' = DOMAIN staged \cup {File(entry)}
         /\ staged'[File(entry)].lists = made.lists /\ staged'[File(entry)].conf = made.conf
         /\ \A file \in DOMAIN staged : file # File(entry) => staged'[file] = staged[file]
<1> DEFINE made == Prepared(rooms, entry)
<1>1. /\ DOMAIN Built(made, entry) = {File(entry)}
      /\ Built(made, entry)[File(entry)].lists = made.lists /\ Built(made, entry)[File(entry)].conf = made.conf
  BY DEF Built, File
<1>2. staged' = [file \in DOMAIN staged \cup {File(entry)} |->
                   IF file \in {File(entry)} THEN Built(made, entry)[file] ELSE staged[file]]
  <2>1. {file \in DOMAIN Built(made, entry) : entry.kind = "linux" \/ file[1] = entry.udeb} = {File(entry)}
    BY <1>1
  <2> HIDE DEF made
  <2> QED BY <2>1 DEF Staged, made
<1> HIDE DEF made
<1>3. rooms' = [r \in DOMAIN rooms \cup {Room(entry)} |->
                  IF r = Room(entry)
                  THEN [all |-> {c \in Checkouts(rooms, entry) : c.upstream # made.upstream} \cup {made}, last |-> made]
                  ELSE rooms[r]]
  BY DEF Used, made
<1>4. /\ DOMAIN staged' = DOMAIN staged \cup {File(entry)}
      /\ staged'[File(entry)].lists = made.lists /\ staged'[File(entry)].conf = made.conf
      /\ \A file \in DOMAIN staged : file # File(entry) => staged'[file] = staged[file]
  BY <1>1, <1>2
<1> DEFINE others == {c \in Checkouts(rooms, entry) : c.upstream # made.upstream}
           room == [all |-> others \cup {made}, last |-> made]
<1>5. /\ DOMAIN rooms' = DOMAIN rooms \cup {Room(entry)}
      /\ rooms'[Room(entry)] = room
      /\ \A r \in DOMAIN rooms : r # Room(entry) => rooms'[r] = rooms[r]
  BY <1>3
<1>6. room.all = others \cup {made} /\ room.last = made
  OBVIOUS
<1>7. \A c \in others : Room(entry) \in DOMAIN rooms /\ c \in rooms[Room(entry)].all
  BY DEF Checkouts
<1>8. Room(entry) \in DOMAIN rooms => \A c \in rooms[Room(entry)].all : c.upstream = made.upstream \/ c \in others
  BY DEF Checkouts, made
<1> HIDE DEF others, room
<1> QED BY <1>4, <1>5, <1>6, <1>7, <1>8 DEF made
\* After the next rebuild, whatever it is, the kernels are kept.
LEMMA KernelStep ==
  ASSUME NEW all, NEW n \in Nat \ {0}, n \in DOMAIN all, DOMAIN all \in SUBSET (Nat \ {0}), 1 .. n \in SUBSET DOMAIN all,
         Sound(all), Undisturbed(all), all[n].kind = "linux", KernelsKept(all, n - 1),
         rooms' = Used(rooms, all[n]), staged' = Staged(staged, Prepared(rooms, all[n]), all[n])
  PROVE  KernelsKept(all, n)'
<1> DEFINE entry == all[n]
           checkout == Checkout(rooms, entry)
           made == KernelPrepared(checkout, entry)
<1>0. KernelEntry(entry)
  BY DEF Sound, Buildable, KernelEntry
<1>1. /\ Usable(checkout) /\ checkout.version = entry.version /\ checkout.upstream = Unpacked(entry).upstream
      /\ DOMAIN checkout.conf = Names(all, n, n - 1)
      /\ \A i \in 1 .. n - 1 : Alike(all, i, n) => Serves(all, i, n - 1, checkout)
  BY CheckoutServes
<1>2. Prepared(rooms, entry) = made
  BY DEF Prepared
<1>3. /\ Usable(made) /\ made.version = entry.version /\ made.upstream = Unpacked(entry).upstream
  <2> HIDE DEF checkout
  <2> QED BY <1>0, <1>1, KernelPreparedHas
<1>4. Serves(all, n, n, made) /\ DOMAIN made.conf = Names(all, n, n)
  <2> HIDE DEF checkout
  <2> QED BY <1>0, <1>1, ServesItself
<1>5. \A i \in 1 .. n - 1 : Alike(all, i, n) => Serves(all, i, n, made)
  <2> HIDE DEF checkout
  <2> QED BY <1>0, <1>1, ServesMore
<1> HIDE DEF made
<1>6. /\ DOMAIN rooms' = DOMAIN rooms \cup {Room(entry)}
      /\ rooms'[Room(entry)].last = made
      /\ made \in rooms'[Room(entry)].all
      /\ \A c \in rooms'[Room(entry)].all :
           c = made \/ (Room(entry) \in DOMAIN rooms /\ c \in rooms[Room(entry)].all)
      /\ Room(entry) \in DOMAIN rooms =>
           \A c \in rooms[Room(entry)].all : c.upstream = made.upstream \/ c \in rooms'[Room(entry)].all
      /\ \A r \in DOMAIN rooms : r # Room(entry) => rooms'[r] = rooms[r]
      /\ DOMAIN staged' = DOMAIN staged \cup {File(entry)}
      /\ staged'[File(entry)].lists = made.lists /\ staged'[File(entry)].conf = made.conf
      /\ \A file \in DOMAIN staged : file # File(entry) => staged'[file] = staged[file]
  BY <1>2, <1>3, KernelUses
<1>7. \A i \in 1 .. n : i = n \/ i \in 1 .. n - 1
  OBVIOUS
<1>8. \A i \in DOMAIN all : all[i].kind = "linux" =>
        /\ all[i].source = entry.source => Room(all[i]) = Room(entry)
        /\ all[i].source # entry.source => Room(all[i]) # Room(entry)
  BY DEF Room
<1>9. ASSUME NEW i \in 1 .. n, all[i].kind = "linux" PROVE KernelStaged(all, n, i)'
  <2>1. CASE Alike(all, i, n)
    <3>1. File(all[i]) = File(entry) /\ Room(all[i]) = Room(entry) /\ Unpacked(all[i]) = Unpacked(entry)
      BY <1>8, <2>1 DEF Alike, File, Unpacked
    <3>2. Serves(all, i, n, made)
      BY <1>4, <1>5, <1>7, <2>1
    <3>3. Serves(all, i, n, staged'[File(entry)])
      BY <1>6, <3>2, ServesSame
    <3> QED BY <1>3, <1>6, <3>1, <3>3 DEF KernelStaged
  <2>2. CASE ~Alike(all, i, n)
    <3>1. i \in 1 .. n - 1
      BY <1>7, <1>9, <2>2 DEF Alike
    <3>2. KernelStaged(all, n - 1, i)
      BY <1>9, <3>1 DEF KernelsKept
    <3>3. File(all[i]) # File(entry)
      BY <1>9, <2>2 DEF Alike, File
    <3>4. staged'[File(all[i])] = staged[File(all[i])] /\ File(all[i]) \in DOMAIN staged'
      BY <1>6, <3>2, <3>3 DEF KernelStaged
    <3>5. Serves(all, i, n, staged[File(all[i])])
      BY <2>2, <3>2, ServesOn DEF KernelStaged
    <3>6. Room(all[i]) \in DOMAIN rooms' /\ \E c \in rooms'[Room(all[i])].all : c.upstream = Unpacked(all[i]).upstream
      <4>1. CASE all[i].source = entry.source
        <5>1. all[i].version # entry.version /\ Room(all[i]) = Room(entry)
          BY <1>8, <1>9, <2>2, <4>1 DEF Alike
        <5>2. i < n /\ i \in DOMAIN all
          BY <3>1
        <5>3. Unpacked(all[i]).upstream # made.upstream
          BY <1>3, <1>9, <4>1, <5>1, <5>2 DEF Undisturbed
        <5> QED BY <1>6, <3>2, <5>1, <5>3 DEF KernelStaged
      <4>2. CASE all[i].source # entry.source
        <5>1. Room(all[i]) # Room(entry)
          BY <1>8, <1>9, <4>2
        <5> QED BY <1>6, <3>2, <5>1 DEF KernelStaged
      <4> QED BY <4>1, <4>2
    <3> QED BY <3>4, <3>5, <3>6 DEF KernelStaged
  <2> QED BY <2>1, <2>2
<1>10. ASSUME NEW i \in DOMAIN all, all[i].kind = "linux" PROVE KernelRoom(all, n, i)'
  <2>1. CASE all[i].source = entry.source
    <3>1. Room(all[i]) = Room(entry) /\ Kin(all, i, n) /\ n \in 1 .. n
      BY <1>8, <1>10, <2>1 DEF Kin
    <3>2. <<all[i].source, made.version>> = File(entry)
      BY <1>3, <2>1 DEF File
    <3>3. ASSUME NEW c \in rooms'[Room(entry)].all
          PROVE  \E j \in 1 .. n : Kin(all, i, j) /\ c.upstream = Unpacked(all[j]).upstream
      <4>1. CASE c = made
        BY <1>3, <3>1, <4>1
      <4>2. CASE Room(entry) \in DOMAIN rooms /\ c \in rooms[Room(entry)].all
        <5>1. KernelRoom(all, n - 1, i)
          BY <1>10 DEF KernelsKept
        <5>2. PICK j \in 1 .. n - 1 : Kin(all, i, j) /\ c.upstream = Unpacked(all[j]).upstream
          BY <3>1, <4>2, <5>1 DEF KernelRoom
        <5> QED BY <5>2
      <4> QED BY <1>6, <4>1, <4>2
    <3>4. made.version = all[n].version /\ \A j \in 1 .. n : Kin(all, i, j) => j <= n
      BY <1>3
    <3> QED BY <1>3, <1>4, <1>6, <3>1, <3>2, <3>3, <3>4 DEF KernelRoom
  <2>2. CASE all[i].source # entry.source
    <3>1. Room(all[i]) # Room(entry) /\ ~Kin(all, i, n) /\ KernelRoom(all, n - 1, i)
      BY <1>8, <1>10, <2>2 DEF Kin, KernelsKept
    <3>2. SUFFICES ASSUME Room(all[i]) \in DOMAIN rooms'
                   PROVE  LET room == rooms'[Room(all[i])]
                              file == <<all[i].source, room.last.version>>
                          IN /\ \A c \in room.all : \E j \in 1 .. n : Kin(all, i, j) /\ c.upstream = Unpacked(all[j]).upstream
                             /\ \E l \in 1 .. n : /\ Kin(all, i, l) /\ room.last.version = all[l].version
                                                  /\ room.last.upstream = Unpacked(all[l]).upstream
                                                  /\ DOMAIN room.last.conf = Names(all, l, n)
                                                  /\ \A j \in 1 .. n : Kin(all, i, j) => j <= l
                             /\ Usable(room.last)
                             /\ room.last.lists = staged'[file].lists /\ room.last.conf = staged'[file].conf
      BY DEF KernelRoom
    <3>3. Room(all[i]) \in DOMAIN rooms /\ rooms'[Room(all[i])] = rooms[Room(all[i])]
      BY <1>6, <3>1, <3>2
    <3> DEFINE room == rooms[Room(all[i])]
               file == <<all[i].source, room.last.version>>
    <3>4. /\ \A c \in room.all : \E j \in 1 .. n - 1 : Kin(all, i, j) /\ c.upstream = Unpacked(all[j]).upstream
          /\ \E l \in 1 .. n - 1 : /\ Kin(all, i, l) /\ room.last.version = all[l].version
                                   /\ room.last.upstream = Unpacked(all[l]).upstream
                                   /\ DOMAIN room.last.conf = Names(all, l, n - 1)
                                   /\ \A j \in 1 .. n - 1 : Kin(all, i, j) => j <= l
          /\ Usable(room.last)
          /\ room.last.lists = staged[file].lists /\ room.last.conf = staged[file].conf
      BY <3>1, <3>3 DEF KernelRoom
    <3>5. PICK l \in 1 .. n - 1 : /\ Kin(all, i, l) /\ room.last.version = all[l].version
                                  /\ room.last.upstream = Unpacked(all[l]).upstream
                                  /\ DOMAIN room.last.conf = Names(all, l, n - 1)
                                 /\ \A j \in 1 .. n - 1 : Kin(all, i, j) => j <= l
      BY <3>4
    <3>6. \A j \in 1 .. n : Kin(all, i, j) => j \in 1 .. n - 1
      BY <1>7, <3>1
    <3>7. file = File(all[l]) /\ file # File(entry) /\ l \in 1 .. n
      BY <2>2, <3>5 DEF File, Kin
    <3>8. file \in DOMAIN staged
      BY <3>5, <3>7 DEF KernelsKept, KernelStaged, Kin
    <3>9. staged'[file] = staged[file]
      BY <1>6, <3>7, <3>8
    <3>10. \A c \in room.all : \E j \in 1 .. n : Kin(all, i, j) /\ c.upstream = Unpacked(all[j]).upstream
      <4>1. \A j \in 1 .. n - 1 : j \in 1 .. n
        OBVIOUS
      <4> HIDE DEF room
      <4> QED BY <3>4, <4>1
    <3>10a. Names(all, l, n) = Names(all, l, n - 1)
      <4>1. ~Alike(all, l, n)
        BY <3>1, <3>5 DEF Alike, Kin
      <4> QED BY <4>1, NamesGrow
    <3>11. \E m \in 1 .. n : /\ Kin(all, i, m) /\ room.last.version = all[m].version
                             /\ room.last.upstream = Unpacked(all[m]).upstream
                             /\ DOMAIN room.last.conf = Names(all, m, n)
                             /\ \A j \in 1 .. n : Kin(all, i, j) => j <= m
      BY <3>5, <3>6, <3>7, <3>10a
    <3> HIDE DEF room
    <3> QED BY <3>3, <3>4, <3>9, <3>10, <3>11 DEF room
  <2> QED BY <2>1, <2>2
<1> QED BY <1>9, <1>10 DEF KernelsKept

\* A source's rebuild touches neither a kernel's room nor its staged file.
LEMMA SourceStep ==
  ASSUME NEW all, NEW n \in Nat \ {0}, n \in DOMAIN all, DOMAIN all \in SUBSET (Nat \ {0}), 1 .. n \in SUBSET DOMAIN all,
         Sound(all), all[n].kind # "linux", KernelsKept(all, n - 1),
         rooms' = Used(rooms, all[n]), staged' = Staged(staged, Prepared(rooms, all[n]), all[n])
  PROVE  KernelsKept(all, n)'
<1> DEFINE entry == all[n]
           made == Prepared(rooms, entry)
<1>1. /\ DOMAIN rooms' = DOMAIN rooms \cup {Room(entry)}
      /\ \A r \in DOMAIN rooms : r # Room(entry) => rooms'[r] = rooms[r]
  BY DEF Used
<1>2. /\ DOMAIN staged \in SUBSET DOMAIN staged'
      /\ \A file \in DOMAIN staged : file[1] # entry.udeb => staged'[file] = staged[file]
  <2> HIDE DEF made
  <2> QED BY DEF Staged, made
<1> HIDE DEF made
<1>3. \A i \in DOMAIN all : all[i].kind = "linux" => entry.udeb # all[i].source /\ Room(entry) # Room(all[i])
  BY DEF Sound, Apart
<1>4. \A i \in 1 .. n : all[i].kind = "linux" => i \in 1 .. n - 1
  OBVIOUS
<1>5. \A i : ~Alike(all, i, n) /\ ~Kin(all, i, n)
  BY DEF Alike, Kin
<1>6. ASSUME NEW i \in 1 .. n, all[i].kind = "linux" PROVE KernelStaged(all, n, i)'
  <2>1. KernelStaged(all, n - 1, i) /\ i \in DOMAIN all
    BY <1>4, <1>6 DEF KernelsKept
  <2>2. File(all[i])[1] = all[i].source
    BY DEF File
  <2>3. File(all[i]) \in DOMAIN staged' /\ staged'[File(all[i])] = staged[File(all[i])]
    BY <1>2, <1>3, <1>6, <2>1, <2>2 DEF KernelStaged
  <2>4. Room(all[i]) \in DOMAIN rooms' /\ rooms'[Room(all[i])] = rooms[Room(all[i])]
    BY <1>1, <1>3, <1>6, <2>1 DEF KernelStaged
  <2>5. Serves(all, i, n, staged[File(all[i])])
    BY <1>5, <2>1, ServesOn DEF KernelStaged
  <2> QED BY <2>1, <2>3, <2>4, <2>5 DEF KernelStaged
<1>7. ASSUME NEW i \in DOMAIN all, all[i].kind = "linux" PROVE KernelRoom(all, n, i)'
  <2>1. KernelRoom(all, n - 1, i)
    BY <1>7 DEF KernelsKept
  <2>2. SUFFICES ASSUME Room(all[i]) \in DOMAIN rooms'
                 PROVE  LET room == rooms'[Room(all[i])]
                            file == <<all[i].source, room.last.version>>
                        IN /\ \A c \in room.all : \E j \in 1 .. n : Kin(all, i, j) /\ c.upstream = Unpacked(all[j]).upstream
                           /\ \E l \in 1 .. n : /\ Kin(all, i, l) /\ room.last.version = all[l].version
                                                /\ room.last.upstream = Unpacked(all[l]).upstream
                                                /\ DOMAIN room.last.conf = Names(all, l, n)
                                                /\ \A j \in 1 .. n : Kin(all, i, j) => j <= l
                           /\ Usable(room.last)
                           /\ room.last.lists = staged'[file].lists /\ room.last.conf = staged'[file].conf
    BY DEF KernelRoom
  <2>3. Room(all[i]) \in DOMAIN rooms /\ rooms'[Room(all[i])] = rooms[Room(all[i])]
    BY <1>1, <1>3, <1>7, <2>2
  <2> DEFINE room == rooms[Room(all[i])]
             file == <<all[i].source, room.last.version>>
  <2>4. /\ \A c \in room.all : \E j \in 1 .. n - 1 : Kin(all, i, j) /\ c.upstream = Unpacked(all[j]).upstream
        /\ \E l \in 1 .. n - 1 : /\ Kin(all, i, l) /\ room.last.version = all[l].version
                                 /\ room.last.upstream = Unpacked(all[l]).upstream
                                 /\ DOMAIN room.last.conf = Names(all, l, n - 1)
                                 /\ \A j \in 1 .. n - 1 : Kin(all, i, j) => j <= l
        /\ Usable(room.last)
        /\ room.last.lists = staged[file].lists /\ room.last.conf = staged[file].conf
    BY <2>1, <2>3 DEF KernelRoom
  <2>5. PICK l \in 1 .. n - 1 : /\ Kin(all, i, l) /\ room.last.version = all[l].version
                                /\ room.last.upstream = Unpacked(all[l]).upstream
                                /\ DOMAIN room.last.conf = Names(all, l, n - 1)
                               /\ \A j \in 1 .. n - 1 : Kin(all, i, j) => j <= l
    BY <2>4
  <2>6. \A j \in 1 .. n : Kin(all, i, j) => j \in 1 .. n - 1
    BY <1>4 DEF Kin
  <2>7. file = File(all[l]) /\ l \in 1 .. n /\ all[l].kind = "linux" /\ file[1] = all[i].source
    BY <2>5 DEF File, Kin
  <2>8. file \in DOMAIN staged
    BY <2>5, <2>7 DEF KernelsKept, KernelStaged
  <2>9. staged'[file] = staged[file]
    BY <1>2, <1>3, <1>7, <2>7, <2>8
  <2>10. \A c \in room.all : \E j \in 1 .. n : Kin(all, i, j) /\ c.upstream = Unpacked(all[j]).upstream
    <3>1. \A j \in 1 .. n - 1 : j \in 1 .. n
      OBVIOUS
    <3> HIDE DEF room
    <3> QED BY <2>4, <3>1
  <2>10a. Names(all, l, n) = Names(all, l, n - 1)
    BY <1>5, NamesGrow
  <2>11. \E m \in 1 .. n : /\ Kin(all, i, m) /\ room.last.version = all[m].version
                           /\ room.last.upstream = Unpacked(all[m]).upstream
                           /\ DOMAIN room.last.conf = Names(all, m, n)
                           /\ \A j \in 1 .. n : Kin(all, i, j) => j <= m
    BY <2>5, <2>6, <2>7, <2>10a
  <2> HIDE DEF room
  <2> QED BY <2>3, <2>4, <2>9, <2>10, <2>11 DEF room
<1> QED BY <1>6, <1>7 DEF KernelsKept

\* How far the rebuilds are, and what their kernels have so far.
HonourInv ==
  /\ run \in Nat
  /\ run > 0 =>
       /\ Sound(Rebuilds) /\ Remains(Rebuilds, Len(Rebuilds) - Len(todo), todo)
       /\ Undisturbed(Rebuilds) => KernelsKept(Rebuilds, Len(Rebuilds) - Len(todo))

\* A new run has made none.
LEMMA HonourStarts ==
  ASSUME HonourInv, Start
  PROVE  HonourInv'
<1>0. run \in Nat /\ run + 1 \in Nat
  BY DEF HonourInv
<1>1. PICK given \in Plans[run + 1] : /\ Accepted(given) /\ Resolvable(given)
                                      /\ plan' = Normalized(given) /\ todo' = AllRebuilds(plan')
  BY DEF Start
<1>2. run + 1 \in DOMAIN Plans /\ run' = run + 1 /\ rooms' = <<>> /\ staged' = <<>>
  BY PlansAssumption DEF Start, HonourInv
<1> DEFINE all == AllRebuilds(Normalized(given))
<1>3. /\ IsSequence(all) /\ \A entry \in ToSet(all) : Buildable(entry)
      /\ \A entry, other \in ToSet(all) : Apart(entry, other)
  BY <1>1, <1>2, PlansAssumption
<1>4. Rebuilds' = all /\ todo' = all
  BY <1>1 DEF Rebuilds
<1> HIDE DEF all
<1>5. Sound(all)
  BY <1>3 DEF Sound, ToSet
<1>6. Len(all) \in Nat /\ Len(all) - Len(all) = 0
  BY <1>3 DEF IsSequence
<1>7. Remains(all, 0, all)
  BY <1>3, <1>6 DEF Remains, IsSequence
<1>8. (Len(Rebuilds) - Len(todo))' = 0
  BY <1>4, <1>6
<1>9. Sound(Rebuilds)'
  BY <1>4, <1>5 DEF Sound
<1>10. Remains(Rebuilds, Len(Rebuilds) - Len(todo), todo)'
  BY <1>4, <1>7, <1>8 DEF Remains
<1>11. KernelsKept(Rebuilds, Len(Rebuilds) - Len(todo))'
  BY <1>2, <1>8 DEF KernelsKept, KernelRoom
<1> QED BY <1>2, <1>9, <1>10, <1>11, <1>0 DEF HonourInv

\* Of a rebuilds b are left: the next is the n-th.
LEMMA NextRebuild ==
  ASSUME NEW a \in Nat, NEW b \in Nat \ {0}, a - b \in Nat, NEW n, n = a - b + 1
  PROVE  /\ n \in Nat \ {0} /\ n - 1 \in Nat /\ n - 1 = a - b /\ n = a - (b - 1)
         /\ n \in 1 .. a /\ 1 .. n \in SUBSET (1 .. a) /\ 1 .. a \in SUBSET (Nat \ {0})
         /\ 1 \in 1 .. b /\ (n - 1) + 1 = n
         /\ \A j \in 1 .. b - 1 : j + 1 \in 1 .. b /\ (n - 1) + (j + 1) = n + j
OBVIOUS

\* A rebuild makes one more.
LEMMA HonourRebuilds ==
  ASSUME HonourInv, Rebuild, run > 0
  PROVE  HonourInv'
<1>d. PICK all : all = Rebuilds
  OBVIOUS
<1>n. PICK n : n = Len(all) - Len(todo) + 1
  OBVIOUS
<1>1. /\ todo # <<>> /\ todo' = Tail(todo) /\ plan' = plan /\ run' = run
      /\ rooms' = Used(rooms, Head(todo))
      /\ staged' = Staged(staged, Prepared(rooms, Head(todo)), Head(todo))
  BY DEF Rebuild
<1>2. Rebuilds' = Rebuilds
  BY <1>1 DEF Rebuilds
<1>3. /\ Sound(all) /\ Remains(all, Len(all) - Len(todo), todo)
      /\ Undisturbed(all) => KernelsKept(all, Len(all) - Len(todo))
  BY <1>d DEF HonourInv
<1> DEFINE S == ToSet(all)
<1>5. all \in Seq(S) /\ todo \in Seq(S)
  BY <1>3 DEF Remains
<1> HIDE DEF S
<1>6. /\ Len(todo) \in Nat \ {0} /\ Head(todo) = todo[1]
      /\ Tail(todo) \in Seq(S) /\ Len(Tail(todo)) = Len(todo) - 1
      /\ \A j \in 1 .. Len(todo) - 1 : Tail(todo)[j] = todo[j + 1]
      /\ Len(all) \in Nat /\ DOMAIN all = 1 .. Len(all)
  BY <1>1, <1>5
<1>c. Len(all) - Len(todo) \in Nat
  BY <1>3 DEF Remains
<1>a. /\ n \in Nat \ {0} /\ n - 1 \in Nat /\ n - 1 = Len(all) - Len(todo) /\ n = Len(all) - (Len(todo) - 1)
      /\ n \in 1 .. Len(all) /\ 1 .. n \in SUBSET (1 .. Len(all)) /\ 1 .. Len(all) \in SUBSET (Nat \ {0})
      /\ 1 \in 1 .. Len(todo) /\ (n - 1) + 1 = n
      /\ \A j \in 1 .. Len(todo) - 1 : j + 1 \in 1 .. Len(todo) /\ (n - 1) + (j + 1) = n + j
  <2>1. Len(all) \in Nat /\ Len(todo) \in Nat \ {0}
    BY <1>6
  <2>2. n = Len(all) - Len(todo) + 1
    BY <1>n
  <2> QED BY <1>c, <2>1, <2>2, NextRebuild
<1>b. Undisturbed(all) => KernelsKept(all, n - 1)
  BY <1>3, <1>a
<1>4. \A j \in 1 .. Len(todo) : todo[j] = all[(n - 1) + j]
  BY <1>3, <1>a DEF Remains
<1>7. n \in DOMAIN all /\ 1 .. n \in SUBSET DOMAIN all /\ DOMAIN all \in SUBSET (Nat \ {0})
  <2>1. DOMAIN all = 1 .. Len(all)
    BY <1>6
  <2> QED BY <1>a, <2>1
<1>8. Head(todo) = all[n]
  <2>1. todo[1] = all[(n - 1) + 1]
    BY <1>4, <1>a
  <2> QED BY <1>6, <1>a, <2>1
<1>9. Remains(all, n, Tail(todo))
  <2>1. ASSUME NEW j \in 1 .. Len(todo) - 1 PROVE Tail(todo)[j] = all[n + j]
    <3>1. j + 1 \in 1 .. Len(todo) /\ (n - 1) + (j + 1) = n + j
      BY <1>a
    <3>2. todo[j + 1] = all[(n - 1) + (j + 1)]
      BY <1>4, <3>1
    <3> QED BY <1>6, <3>1, <3>2
  <2> QED BY <1>5, <1>6, <1>a, <2>1 DEF Remains, S
<1>10. ASSUME Undisturbed(all) PROVE KernelsKept(all, n)'
  <2>0. n \in Nat \ {0}
    BY <1>a
  <2>1. /\ rooms' = Used(rooms, all[n]) /\ staged' = Staged(staged, Prepared(rooms, all[n]), all[n])
        /\ Sound(all) /\ KernelsKept(all, n - 1)
    BY <1>1, <1>3, <1>8, <1>10, <1>b
  <2>2. CASE all[n].kind = "linux"
    BY <1>7, <1>10, <2>0, <2>1, <2>2, KernelStep
  <2>3. CASE all[n].kind # "linux"
    BY <1>7, <2>0, <2>1, <2>3, SourceStep
  <2> QED BY <2>2, <2>3
<1>11. (Len(Rebuilds) - Len(todo))' = n
  BY <1>1, <1>2, <1>a, <1>d
<1>12. Rebuilds' = all
  BY <1>2, <1>d
<1>13. Sound(Rebuilds)' /\ Remains(Rebuilds, Len(Rebuilds) - Len(todo), todo)'
  BY <1>1, <1>3, <1>9, <1>11, <1>12 DEF Sound, Remains
<1>14. Undisturbed(Rebuilds)' => KernelsKept(Rebuilds, Len(Rebuilds) - Len(todo))'
  <2>1. Undisturbed(Rebuilds)' => Undisturbed(all)
    BY <1>12 DEF Undisturbed, Alike
  <2>2. KernelsKept(all, n)' => KernelsKept(Rebuilds, Len(Rebuilds) - Len(todo))'
    BY <1>11, <1>12 DEF KernelsKept, KernelRoom, KernelStaged, Kin
  <2> QED BY <1>10, <2>1, <2>2
<1> QED BY <1>1, <1>13, <1>14 DEF HonourInv

\* The other steps leave the rebuilds as they are.
LEMMA HonourStays ==
  ASSUME HonourInv, UNCHANGED <<run, plan, todo, rooms, staged>>
  PROVE  HonourInv'
<1>1. Rebuilds' = Rebuilds
  BY DEF Rebuilds
<1>2. KernelsKept(Rebuilds, Len(Rebuilds) - Len(todo))' = KernelsKept(Rebuilds, Len(Rebuilds) - Len(todo))
  BY <1>1 DEF KernelsKept, KernelRoom, KernelStaged
<1> QED BY <1>1, <1>2 DEF HonourInv, Sound, Remains, Undisturbed

\* Whatever else a run rebuilds, with whatever overlays, lists and settings, in
\* one room per kernel: what the rebuilds of a kernel asked for is in its udebs.
THEOREM KernelsHonoured == Spec => []KernelHonoured
<1> DEFINE Inv == HonourInv /\ (pc = "rebuild" => run > 0)
<1>1. Init => Inv
  BY DEF Init, HonourInv
<1>2. Inv /\ [Next]_vars => Inv'
  <2> SUFFICES ASSUME Inv, [Next]_vars PROVE Inv'
    OBVIOUS
  <2>1. CASE Start
    <3>1. run' > 0
      BY <2>1 DEF Start, HonourInv
    <3> QED BY <2>1, <3>1, HonourStarts
  <2>2. CASE Rebuild
    BY <2>2, HonourRebuilds DEF Rebuild
  <2>3. CASE Audit \/ Export \/ DirectDi \/ Materialize \/ LbBuild \/ CheckLive \/ CopyBegins \/ CopyEnds
             \/ CheckPayload \/ WriteManifest \/ Clean \/ Stop
    <3>1. UNCHANGED <<run, plan, todo, rooms, staged>> /\ (pc' = "rebuild" => pc = "rebuild")
      BY <2>3 DEF Audit, Export, DirectDi, Materialize, LbBuild, CheckLive, CopyBegins, CopyEnds,
         CheckPayload, WriteManifest, Clean, Stop
    <3> QED BY <3>1, HonourStays
  <2>4. CASE BeginEvidence \/ Evidence \/ UNCHANGED vars
    <3>1. UNCHANGED <<run, plan, todo, rooms, staged>> /\ pc' = pc
      BY <2>4 DEF BeginEvidence, Evidence, vars, buildVars
    <3> QED BY <3>1, HonourStays
  <2> QED BY <2>1, <2>2, <2>3, <2>4 DEF Next
<1>3. Inv => KernelHonoured
  <2> SUFFICES ASSUME HonourInv, run > 0, todo = <<>>, ~Disturbed,
                      NEW i \in DOMAIN Rebuilds, Rebuilds[i].kind = "linux"
               PROVE  LET made == staged[<<Rebuilds[i].source, Rebuilds[i].version>>]
                      IN /\ \A k \in DOMAIN Rebuilds[i].targets : TargetStands(i, k) =>
                               Rebuilds[i].targets[k].modules \subseteq made.lists[Rebuilds[i].targets[k].path]
                         /\ \A entry \in ToSet(EntryMap(Rebuilds[i].config)),
                               f \in Fragments(FragmentsFound(i), Rebuilds[i].arch) : EntryStands(i, entry, f) =>
                                  \E n \in DOMAIN made.conf[f] :
                                     /\ Occurs(made.conf[f], entry.symbol) = {n} /\ made.conf[f][n] = entry
    BY DEF KernelHonoured
  <2> DEFINE all == Rebuilds
             made == staged[<<all[i].source, all[i].version>>]
  <2>1. Len(all) \in Nat /\ DOMAIN all = 1 .. Len(all) /\ Len(all) - Len(todo) = Len(all)
    <3>1. all \in Seq(ToSet(all))
      BY DEF HonourInv, Remains
    <3> QED BY <3>1
  <2>2. Undisturbed(all)
    BY DEF Undisturbed, Disturbed, Alike, SameKernel
  <2>3. Serves(all, i, Len(all), made)
    <3>1. KernelsKept(all, Len(all))
      BY <2>1, <2>2 DEF HonourInv
    <3> QED BY <2>1, <3>1 DEF KernelsKept, KernelStaged, File
  <2> DEFINE later == {j \in DOMAIN all : i < j /\ j <= Len(all) /\ Alike(all, i, j)}
  <2>4. later \subseteq Later(i)
    BY <2>1 DEF Later, Alike, SameKernel
  <2>5. ASSUME NEW k \in DOMAIN all[i].targets, TargetStands(i, k)
        PROVE  all[i].targets[k].modules \subseteq made.lists[all[i].targets[k].path]
    <3>1. \A l \in DOMAIN all[i].targets : l > k => Adds(all[i].targets[l], all[i].targets[k].path)
      BY <2>5 DEF TargetStands, Adds
    <3>2. \A j \in later : Spares(all[j], all[i].targets[k].path)
      BY <2>4, <2>5 DEF TargetStands, Spares, Adds
    <3>3. Has(made.lists, all[i].targets[k].path, all[i].targets[k].modules)
      BY <2>3, <3>1, <3>2 DEF Serves
    <3> QED BY <3>3 DEF Has
  <2>6. ASSUME NEW entry \in ToSet(EntryMap(all[i].config)),
               NEW f \in Fragments(FragmentsFound(i), all[i].arch), EntryStands(i, entry, f)
        PROVE  Sets(made.conf[f], entry)
    <3>1. \A j \in later : Leaves(all[j], entry.symbol, f)
      BY <2>4, <2>6 DEF EntryStands, Leaves
    <3>2. FragmentsFound(i) = Names(all, i, i)
      <4>1. \A k \in DOMAIN all : SameKernel(i, k) <=> Alike(all, i, k)
        BY DEF SameKernel, Alike
      <4>2. UNION {DOMAIN Overlays[all[j].overlay].conf :
                     j \in {k \in DOMAIN all : k <= i /\ SameKernel(i, k) /\ all[k].overlay # "none"}}
            = UNION {Bringing(all[j]) : j \in {k \in DOMAIN all : k <= i /\ Alike(all, i, k)}}
        BY <4>1 DEF Bringing
      <4> QED BY <4>2 DEF FragmentsFound, Names
    <3> QED BY <2>3, <2>6, <3>1, <3>2 DEF Serves
  <2> QED BY <2>5, <2>6 DEF Sets
<1> QED BY <1>1, <1>2, <1>3, PTL DEF Spec
=============================================================================
