----------------------- MODULE InstallerBundleProofs -----------------------
(* Safety of InstallerBundle for any number of runs, any downloads and any    *)
(* requests.                                                                  *)
EXTENDS InstallerBundle, SequenceTheorems, TLAPS

HasAssets == bundle.kernel # << >> /\ bundle.initrd # << >>
NoAssets == bundle.kernel = << >> /\ bundle.initrd = << >>
Scanned == role = "netinst" => "iso_scan" \in bundle.initrd[1].has

\* A flavor's assets derive from the shared ones.
DerivedAssets(a) ==
  /\ a.kernel = bundle.kernel[1]
  /\ a.initrd.version = bundle.initrd[1].version
  /\ bundle.initrd[1].has \cup {"dispatch"} \subseteq a.initrd.has
Derived(profiles) ==
  profiles # << >> => DerivedAssets(profiles[1]["desktop"]) /\ DerivedAssets(profiles[1]["server"])

Consistent == HasAssets /\ Scanned /\ Derived(bundle.profiles) /\ Derived(backup)

Preparation == {"preflight", "clear_assets", "clear_payload", "clear_manifest", "clear_profiles",
                "align", "kernel", "initrd", "extract", "modules", "iso_scan", "repack"}
Profiling == {"flavor", "swap", "publish"}
Building == request.kind = "prepare" /\ pc \in Profiling

\* Which run may stand where.
Places ==
  /\ pc \in Preparation => request.kind = "prepare"
  /\ pc = "payload" => request.kind = "prepare" /\ role = "netinst"
  /\ pc = "look" => request.kind # "prepare"
  /\ pc = "modules" => role = "netinst"
  /\ request.modules # "none" => role = "netinst" \/ pc = "idle"

\* A whole manifest lies beside nothing or beside a consistent bundle, because
\* it goes before anything is written and comes when everything is.
ManifestFits ==
  /\ bundle.manifest = "whole" => NoAssets \/ Consistent
  /\ Building \/ pc \in {"clear_profiles", "align", "kernel", "initrd", "extract", "modules",
                         "iso_scan", "repack", "payload"} => bundle.manifest = "none"
  /\ pc \in Profiling /\ request.kind # "prepare" => bundle.manifest = "whole"
  /\ pc \in {"payload", "truncate", "record", "access"} => Consistent
  /\ pc \in {"clear_payload", "clear_manifest"} => NoAssets

\* What a preparation has done by the time it stands at pc.
Progress ==
  /\ Building \/ pc \in {"align", "kernel", "initrd", "extract", "modules", "iso_scan", "repack"}
       => bundle.profiles = << >> /\ backup = << >>
  /\ pc = "initrd" => bundle.kernel # << >>
  /\ pc \in {"extract", "modules", "iso_scan", "repack"} => HasAssets
  /\ pc \in {"modules", "iso_scan", "repack"} =>
       tree.has # << >> /\ (~tree.changed => tree.has[1] = bundle.initrd[1].has)
  /\ pc = "repack" /\ role = "netinst" => "iso_scan" \in tree.has[1]
  /\ Building => HasAssets /\ Scanned

\* The flavors built so far.
Flavored ==
  /\ pc \in Preparation \cup {"look"} => staged = << >>
  /\ pc \in Profiling =>
       \A i \in DOMAIN staged : HasAssets /\ DerivedAssets(staged[i])
  /\ pc = "flavor" => Len(staged) < 2
  /\ pc \in {"swap", "publish"} => Len(staged) = 2

\* What the comparison has established, and how it reaches the bundle.
Copying == {"kernel", "initrd", "extract", "modules", "iso_scan", "repack", "flavor", "swap",
            "publish", "payload", "truncate", "record", "access"}
Compared ==
  request.kind = "prepare" =>
    /\ pc \in Copying /\ role = "netinst" /\ ~moved => Aligned
    /\ pc \in Copying \ {"kernel"} /\ ~moved => bundle.kernel[1] = input.kernel
    /\ pc \in Copying \ {"kernel", "initrd"} /\ ~moved =>
         bundle.initrd[1].version = input.initrd.version
    /\ pc \in {"truncate", "record", "access"} /\ role = "netinst" /\ ~moved =>
         bundle.payload[1] = input.iso
    /\ pc \in Copying \ {"kernel", "initrd", "extract", "modules"} /\ request.modules # "none" =>
         ~Disagree(bundle.kernel[1], bundle.initrd[1].version)

IInv == TypeOK /\ Places /\ ManifestFits /\ Progress /\ Flavored /\ Compared /\ AbisAgree

-----------------------------------------------------------------------------

\* What a request asks for.
LEMMA RequestFacts ==
  ASSUME NEW r \in Requests
  PROVE  r.kind \in {"prepare", "ensure", "profiles"} /\ r.modules \in {"none", "host", "udeb"}
BY RequestsAssumption DEF Request

\* An empty bundle and no tree have their types.
LEMMA EmptyIsTyped == Empty \in Bundle /\ NoTree \in [has : Seq(SUBSET Marks), changed : BOOLEAN]
<1>1. /\ << >> \in Seq(Versions) /\ << >> \in Seq(Iso) /\ << >> \in Seq(Archive) /\ << >> \in Seq(SUBSET Marks)
      /\ << >> \in Seq([Flavors -> Assets])
  OBVIOUS
<1> QED
  BY <1>1, Zenon DEF Empty, Bundle, NoTree

\* A part of the bundle is replaced by a value of its type.
LEMMA BundleParts ==
  ASSUME bundle \in Bundle
  PROVE  /\ \A k \in Seq(Versions) : [bundle EXCEPT !.kernel = k] \in Bundle
         /\ \A i \in Seq(Archive) : [bundle EXCEPT !.initrd = i] \in Bundle
         /\ \A k \in Seq(Versions), i \in Seq(Archive), o \in {"user", "root"} :
              [bundle EXCEPT !.kernel = k, !.initrd = i, !.owner = o] \in Bundle
         /\ \A y \in Seq(Iso) : [bundle EXCEPT !.payload = y] \in Bundle
         /\ \A p \in Seq([Flavors -> Assets]) : [bundle EXCEPT !.profiles = p] \in Bundle
         /\ \A m \in {"none", "torn", "whole"} : [bundle EXCEPT !.manifest = m] \in Bundle
         /\ \A o \in {"user", "root"} : [bundle EXCEPT !.owner = o] \in Bundle
<1>1. \A k \in Seq(Versions) : [bundle EXCEPT !.kernel = k] \in Bundle
  BY Zenon DEF Bundle
<1>2. \A i \in Seq(Archive) : [bundle EXCEPT !.initrd = i] \in Bundle
  BY Zenon DEF Bundle
<1>3. \A k \in Seq(Versions), i \in Seq(Archive), o \in {"user", "root"} :
        [bundle EXCEPT !.kernel = k, !.initrd = i, !.owner = o] \in Bundle
  BY Zenon DEF Bundle
<1>4. \A y \in Seq(Iso) : [bundle EXCEPT !.payload = y] \in Bundle
  BY Zenon DEF Bundle
<1>5. \A p \in Seq([Flavors -> Assets]) : [bundle EXCEPT !.profiles = p] \in Bundle
  BY Zenon DEF Bundle
<1>6. \A m \in {"none", "torn", "whole"} : [bundle EXCEPT !.manifest = m] \in Bundle
  BY Zenon DEF Bundle
<1>7. \A o \in {"user", "root"} : [bundle EXCEPT !.owner = o] \in Bundle
  BY Zenon DEF Bundle
<1> QED
  BY <1>1, <1>2, <1>3, <1>4, <1>5, <1>6, <1>7

\* The archive a changed tree is packed into.
LEMMA Packed ==
  ASSUME NEW a \in Archive, NEW h \in SUBSET Marks
  PROVE  [a EXCEPT !.has = h] \in Archive
BY Zenon DEF Archive

\* The two members of a sequence of two.
LEMMA PairElements ==
  ASSUME NEW S, NEW s \in Seq(S), Len(s) = 2
  PROVE  s[1] \in S /\ s[2] \in S
<1>1. 1 \in 1 .. Len(s) /\ 2 \in 1 .. Len(s)
  BY SMT
<1> QED
  BY <1>1, ElementOfSeq

\* The numbers below two.
LEMMA BelowTwo ==
  ASSUME NEW n \in Nat, n < 2
  PROVE  n = 0 \/ n = 1
BY SMT

\* A sequence of one member.
LEMMA Singleton ==
  ASSUME NEW S, NEW x \in S
  PROVE  <<x>> \in Seq(S)
OBVIOUS

\* What an action does to the bundle keeps its type.
LEMMA BundleTyped ==
  ASSUME TypeOK, Progress, Flavored, Next
  PROVE  bundle' \in Bundle
<1> USE DEF TypeOK, history, downloads, work
<1>e. /\ << >> \in Seq(Versions) /\ << >> \in Seq(Iso) /\ << >> \in Seq(Archive) /\ << >> \in Seq([Flavors -> Assets])
      /\ "root" \in {"user", "root"} /\ "user" \in {"user", "root"}
      /\ "none" \in {"none", "torn", "whole"} /\ "torn" \in {"none", "torn", "whole"}
      /\ "whole" \in {"none", "torn", "whole"}
  OBVIOUS
<1>i. input.kernel \in Versions /\ input.iso \in Iso /\ input.initrd \in Archive
  BY DEF Input
<1>1. CASE Begin \/ ReplaceInput \/ Kill \/ Preflight \/ Align \/ Extract \/ AddModules
           \/ EnforceIsoScan \/ BuildFlavor
  BY <1>1 DEF Begin, ReplaceInput, Kill, Preflight, Align, Extract, AddModules, EnforceIsoScan,
              BuildFlavor
<1>2. CASE Fails
  BY <1>2, BundleParts, Zenon DEF Fails
<1>3. CASE ClearAssets
  BY <1>3, <1>e, BundleParts, Zenon DEF ClearAssets
<1>4. CASE ClearPayload
  BY <1>4, <1>e, BundleParts, Zenon DEF ClearPayload
<1>5. CASE ClearManifest \/ TruncateManifest \/ RecordManifest
  BY <1>5, <1>e, BundleParts, Zenon DEF ClearManifest, TruncateManifest, RecordManifest
<1>6. CASE ClearProfiles \/ MoveAside
  BY <1>6, <1>e, BundleParts, Zenon DEF ClearProfiles, MoveAside
<1>7. CASE CopyKernel
  <2>1. <<input.kernel>> \in Seq(Versions)
    BY <1>i
  <2> QED
    BY <1>7, <2>1, BundleParts, Zenon DEF CopyKernel
<1>8. CASE CopyInitrd
  <2>1. <<input.initrd>> \in Seq(Archive)
    BY <1>i
  <2> QED
    BY <1>8, <2>1, BundleParts, Zenon DEF CopyInitrd
<1>9. CASE CopyPayload
  <2>1. <<input.iso>> \in Seq(Iso)
    BY <1>i
  <2> QED
    BY <1>9, <2>1, BundleParts, Zenon DEF CopyPayload
<1>10. CASE Repack
  <2>1. pc = "repack" /\ bundle.initrd \in Seq(Archive) /\ tree.has \in Seq(SUBSET Marks)
    BY <1>10 DEF Repack, Bundle
  <2>2. bundle.initrd[1] \in Archive /\ tree.has[1] \in SUBSET Marks
    BY <2>1, SMT DEF Progress, HasAssets
  <2> DEFINE packed == <<[bundle.initrd[1] EXCEPT !.has = tree.has[1]]>>
  <2>a. [bundle.initrd[1] EXCEPT !.has = tree.has[1]] \in Archive
    BY <2>2, Packed, Zenon
  <2>3. packed \in Seq(Archive)
    BY <2>a, Singleton, Zenon
  <2>4. [bundle EXCEPT !.initrd = packed] \in Bundle
    BY <2>3, BundleParts, Zenon
  <2>5. bundle' = bundle \/ bundle' = [bundle EXCEPT !.initrd = packed]
    BY <1>10 DEF Repack
  <2> QED
    BY <2>4, <2>5
<1>11. CASE PublishProfiles
  <2>1. Len(staged) = 2
    BY <1>11 DEF PublishProfiles, Flavored
  <2>a. staged[1] \in Assets /\ staged[2] \in Assets
    BY <2>1, PairElements, Zenon
  <2> DEFINE flavors == [desktop |-> staged[1], server |-> staged[2]]
  <2>2. flavors \in [Flavors -> Assets]
    BY <2>a DEF Flavors
  <2>3. <<flavors>> \in Seq([Flavors -> Assets])
    BY <2>2
  <2> QED
    BY <1>11, <2>3, BundleParts, Zenon DEF PublishProfiles
<1>12. CASE FinalizeAccess \/ LookAtBundle
  BY <1>12, <1>e, BundleParts, Zenon DEF FinalizeAccess, LookAtBundle
<1> QED
  BY <1>1, <1>2, <1>3, <1>4, <1>5, <1>6, <1>7, <1>8, <1>9, <1>10, <1>11, <1>12 DEF Next

\* The lengths of the parts, and who owns the bundle.
LEMMA BundleBounded ==
  ASSUME TypeOK, Places, Flavored, Next
  PROVE  /\ Len(bundle'.kernel) <= 1 /\ Len(bundle'.initrd) <= 1
         /\ Len(bundle'.payload) <= 1 /\ Len(bundle'.profiles) <= 1
         /\ pc' = "done" /\ request'.kind # "ensure" => bundle'.owner = "user"
<1> USE DEF TypeOK, Bundle, history, downloads, work, Goto
<1>1. CASE Begin
  BY <1>1, SMT DEF Begin
<1>2. CASE ReplaceInput \/ Kill \/ Preflight \/ Align \/ Extract \/ AddModules
           \/ EnforceIsoScan \/ BuildFlavor
  BY <1>2, SMT DEF ReplaceInput, Kill, Preflight, Align, Extract, AddModules, EnforceIsoScan,
              BuildFlavor
<1>3. CASE Fails
  BY <1>3, SMT DEF Fails
<1>4. CASE ClearAssets
  BY <1>4, SMT DEF ClearAssets
<1>5. CASE ClearPayload
  BY <1>5, SMT DEF ClearPayload
<1>6. CASE ClearManifest
  BY <1>6, SMT DEF ClearManifest
<1>7. CASE ClearProfiles
  BY <1>7, SMT DEF ClearProfiles
<1>8. CASE CopyKernel
  BY <1>8, SMT DEF CopyKernel
<1>9. CASE CopyInitrd
  BY <1>9, SMT DEF CopyInitrd
<1>10. CASE CopyPayload
  BY <1>10, SMT DEF CopyPayload
<1>11. CASE Repack
  BY <1>11, SMT DEF Repack
<1>12. CASE MoveAside
  BY <1>12, SMT DEF MoveAside
<1>13. CASE PublishProfiles
  BY <1>13, SMT DEF PublishProfiles
<1>14. CASE TruncateManifest
  BY <1>14, SMT DEF TruncateManifest
<1>15. CASE RecordManifest
  BY <1>15, SMT DEF RecordManifest
<1>16. CASE FinalizeAccess
  BY <1>16, SMT DEF FinalizeAccess
<1>17. CASE LookAtBundle
  BY <1>17, SMT DEF LookAtBundle
<1> QED
  BY <1>1, <1>2, <1>3, <1>4, <1>5, <1>6, <1>7, <1>8, <1>9, <1>10, <1>11, <1>12,
     <1>13, <1>14, <1>15, <1>16, <1>17 DEF Next

\* Flavors are built from typed archives.
LEMMA StagedTyped ==
  ASSUME TypeOK, Flavored, BuildFlavor
  PROVE  staged' \in Seq(Assets) /\ Len(staged') <= 2
<1> DEFINE archive == bundle.initrd[1]
           built == [kernel |-> bundle.kernel[1],
                     initrd |-> [archive EXCEPT !.has = @ \cup Additions(NextFlavor)]]
<1>1. bundle.kernel \in Seq(Versions) /\ bundle.initrd \in Seq(Archive)
  BY DEF TypeOK, Bundle
<1>2. bundle.kernel[1] \in Versions /\ archive \in Archive
  BY <1>1, ElementOfSeq, SMT DEF BuildFlavor
<1>3. archive.has \cup Additions(NextFlavor) \in SUBSET Marks
  BY <1>2 DEF Archive, Additions, Overlay, Marks
<1>4. [archive EXCEPT !.has = archive.has \cup Additions(NextFlavor)] \in Archive
  BY <1>2, <1>3, Packed, Zenon
<1>5. built \in Assets
  BY <1>2, <1>4 DEF Assets
<1>6. staged' = Append(staged, built) /\ staged \in Seq(Assets) /\ Len(staged) < 2
  BY DEF BuildFlavor, TypeOK, Flavored
<1> QED
  BY <1>5, <1>6, SMT

\* Every step keeps the types.
LEMMA Types ==
  ASSUME TypeOK, Places, Progress, Flavored, Next
  PROVE  TypeOK'
<1>b. bundle' \in Bundle
  BY BundleTyped
<1>c. /\ Len(bundle'.kernel) <= 1 /\ Len(bundle'.initrd) <= 1
      /\ Len(bundle'.payload) <= 1 /\ Len(bundle'.profiles) <= 1
      /\ pc' = "done" /\ request'.kind # "ensure" => bundle'.owner = "user"
  BY BundleBounded
<1>r. role' \in {"netinst", "netboot"} /\ request' \in Requests
  <2>1. CASE Begin
    BY <2>1 DEF Begin, TypeOK
  <2>2. CASE ~Begin
    BY <2>2 DEF TypeOK, Next, history, ReplaceInput, Fails, Kill, Preflight, ClearAssets,
           ClearPayload, ClearManifest, ClearProfiles, Align, CopyKernel, CopyInitrd, Extract,
           AddModules, EnforceIsoScan, Repack, BuildFlavor, MoveAside, PublishProfiles,
           CopyPayload, TruncateManifest, RecordManifest, FinalizeAccess, LookAtBundle
  <2> QED
    BY <2>1, <2>2
<1>i. input' \in Input /\ moved' \in BOOLEAN /\ changes' \in 0 .. MaxChanges
  <2>1. CASE ReplaceInput
    <3>1. input.initrd \in Archive /\ \A v \in {1, 2} : v \in Versions
      BY SMT DEF TypeOK, Input, Versions
    <3>2. \A v \in {1, 2} : [input.initrd EXCEPT !.version = v] \in Archive
      BY <3>1, Zenon DEF Archive
    <3>3. \A v \in {1, 2} : /\ [input EXCEPT !.initrd = [input.initrd EXCEPT !.version = v]] \in Input
                            /\ [input EXCEPT !.kernel = v] \in Input
      BY <3>1, <3>2, Zenon DEF TypeOK, Input
    <3>a. \A v, w \in {1, 2} : [kernel |-> v, initrd |-> w] \in Iso
      BY <3>1 DEF Iso
    <3>b. \A s \in Iso : [input EXCEPT !.iso = s] \in Input
      BY Zenon DEF TypeOK, Input
    <3>4. input' \in Input
      BY <2>1, <3>3, <3>a, <3>b, Zenon DEF ReplaceInput
    <3>5. moved' \in BOOLEAN
      BY <2>1, Zenon DEF ReplaceInput, TypeOK
    <3>6. changes' \in 0 .. MaxChanges
      BY <2>1, BoundsAssumption, SMT DEF ReplaceInput, TypeOK
    <3> QED
      BY <3>4, <3>5, <3>6
  <2>2. CASE Align
    BY <2>2 DEF Align, TypeOK
  <2>3. CASE ~ReplaceInput /\ ~Align
    BY <2>3 DEF TypeOK, Next, downloads, Begin, Fails, Kill, Preflight, ClearAssets,
           ClearPayload, ClearManifest, ClearProfiles, CopyKernel, CopyInitrd, Extract,
           AddModules, EnforceIsoScan, Repack, BuildFlavor, MoveAside, PublishProfiles,
           CopyPayload, TruncateManifest, RecordManifest, FinalizeAccess, LookAtBundle
  <2> QED
    BY <2>1, <2>2, <2>3
<1>n. runs' \in 0 .. MaxRuns
  <2>1. CASE Begin
    BY <2>1, BoundsAssumption, SMT DEF Begin, TypeOK
  <2>2. CASE ~Begin
    BY <2>2 DEF TypeOK, Next, history, ReplaceInput, Fails, Kill, Preflight, ClearAssets,
           ClearPayload, ClearManifest, ClearProfiles, Align, CopyKernel, CopyInitrd, Extract,
           AddModules, EnforceIsoScan, Repack, BuildFlavor, MoveAside, PublishProfiles,
           CopyPayload, TruncateManifest, RecordManifest, FinalizeAccess, LookAtBundle
  <2> QED
    BY <2>1, <2>2
<1>t. tree' \in [has : Seq(SUBSET Marks), changed : BOOLEAN] /\ Len(tree'.has) <= 1
  <2>e. NoTree \in [has : Seq(SUBSET Marks), changed : BOOLEAN] /\ Len(NoTree.has) <= 1
    BY EmptyIsTyped, SMT DEF NoTree
  <2>1. CASE Begin \/ Fails \/ Repack
    BY <2>1, <2>e DEF Begin, Fails, Repack
  <2>2. CASE Extract
    <3>1. bundle.initrd[1] \in Archive
      BY <2>2, ElementOfSeq, SMT DEF Extract, TypeOK, Bundle, Progress, HasAssets
    <3>2. <<bundle.initrd[1].has>> \in Seq(SUBSET Marks) /\ Len(<<bundle.initrd[1].has>>) <= 1
      BY <3>1, SMT DEF Archive
    <3> QED
      BY <2>2, <3>2 DEF Extract
  <2>3. CASE AddModules \/ EnforceIsoScan
    <3>1. tree.has[1] \in SUBSET Marks
      BY <2>3, ElementOfSeq, SMT DEF AddModules, EnforceIsoScan, TypeOK, Progress
    <3>2. \A m \in {{"modules"}, {"iso_scan"}} :
             <<tree.has[1] \cup m>> \in Seq(SUBSET Marks) /\ Len(<<tree.has[1] \cup m>>) <= 1
      BY <3>1, SMT DEF Marks
    <3>3. \/ UNCHANGED tree
          \/ tree' = [has |-> <<tree.has[1] \cup {"modules"}>>, changed |-> TRUE]
          \/ tree' = [has |-> <<tree.has[1] \cup {"iso_scan"}>>, changed |-> TRUE]
      BY <2>3 DEF AddModules, EnforceIsoScan, Edit
    <3>4. \A q \in Seq(SUBSET Marks) :
             [has |-> q, changed |-> TRUE] \in [has : Seq(SUBSET Marks), changed : BOOLEAN]
      BY Zenon
    <3>5. CASE UNCHANGED tree
      BY <3>5 DEF TypeOK
    <3>6. CASE tree' = [has |-> <<tree.has[1] \cup {"modules"}>>, changed |-> TRUE]
      BY <3>2, <3>4, <3>6
    <3>7. CASE tree' = [has |-> <<tree.has[1] \cup {"iso_scan"}>>, changed |-> TRUE]
      BY <3>2, <3>4, <3>7
    <3> QED
      BY <3>3, <3>5, <3>6, <3>7
  <2>4. CASE ~(Begin \/ Fails \/ Repack \/ Extract \/ AddModules \/ EnforceIsoScan)
    BY <2>4 DEF TypeOK, Next, work, ReplaceInput, Kill, Preflight, ClearAssets,
           ClearPayload, ClearManifest, ClearProfiles, Align, CopyKernel, CopyInitrd,
           BuildFlavor, MoveAside, PublishProfiles,
           CopyPayload, TruncateManifest, RecordManifest, FinalizeAccess, LookAtBundle
  <2> QED
    BY <2>1, <2>2, <2>3, <2>4
<1>s. staged' \in Seq(Assets) /\ Len(staged') <= 2
  <2>1. CASE BuildFlavor
    BY <2>1, StagedTyped
  <2>2. CASE Begin \/ Fails \/ PublishProfiles
    <3>1. staged' = << >> /\ backup' = << >>
      BY <2>2 DEF Begin, Fails, PublishProfiles
    <3> QED
      BY <3>1, SMT
  <2>3. CASE ~(BuildFlavor \/ Begin \/ Fails \/ PublishProfiles)
    BY <2>3 DEF TypeOK, Next, work, ReplaceInput, Kill, Preflight, ClearAssets,
           ClearPayload, ClearManifest, ClearProfiles, Align, CopyKernel, CopyInitrd, Extract,
           AddModules, EnforceIsoScan, Repack, MoveAside,
           CopyPayload, TruncateManifest, RecordManifest, FinalizeAccess, LookAtBundle
  <2> QED
    BY <2>1, <2>2, <2>3
<1>k. /\ backup' \in Seq([Flavors -> Assets]) /\ Len(backup') <= 1
      /\ backup' # << >> => pc' \in {"publish", "killed"}
  <2>1. CASE MoveAside
    BY <2>1, SMT DEF MoveAside, TypeOK, Bundle, Goto
  <2>2. CASE Begin \/ Fails \/ PublishProfiles
    <3>1. staged' = << >> /\ backup' = << >>
      BY <2>2 DEF Begin, Fails, PublishProfiles
    <3> QED
      BY <3>1, SMT
  <2>3. CASE Kill
    BY <2>3 DEF Kill, TypeOK, work, Goto
  <2>4. CASE ~(MoveAside \/ Begin \/ Fails \/ PublishProfiles \/ Kill)
    BY <2>4 DEF TypeOK, Next, work, ReplaceInput, Preflight, ClearAssets,
           ClearPayload, ClearManifest, ClearProfiles, Align, CopyKernel, CopyInitrd, Extract,
           AddModules, EnforceIsoScan, Repack, BuildFlavor,
           CopyPayload, TruncateManifest, RecordManifest, FinalizeAccess, LookAtBundle
  <2> QED
    BY <2>1, <2>2, <2>3, <2>4
<1> QED
  BY <1>b, <1>c, <1>r, <1>i, <1>n, <1>t, <1>s, <1>k DEF TypeOK

\* A run stays where its kind belongs.
LEMMA PlacesStep ==
  ASSUME TypeOK, Places, Next
  PROVE  Places'
<1> USE DEF Places, Preparation, Goto, history, TypeOK
<1>1. CASE Begin
  BY <1>1, SMT DEF Begin, Ends
<1>2. CASE ReplaceInput
  BY <1>2, SMT DEF ReplaceInput
<1>3. CASE Fails
  BY <1>3, SMT DEF Fails, Ends
<1>4. CASE Kill
  BY <1>4, SMT DEF Kill, Ends
<1>5. CASE Preflight
  BY <1>5, SMT DEF Preflight
<1>6. CASE ClearAssets
  BY <1>6, SMT DEF ClearAssets
<1>7. CASE ClearPayload
  BY <1>7, SMT DEF ClearPayload
<1>8. CASE ClearManifest
  BY <1>8, SMT DEF ClearManifest
<1>9. CASE ClearProfiles
  BY <1>9, SMT DEF ClearProfiles
<1>10. CASE Align
  BY <1>10, SMT DEF Align
<1>11. CASE CopyKernel
  BY <1>11, SMT DEF CopyKernel
<1>12. CASE CopyInitrd
  BY <1>12, SMT DEF CopyInitrd
<1>13. CASE Extract
  BY <1>13, SMT DEF Extract
<1>14. CASE AddModules
  BY <1>14, SMT DEF AddModules
<1>15. CASE EnforceIsoScan
  BY <1>15, SMT DEF EnforceIsoScan
<1>16. CASE Repack
  BY <1>16, SMT DEF Repack
<1>17. CASE BuildFlavor
  BY <1>17, SMT DEF BuildFlavor
<1>18. CASE MoveAside
  BY <1>18, SMT DEF MoveAside
<1>19. CASE PublishProfiles
  BY <1>19, SMT DEF PublishProfiles
<1>20. CASE CopyPayload
  BY <1>20, SMT DEF CopyPayload
<1>21. CASE TruncateManifest
  BY <1>21, SMT DEF TruncateManifest
<1>22. CASE RecordManifest
  BY <1>22, SMT DEF RecordManifest
<1>23. CASE FinalizeAccess
  BY <1>23, SMT DEF FinalizeAccess
<1>24. CASE LookAtBundle
  BY <1>24, SMT DEF LookAtBundle
<1> QED
  BY <1>1, <1>2, <1>3, <1>4, <1>5, <1>6, <1>7, <1>8, <1>9, <1>10, <1>11, <1>12,
     <1>13, <1>14, <1>15, <1>16, <1>17, <1>18, <1>19, <1>20, <1>21, <1>22, <1>23, <1>24 DEF Next

\* The flavors built so far derive from the archive that is there.
LEMMA FlavorsStep ==
  ASSUME TypeOK, Places, Flavored, Next
  PROVE  Flavored'
<1> USE DEF Flavored, Preparation, Profiling, HasAssets, DerivedAssets, Goto, downloads, work, history, TypeOK, Bundle
<1>1. CASE Begin
  BY <1>1, SMT DEF Begin
<1>2. CASE ReplaceInput
  BY <1>2, SMT DEF ReplaceInput
<1>3. CASE Fails
  BY <1>3, SMT DEF Fails
<1>4. CASE Kill
  BY <1>4, SMT DEF Kill
<1>5. CASE Preflight
  BY <1>5, SMT DEF Preflight
<1>6. CASE ClearAssets
  BY <1>6, SMT DEF ClearAssets
<1>7. CASE ClearPayload
  BY <1>7, SMT DEF ClearPayload
<1>8. CASE ClearManifest
  BY <1>8, SMT DEF ClearManifest
<1>9. CASE ClearProfiles
  BY <1>9, SMT DEF ClearProfiles
<1>10. CASE Align
  BY <1>10, SMT DEF Align
<1>11. CASE CopyKernel
  BY <1>11, SMT DEF CopyKernel
<1>12. CASE CopyInitrd
  BY <1>12, SMT DEF CopyInitrd
<1>13. CASE Extract
  BY <1>13, SMT DEF Extract
<1>14. CASE AddModules
  BY <1>14, SMT DEF AddModules
<1>15. CASE EnforceIsoScan
  BY <1>15, SMT DEF EnforceIsoScan
<1>16. CASE Repack
  BY <1>16, SMT DEF Repack
<1>17. CASE BuildFlavor
  <2> DEFINE built == [kernel |-> bundle.kernel[1],
                       initrd |-> [bundle.initrd[1] EXCEPT !.has = @ \cup Additions(NextFlavor)]]
  <2>1. /\ staged' = Append(staged, built) /\ pc = "flavor" /\ UNCHANGED bundle
        /\ pc' = IF NextFlavor = "server" THEN "swap" ELSE "flavor"
        /\ HasAssets /\ staged \in Seq(Assets)
    BY <1>17 DEF BuildFlavor
  <2>2. bundle.initrd[1] \in Archive
    BY <2>1, ElementOfSeq, SMT
  <2>3. DerivedAssets(built)
    BY <2>2, SMT DEF Archive, Additions
  <2>4. Len(staged) \in {0, 1} /\ (NextFlavor = "server" <=> Len(staged) = 1)
    <3>1. Len(staged) \in Nat /\ Len(staged) < 2
      BY <2>1, LenProperties
    <3>2. Len(staged) = 0 \/ Len(staged) = 1
      BY <3>1, BelowTwo
    <3>3. Len(staged) = 0 => NextFlavor = "desktop"
      BY SMT DEF NextFlavor, Order
    <3>4. Len(staged) = 1 => NextFlavor = "server"
      BY SMT DEF NextFlavor, Order
    <3> QED
      BY <3>2, <3>3, <3>4
  <2>5. /\ Len(staged') = Len(staged) + 1
        /\ \A i \in DOMAIN staged' : staged'[i] = built \/ (i \in DOMAIN staged /\ staged'[i] = staged[i])
    BY <2>1, <2>4, SMT
  <2>6. \A i \in DOMAIN staged' : DerivedAssets(staged'[i])
    BY <2>1, <2>3, <2>5
  <2> QED
    BY <2>1, <2>4, <2>5, <2>6, SMT
<1>18. CASE MoveAside
  BY <1>18, SMT DEF MoveAside
<1>19. CASE PublishProfiles
  BY <1>19, SMT DEF PublishProfiles
<1>20. CASE CopyPayload
  BY <1>20, SMT DEF CopyPayload
<1>21. CASE TruncateManifest
  BY <1>21, SMT DEF TruncateManifest
<1>22. CASE RecordManifest
  BY <1>22, SMT DEF RecordManifest
<1>23. CASE FinalizeAccess
  BY <1>23, SMT DEF FinalizeAccess
<1>24. CASE LookAtBundle
  BY <1>24, SMT DEF LookAtBundle
<1> QED
  BY <1>1, <1>2, <1>3, <1>4, <1>5, <1>6, <1>7, <1>8, <1>9, <1>10, <1>11, <1>12,
     <1>13, <1>14, <1>15, <1>16, <1>17, <1>18, <1>19, <1>20, <1>21, <1>22, <1>23, <1>24 DEF Next

\* A preparation gets where it gets with what the steps before it have done.
LEMMA ProgressStep ==
  ASSUME TypeOK, Places, Flavored, Progress, ManifestFits, Next
  PROVE  Progress'
<1> USE DEF Progress, Places, Flavored, Building, Preparation, Profiling, HasAssets, Scanned, Goto, downloads, work,
           history, TypeOK, Bundle
<1>1. CASE Begin
  BY <1>1, SMT DEF Begin, Ends
<1>2. CASE ReplaceInput
  BY <1>2, SMT DEF ReplaceInput
<1>3. CASE Fails
  BY <1>3, SMT DEF Fails, Ends
<1>4. CASE Kill
  BY <1>4, SMT DEF Kill
<1>5. CASE Preflight
  BY <1>5, SMT DEF Preflight
<1>6. CASE ClearAssets
  BY <1>6, SMT DEF ClearAssets
<1>7. CASE ClearPayload
  BY <1>7, SMT DEF ClearPayload
<1>8. CASE ClearManifest
  BY <1>8, SMT DEF ClearManifest
<1>9. CASE ClearProfiles
  BY <1>9, SMT DEF ClearProfiles
<1>10. CASE Align
  BY <1>10, SMT DEF Align
<1>11. CASE CopyKernel
  BY <1>11, SMT DEF CopyKernel
<1>12. CASE CopyInitrd
  BY <1>12, SMT DEF CopyInitrd
<1>13. CASE Extract
  BY <1>13, SMT DEF Extract
<1>14. CASE AddModules
  BY <1>14, SMT DEF AddModules, Edit
<1>15. CASE EnforceIsoScan
  BY <1>15, SMT DEF EnforceIsoScan, Edit
<1>16. CASE Repack
  BY <1>16, SMT DEF Repack
<1>17. CASE BuildFlavor
  BY <1>17, SMT DEF BuildFlavor
<1>18. CASE MoveAside
  BY <1>18, SMT DEF MoveAside
<1>19. CASE PublishProfiles
  BY <1>19, SMT DEF PublishProfiles
<1>20. CASE CopyPayload
  BY <1>20, SMT DEF CopyPayload
<1>21. CASE TruncateManifest
  BY <1>21, SMT DEF TruncateManifest
<1>22. CASE RecordManifest
  BY <1>22, SMT DEF RecordManifest
<1>23. CASE FinalizeAccess
  BY <1>23, SMT DEF FinalizeAccess
<1>24. CASE LookAtBundle
  BY <1>24, SMT DEF LookAtBundle
<1> QED
  BY <1>1, <1>2, <1>3, <1>4, <1>5, <1>6, <1>7, <1>8, <1>9, <1>10, <1>11, <1>12,
     <1>13, <1>14, <1>15, <1>16, <1>17, <1>18, <1>19, <1>20, <1>21, <1>22, <1>23, <1>24 DEF Next

\* A look at a finished bundle leaves what the manifest vouches for alone.
LEMMA LookKeepsManifest ==
  ASSUME TypeOK, Places, ManifestFits, LookAtBundle
  PROVE  ManifestFits'
<1>1. /\ pc = "look" /\ UNCHANGED <<role, request, backup>> /\ bundle \in Bundle
      /\ request.kind # "prepare"
      /\ bundle.manifest = "whole"
  BY DEF LookAtBundle, TypeOK, Places, work, history
<1>2. /\ bundle'.kernel = bundle.kernel /\ bundle'.initrd = bundle.initrd
      /\ bundle'.profiles = bundle.profiles /\ bundle'.manifest = bundle.manifest
      /\ pc' \in {"done", "flavor"}
  BY <1>1 DEF LookAtBundle, Bundle, Goto
<1>3. NoAssets \/ Consistent
  BY <1>1 DEF ManifestFits
<1>4. NoAssets' \/ Consistent'
  BY <1>1, <1>2, <1>3 DEF NoAssets, Consistent, HasAssets, Scanned, Derived, DerivedAssets
<1> HIDE DEF NoAssets, Consistent
<1>5. ~Building'
  BY <1>1 DEF Building
<1> QED
  BY <1>1, <1>2, <1>4, <1>5 DEF ManifestFits

\* Nothing a whole manifest vouches for changes beside it.
LEMMA ManifestStep ==
  ASSUME TypeOK, Places, Flavored, Progress, ManifestFits, Next
  PROVE  ManifestFits'
<1> USE DEF ManifestFits, Consistent, NoAssets, Derived, Progress, Places, Flavored, Building, Preparation, Profiling, HasAssets,
           DerivedAssets, Scanned, Goto, downloads, work, history, TypeOK, Bundle
<1>1. CASE Begin
  BY <1>1, SMT DEF Begin, Ends
<1>2. CASE ReplaceInput
  BY <1>2, SMT DEF ReplaceInput
<1>3. CASE Fails
  BY <1>3, SMT DEF Fails, Ends
<1>4. CASE Kill
  BY <1>4, SMT DEF Kill
<1>5. CASE Preflight
  BY <1>5, SMT DEF Preflight
<1>6. CASE ClearAssets
  BY <1>6, SMT DEF ClearAssets
<1>7. CASE ClearPayload
  BY <1>7, SMT DEF ClearPayload
<1>8. CASE ClearManifest
  BY <1>8, SMT DEF ClearManifest
<1>9. CASE ClearProfiles
  BY <1>9, SMT DEF ClearProfiles
<1>10. CASE Align
  BY <1>10, SMT DEF Align
<1>11. CASE CopyKernel
  BY <1>11, SMT DEF CopyKernel
<1>12. CASE CopyInitrd
  BY <1>12, SMT DEF CopyInitrd
<1>13. CASE Extract
  BY <1>13, SMT DEF Extract
<1>14. CASE AddModules
  BY <1>14, SMT DEF AddModules, Edit
<1>15. CASE EnforceIsoScan
  BY <1>15, SMT DEF EnforceIsoScan, Edit
<1>16. CASE Repack
  BY <1>16, SMT DEF Repack
<1>17. CASE BuildFlavor
  BY <1>17, SMT DEF BuildFlavor
<1>18. CASE MoveAside
  BY <1>18, SMT DEF MoveAside
<1>19. CASE PublishProfiles
  BY <1>19, SMT DEF PublishProfiles
<1>20. CASE CopyPayload
  BY <1>20, SMT DEF CopyPayload
<1>21. CASE TruncateManifest
  BY <1>21, SMT DEF TruncateManifest
<1>22. CASE RecordManifest
  BY <1>22, SMT DEF RecordManifest
<1>23. CASE FinalizeAccess
  BY <1>23, SMT DEF FinalizeAccess
<1>24. CASE LookAtBundle
  BY <1>24, LookKeepsManifest
<1> QED
  BY <1>1, <1>2, <1>3, <1>4, <1>5, <1>6, <1>7, <1>8, <1>9, <1>10, <1>11, <1>12,
     <1>13, <1>14, <1>15, <1>16, <1>17, <1>18, <1>19, <1>20, <1>21, <1>22, <1>23, <1>24 DEF Next

\* What was compared is copied, unless a file is replaced in between.
LEMMA ComparedStep ==
  ASSUME TypeOK, Places, Progress, Compared, AbisAgree, Next
  PROVE  Compared' /\ AbisAgree'
<1> USE DEF Compared, Copying, Aligned, Disagree, AbisAgree, Places, Preparation, Progress, HasAssets, Goto,
           downloads, work, history, TypeOK, Bundle
<1>1. CASE Begin
  BY <1>1, SMT DEF Begin, Ends
<1>2. CASE ReplaceInput
  <2>1. UNCHANGED <<role, request, pc, bundle>>
    BY <1>2 DEF ReplaceInput
  <2>2. CASE pc \in Ends
    <3>1. moved' => moved
      BY <1>2, <2>2, Zenon DEF ReplaceInput
    <3>2. moved => moved'
      BY <1>2, Zenon DEF ReplaceInput
    <3>3. pc \notin Copying
      BY <2>2 DEF Ends
    <3>4. Compared'
      BY <2>1, <3>3, SMT
    <3> QED
      BY <2>1, <3>1, <3>2, <3>4, Zenon
  <2>3. CASE pc \notin Ends
    <3>1. moved'
      BY <1>2, <2>3, Zenon DEF ReplaceInput
    <3>2. pc # "done"
      BY <2>3 DEF Ends
    <3> QED
      BY <2>1, <3>1, <3>2, SMT
  <2> QED
    BY <2>2, <2>3
<1>3. CASE Fails
  BY <1>3, SMT DEF Fails, Ends
<1>4. CASE Kill
  BY <1>4, SMT DEF Kill
<1>5. CASE Preflight
  BY <1>5, SMT DEF Preflight
<1>6. CASE ClearAssets
  BY <1>6, SMT DEF ClearAssets
<1>7. CASE ClearPayload
  BY <1>7, SMT DEF ClearPayload
<1>8. CASE ClearManifest
  BY <1>8, SMT DEF ClearManifest
<1>9. CASE ClearProfiles
  BY <1>9, SMT DEF ClearProfiles
<1>10. CASE Align
  BY <1>10, SMT DEF Align
<1>11. CASE CopyKernel
  BY <1>11, SMT DEF CopyKernel
<1>12. CASE CopyInitrd
  BY <1>12, SMT DEF CopyInitrd
<1>13. CASE Extract
  BY <1>13, SMT DEF Extract
<1>14. CASE AddModules
  BY <1>14, SMT DEF AddModules
<1>15. CASE EnforceIsoScan
  BY <1>15, SMT DEF EnforceIsoScan
<1>16. CASE Repack
  BY <1>16, SMT DEF Repack
<1>17. CASE BuildFlavor
  BY <1>17, SMT DEF BuildFlavor
<1>18. CASE MoveAside
  BY <1>18, SMT DEF MoveAside
<1>19. CASE PublishProfiles
  BY <1>19, SMT DEF PublishProfiles
<1>20. CASE CopyPayload
  BY <1>20, SMT DEF CopyPayload
<1>21. CASE TruncateManifest
  BY <1>21, SMT DEF TruncateManifest
<1>22. CASE RecordManifest
  BY <1>22, SMT DEF RecordManifest
<1>23. CASE FinalizeAccess
  BY <1>23, SMT DEF FinalizeAccess
<1>24. CASE LookAtBundle
  BY <1>24, SMT DEF LookAtBundle
<1> QED
  BY <1>1, <1>2, <1>3, <1>4, <1>5, <1>6, <1>7, <1>8, <1>9, <1>10, <1>11, <1>12,
     <1>13, <1>14, <1>15, <1>16, <1>17, <1>18, <1>19, <1>20, <1>21, <1>22, <1>23, <1>24 DEF Next

-----------------------------------------------------------------------------

\* Before the first run nothing is accepted.
LEMMA Start == Init => IInv
<1> SUFFICES ASSUME Init PROVE IInv
  OBVIOUS
<1>1. TypeOK
  <2>1. bundle \in Bundle /\ tree \in [has : Seq(SUBSET Marks), changed : BOOLEAN]
    BY EmptyIsTyped DEF Init
  <2>2. /\ Len(bundle.kernel) <= 1 /\ Len(bundle.initrd) <= 1 /\ Len(bundle.payload) <= 1
        /\ Len(bundle.profiles) <= 1 /\ Len(tree.has) <= 1
    BY SMT DEF Init, Empty, NoTree
  <2>3. moved \in BOOLEAN /\ input \in Input /\ request \in Requests
    BY RequestsAssumption DEF Init
  <2>4. /\ staged \in Seq(Assets) /\ Len(staged) <= 2
        /\ backup \in Seq([Flavors -> Assets]) /\ Len(backup) <= 1 /\ backup = << >>
    BY SMT DEF Init
  <2>5. runs \in 0 .. MaxRuns /\ changes \in 0 .. MaxChanges /\ pc = "idle"
    BY BoundsAssumption, SMT DEF Init
  <2> QED
    BY <2>1, <2>2, <2>3, <2>4, <2>5 DEF TypeOK, Init
<1>2. pc = "idle" /\ bundle.manifest = "none"
  BY SMT DEF Init, Empty
<1>3. Places /\ ManifestFits /\ Progress /\ Flavored /\ Compared /\ AbisAgree
  BY <1>2, SMT DEF Places, ManifestFits, Progress, Flavored, Compared, AbisAgree, Preparation,
                   Profiling, Building, Copying
<1> QED
  BY <1>1, <1>3 DEF IInv

\* The inductive invariant.
LEMMA Invariance == Spec => []IInv
<1>1. IInv /\ [Next]_vars => IInv'
  <2> SUFFICES ASSUME IInv, [Next]_vars PROVE IInv'
    OBVIOUS
  <2>1. CASE Next
    BY <2>1, Types, PlacesStep, FlavorsStep, ProgressStep, ManifestStep, ComparedStep, Zenon DEF IInv
  <2>2. CASE UNCHANGED vars
    <3>1. TypeOK' /\ Places' /\ Flavored'
      BY <2>2 DEF vars, IInv, TypeOK, Places, Flavored, Preparation, Profiling, HasAssets, DerivedAssets
    <3>2. Progress' /\ ManifestFits'
      BY <2>2 DEF vars, IInv, Progress, ManifestFits, Building, Profiling, HasAssets, NoAssets,
                  Scanned, Consistent, Derived, DerivedAssets
    <3>3. Compared' /\ AbisAgree'
      BY <2>2 DEF vars, IInv, Compared, AbisAgree, Aligned, Disagree, Copying
    <3> QED
      BY <3>1, <3>2, <3>3 DEF IInv
  <2> QED
    BY <2>1, <2>2
<1> QED
  BY <1>1, Start, PTL DEF Spec

\* However many runs fail, die or follow one another, a bundle that the
\* validators accept is complete and its flavors derive from its shared assets.
THEOREM AcceptedBundlesWhole == Spec => []AcceptedIsWhole
<1>1. IInv => AcceptedIsWhole
  <2> SUFFICES ASSUME IInv, Accepted, NEW f \in Flavors
               PROVE  /\ bundle.profiles[1][f].kernel = bundle.kernel[1]
                      /\ bundle.profiles[1][f].initrd.version = bundle.initrd[1].version
                      /\ bundle.initrd[1].has \cup {"dispatch"} \subseteq bundle.profiles[1][f].initrd.has
                      /\ role = "netinst" => "iso_scan" \in bundle.initrd[1].has
    BY DEF AcceptedIsWhole
  <2>1. Consistent
    BY DEF IInv, ManifestFits, Accepted, NoAssets
  <2>2. DerivedAssets(bundle.profiles[1][f])
    BY <2>1 DEF Consistent, Derived, Accepted, Flavors
  <2> QED
    BY <2>1, <2>2 DEF Consistent, Scanned, DerivedAssets
<1> QED
  BY <1>1, Invariance, PTL

\* Kernel, initrd and ISO of a finished preparation agree unless a file was
\* replaced after the comparison; with modules, kernel and initrd always agree.
THEOREM BundlesAgree == Spec => []AbisAgree
<1>1. IInv => AbisAgree
  BY DEF IInv
<1> QED
  BY <1>1, Invariance, PTL

\* Every state is well typed, and a finished build belongs to the user.
THEOREM BundleTypes == Spec => []TypeOK
<1>1. IInv => TypeOK
  BY DEF IInv
<1> QED
  BY <1>1, Invariance, PTL
-----------------------------------------------------------------------------
(* The flavors apart.                                                      *)

\* What only a flavor adds to an initrd.
Added == {"dispatch", "desktop_overlay", "server_overlay"}
ForDesktop(a) == "server_overlay" \notin a.initrd.has
ForServer(a) == {"desktop_overlay", "preseed"} \cap a.initrd.has = {}
Apart(profiles) ==
  profiles # << >> => ForDesktop(profiles[1]["desktop"]) /\ ForServer(profiles[1]["server"])

\* Shared archives and trees are free of additions, wherever they are, and
\* flavors of each other's, in place, staged or moved aside.
IsolInv ==
  /\ input.initrd.has \cap Added = {}
  /\ bundle.initrd # << >> => bundle.initrd[1].has \cap Added = {}
  /\ tree.has # << >> => tree.has[1] \cap Added = {}
  /\ Len(staged) >= 1 => ForDesktop(staged[1])
  /\ Len(staged) >= 2 => ForServer(staged[2])
  /\ Apart(bundle.profiles) /\ Apart(backup)

\* A replaced download is a stock one.
LEMMA InputsApart ==
  ASSUME IInv, IsolInv, ReplaceInput
  PROVE  input'.initrd.has \cap Added = {}
<1>1. PICK v, w \in {1, 2} :
        \/ input' = [input EXCEPT !.kernel = v]
        \/ input' = [input EXCEPT !.initrd.version = v]
        \/ input' = [input EXCEPT !.iso = [kernel |-> v, initrd |-> w]]
  BY DEF ReplaceInput
<1>2. input \in [kernel : Versions, initrd : Archive, iso : Iso] /\ input.initrd \in [version : Versions, has : SUBSET Marks]
  BY DEF IInv, TypeOK, Input, Archive
<1>3. input'.initrd.has = input.initrd.has
  BY <1>1, <1>2
<1> QED BY <1>3 DEF IsolInv

\* A flavor gets what is its own, on top of the shared archive.
LEMMA BuildApart ==
  ASSUME IInv, IsolInv, BuildFlavor
  PROVE  /\ Len(staged') >= 1 => ForDesktop(staged'[1])
         /\ Len(staged') >= 2 => ForServer(staged'[2])
<1> DEFINE a == [kernel |-> bundle.kernel[1],
                 initrd |-> [bundle.initrd[1] EXCEPT !.has = @ \cup Additions(NextFlavor)]]
<1>1. /\ staged' = Append(staged, a) /\ staged \in Seq(Assets) /\ Len(staged) \in Nat /\ Len(staged) < 2
      /\ bundle.initrd # << >> /\ "preseed" \notin bundle.initrd[1].has
  BY DEF BuildFlavor, IInv, TypeOK, Flavored
<1>2. bundle.initrd[1] \in Archive
  BY <1>1, ElementOfSeq DEF IInv, TypeOK, Bundle
<1>3. a.initrd.has = bundle.initrd[1].has \cup Additions(NextFlavor)
  BY <1>2 DEF Archive
<1>4. a \in Assets
  <2>1. bundle.kernel[1] \in Versions
    BY ElementOfSeq, SMT DEF BuildFlavor, IInv, TypeOK, Bundle
  <2>2. bundle.initrd[1].has \cup Additions(NextFlavor) \in SUBSET Marks
    BY <1>2 DEF Archive, Additions, Overlay, Marks
  <2>3. [bundle.initrd[1] EXCEPT !.has = bundle.initrd[1].has \cup Additions(NextFlavor)] \in Archive
    BY <1>2, <2>2, Packed, Zenon
  <2> QED BY <2>1, <2>3 DEF Assets
<1>5. Len(staged) = 0 \/ Len(staged) = 1
  BY <1>1, BelowTwo
<1>6. bundle.initrd[1].has \cap Added = {}
  BY <1>1 DEF IsolInv
<1> HIDE DEF a
<1>7. CASE Len(staged) = 0
  <2>1. NextFlavor = "desktop"
    BY <1>7 DEF NextFlavor, Order
  <2>2. "server_overlay" \notin a.initrd.has
    BY <2>1, <1>3, <1>6 DEF Additions, Overlay, Added
  <2>3. Len(staged') = 1 /\ staged'[1] = a
    BY <1>1, <1>7
  <2> QED BY <2>2, <2>3 DEF ForDesktop
<1>8. CASE Len(staged) = 1
  <2>1. NextFlavor = "server"
    BY <1>8 DEF NextFlavor, Order
  <2>2. {"desktop_overlay", "preseed"} \cap a.initrd.has = {}
    BY <2>1, <1>1, <1>3, <1>6 DEF Additions, Overlay, Added
  <2>3. staged'[1] = staged[1] /\ staged'[2] = a
    BY <1>1, <1>8, <1>4, AppendProperties
  <2> QED BY <2>2, <2>3, <1>8 DEF ForDesktop, ForServer, IsolInv
<1> QED BY <1>5, <1>7, <1>8

\* Nothing crosses, at any step of any run.
LEMMA Isolated == Spec => []IsolInv
<1>1. Init => IsolInv
  <2> SUFFICES ASSUME Init PROVE IsolInv
    OBVIOUS
  <2>1. input.initrd.has \cap Added = {}
    BY StockAssumption DEF Init, Added
  <2> QED BY <2>1 DEF Init, IsolInv, Empty, NoTree, Apart
<1>2. IInv /\ IsolInv /\ [Next]_vars => IsolInv'
  <2> SUFFICES ASSUME IInv, IsolInv, [Next]_vars PROVE IsolInv'
    OBVIOUS
  <2> USE DEF history, downloads, work
  <2>0. TypeOK /\ bundle \in Bundle
    BY DEF IInv, TypeOK
  <2>1. CASE Begin
    BY <2>1 DEF Begin, IsolInv, NoTree, Apart
  <2>2. CASE ReplaceInput
    BY <2>2, InputsApart DEF ReplaceInput, IsolInv
  <2>3. CASE Fails
    BY <2>0, <2>3 DEF Fails, IsolInv, NoTree, Apart, Bundle
  <2>4. CASE Kill \/ Preflight \/ Align
    BY <2>4 DEF Kill, Preflight, Align, IsolInv
  <2>5. CASE ClearAssets \/ ClearPayload \/ ClearManifest \/ ClearProfiles
    BY <2>0, <2>5 DEF ClearAssets, ClearPayload, ClearManifest, ClearProfiles, IsolInv, Apart, Bundle
  <2>6. CASE CopyKernel \/ CopyInitrd \/ CopyPayload
    <3>1. CASE CopyKernel \/ CopyPayload
      BY <2>0, <3>1 DEF CopyKernel, CopyPayload, IsolInv, Bundle
    <3>2. CASE CopyInitrd
      <4>1. bundle'.initrd = <<input.initrd>> /\ bundle'.profiles = bundle.profiles
        BY <2>0, <3>2 DEF CopyInitrd, Bundle
      <4>2. bundle'.initrd[1].has \cap Added = {}
        BY <4>1 DEF IsolInv
      <4> QED BY <3>2, <4>1, <4>2 DEF CopyInitrd, IsolInv
    <3> QED BY <2>6, <3>1, <3>2
  <2>7. CASE Extract
    <3>1. bundle.initrd # << >>
      BY <2>7 DEF Extract, IInv, Progress, HasAssets
    <3> QED BY <2>7, <3>1 DEF Extract, IsolInv
  <2>8. CASE AddModules \/ EnforceIsoScan
    <3>1. tree.has # << >>
      BY <2>8 DEF AddModules, EnforceIsoScan, IInv, Progress
    <3>2. tree' = tree \/ Edit({"modules"}) \/ Edit({"iso_scan"})
      BY <2>8 DEF AddModules, EnforceIsoScan
    <3>3. tree'.has # << >> => tree'.has[1] \cap Added = {}
      BY <3>1, <3>2 DEF Edit, IsolInv, Added
    <3> QED BY <2>8, <3>3 DEF AddModules, EnforceIsoScan, IsolInv
  <2>9. CASE Repack
    <3>1. tree.has # << >> /\ bundle.initrd # << >>
      BY <2>9 DEF Repack, IInv, Progress, HasAssets
    <3>2. bundle'.initrd[1].has \cap Added = {} /\ bundle'.profiles = bundle.profiles
      <4>1. bundle.initrd[1] \in Archive
        BY <2>0, <3>1, ElementOfSeq DEF Bundle
      <4>2. CASE tree.changed
        <5> DEFINE b == [bundle.initrd[1] EXCEPT !.has = tree.has[1]]
        <5>1. bundle' = [bundle EXCEPT !.initrd = <<b>>]
          BY <2>9, <4>2 DEF Repack
        <5>2. b.has = tree.has[1]
          BY <4>1 DEF Archive
        <5> HIDE DEF b
        <5>3. bundle'.initrd[1] = b /\ bundle'.profiles = bundle.profiles
          BY <2>0, <5>1 DEF Bundle
        <5> QED BY <3>1, <5>2, <5>3 DEF IsolInv
      <4>3. CASE ~tree.changed
        BY <2>9, <3>1, <4>3 DEF Repack, IsolInv
      <4> QED BY <4>2, <4>3
    <3> QED BY <2>9, <3>2 DEF Repack, IsolInv, NoTree
  <2>10. CASE BuildFlavor
    BY <2>10, BuildApart DEF BuildFlavor, IsolInv
  <2>11. CASE MoveAside
    BY <2>0, <2>11 DEF MoveAside, IsolInv, Apart, Bundle
  <2>12. CASE PublishProfiles
    <3>1. Len(staged) = 2
      BY <2>12 DEF PublishProfiles, IInv, Flavored
    <3>2. bundle'.profiles[1]["desktop"] = staged[1] /\ bundle'.profiles[1]["server"] = staged[2]
          /\ bundle'.initrd = bundle.initrd
      BY <2>0, <2>12 DEF PublishProfiles, Bundle
    <3> QED BY <2>12, <3>1, <3>2 DEF PublishProfiles, IsolInv, Apart
  <2>13. CASE TruncateManifest \/ RecordManifest \/ FinalizeAccess \/ LookAtBundle
    BY <2>0, <2>13 DEF TruncateManifest, RecordManifest, FinalizeAccess, LookAtBundle, IsolInv, Bundle
  <2>14. CASE UNCHANGED vars
    BY <2>14 DEF vars, IsolInv
  <2> QED BY <2>1, <2>2, <2>3, <2>4, <2>5, <2>6, <2>7, <2>8, <2>9, <2>10, <2>11, <2>12, <2>13, <2>14 DEF Next
<1> QED BY <1>1, <1>2, Invariance, PTL DEF Spec

\* From mirrors whose initrds are stock, no overlay and no preseed of one flavor
\* ever reaches the other one or the shared initrd of a bundle, through any
\* number of runs, failures and replaced downloads.
THEOREM FlavorsStayApart == Spec => []FlavorsIsolated
<1>1. IInv /\ IsolInv => FlavorsIsolated
  <2> SUFFICES ASSUME IInv, IsolInv, bundle.profiles # << >> PROVE FlavorsIsolated
    BY DEF FlavorsIsolated
  <2>1. ForDesktop(bundle.profiles[1]["desktop"]) /\ ForServer(bundle.profiles[1]["server"])
    BY DEF IsolInv, Apart
  <2>2. ASSUME bundle.initrd # << >>, Accepted
        PROVE  bundle.initrd[1].has \cap {"preseed", "dispatch", "desktop_overlay", "server_overlay"} = {}
    <3>1. DerivedAssets(bundle.profiles[1]["server"])
      BY <2>2 DEF IInv, ManifestFits, Accepted, NoAssets, Consistent, Derived
    <3>2. "preseed" \notin bundle.initrd[1].has
      BY <2>1, <3>1 DEF DerivedAssets, ForServer
    <3> QED BY <2>2, <3>2 DEF IsolInv, Added
  <2> QED BY <2>1, <2>2 DEF FlavorsIsolated, ForDesktop, ForServer
<1> QED BY <1>1, Isolated, Invariance, PTL
=============================================================================
