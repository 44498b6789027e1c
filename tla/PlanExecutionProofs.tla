------------------------ MODULE PlanExecutionProofs ------------------------
(* Safety of PlanExecution for every plan, every number of sources and every  *)
(* set of disks.                                                              *)
EXTENDS PlanExecution, TLAPS

\* What a prepared image of item it owes to the plan.
Good(it, img) ==
  /\ img.form # "none"
  /\ plan.mode = "direct" \/ it.profile = "tails" => img.form # "remastered"
  /\ plan.mode # "direct" /\ it.profile \in {"debian", "kali"} /\ it.role = "primary"
       /\ (it.prep \/ it.live) => img.form = "remastered"
  /\ plan.mode # "direct" /\ it.encrypted /\ (img.form = "remastered" \/ IsLive(it, img))
       => img.inspected /\ img.insp.luks

Stored(it, img) ==
  Good(it, img) /\ (plan.mode = "multi_os" => img.locator = IsoName(it, img.form))

Selecting == pc \in {"select", "materialize", "bundle", "inspect", "decide", "remaster",
                     "reinspect", "store"}
Preparing == pc \in {"materialize", "bundle", "inspect", "decide", "remaster", "reinspect",
                     "store"}
AllPrepared == pc \in {"recheck", "launch", "writing", "written", "damaged"}

PreparedSoFar ==
  /\ pc = "check" => idx = 1
  /\ Selecting => \A j \in Items : j < idx => Stored(plan.items[j], exec[j])
  /\ AllPrepared => \A j \in Items : Stored(plan.items[j], exec[j])

\* The item in hand passed the guards on the way to pc.
Current ==
  /\ Preparing => ~StockOnly(item)
  /\ pc \in {"bundle", "inspect"} => item.prep
  /\ pc \in {"bundle", "inspect", "decide"} => cur.form \in {"source", "bundle"}
  /\ pc = "decide" /\ item.prep => cur.inspected /\ SelectionFits(item, cur.insp)
  /\ pc \in {"remaster", "reinspect"} => plan.mode # "direct" /\ item.profile # "tails"
  /\ pc = "reinspect" => cur.form = "remastered"
  /\ pc = "store" => Good(item, cur)

Target ==
  /\ pc = "launch" /\ ~lateSwap => TargetMatches
  /\ Launched <=> pc \in {"writing", "written", "damaged"}
  /\ Launched => /\ usb.disk \in Disks
                 /\ \A i \in Items : Stored(plan.items[i], usb.payload[i])
                 /\ plan.device # NoIdentity /\ ~lateSwap =>
                      Ident[usb.disk] = plan.device /\ usb.disk \in Eligible

IInv == TypeOK /\ PreparedSoFar /\ Current /\ Target

-----------------------------------------------------------------------------

\* What a confirmed plan has.
LEMMA PlanFacts ==
  ASSUME plan \in Plans
  PROVE  /\ plan.mode \in {"direct", "managed", "multi_os"}
         /\ plan.items \in Seq(ItemPlan)
         /\ Items = 1 .. Len(plan.items)
         /\ Len(plan.items) \in Nat \ {0}
         /\ \A i \in Items : plan.items[i] \in ItemPlan
BY PlansAssumption DEF PlanType, Items

\* The values that stand for no inspection and no image have their types.
LEMMA ImageFacts ==
  /\ NotInspected \in Inspection
  /\ NoImage \in Image
BY DEF NotInspected, Inspection, NoImage, Image, Bytes

\* Every state is well typed: the program never leaves its plan.
THEOREM TypeCorrect == Spec => []TypeOK
<1>1. Init => TypeOK
  <2> SUFFICES ASSUME Init PROVE TypeOK
    OBVIOUS
  <2>1. 1 \in Items
    BY PlanFacts DEF Init
  <2> QED BY <2>1, ImageFacts DEF Init, TypeOK, Bytes
<1>2. TypeOK /\ [Next]_vars => TypeOK'
  <2> SUFFICES ASSUME TypeOK, [Next]_vars PROVE TypeOK'
    OBVIOUS
  <2> USE PlanFacts, ImageFacts
  <2>0. plan' = plan /\ Items' = Items
    BY DEF Next, Unattended, Prepare, CheckTarget, RecheckTarget, Verify, ValidateItem, RejectItem,
           Refuse, Goto, Select, RejectSelection, Materialize, MaterializeFails, Bundle, Inspect,
           KeepSource, RejectRemaster, ChooseRemaster, Remaster, Reinspect, Store, HelperFails,
           Launch, LaunchFails, WriterEnds, Idle, SwapDisk, ReplaceFile, vars, Items
  <2>1. CASE UNCHANGED vars
    BY <2>1 DEF vars, TypeOK, Items
  <2>2. CASE SwapDisk
    BY <2>2, <2>0 DEF SwapDisk, TypeOK
  <2>3. CASE ReplaceFile
    BY <2>3, <2>0 DEF ReplaceFile, TypeOK, Bytes
  <2>4. CASE Idle
    BY <2>4 DEF Idle, vars, TypeOK, Items
  <2>5. CASE CheckTarget \/ RecheckTarget
    BY <2>5, <2>0 DEF CheckTarget, RecheckTarget, Verify, Goto, TypeOK, envVars
  <2>6. CASE ValidateItem
    BY <2>6, <2>0 DEF ValidateItem, Goto, TypeOK, envVars
  <2>7. CASE RejectItem \/ RejectSelection \/ MaterializeFails \/ RejectRemaster \/ HelperFails
             \/ LaunchFails
    BY <2>7, <2>0 DEF RejectItem, RejectSelection, MaterializeFails, RejectRemaster, HelperFails,
                      LaunchFails, Refuse, Goto, TypeOK, envVars
  <2>8. CASE Select \/ KeepSource \/ ChooseRemaster \/ WriterEnds
    BY <2>8, <2>0 DEF Select, KeepSource, ChooseRemaster, WriterEnds, Goto, TypeOK, envVars
  <2>9. CASE Materialize
    BY <2>9, <2>0 DEF Materialize, Goto, TypeOK, envVars, Image
  <2>10. CASE Bundle
    BY <2>10, <2>0 DEF Bundle, Goto, TypeOK, envVars, Image
  <2>11. CASE Inspect
    BY <2>11, <2>0 DEF Inspect, Goto, TypeOK, envVars, Image
  <2>12. CASE Remaster
    BY <2>12, <2>0 DEF Remaster, Goto, TypeOK, envVars, Image
  <2>13. CASE Reinspect
    BY <2>13, <2>0 DEF Reinspect, Goto, TypeOK, envVars, Image
  <2>14. CASE Store
    <3>1. IsoName(item, cur.form) \in {"none", "original", "remastered"}
      BY DEF IsoName
    <3>2. Named(item, cur) \in Image
      BY <3>1 DEF TypeOK, Image, Named
    <3> QED BY <2>14, <2>0, <3>2 DEF Store, Goto, TypeOK, envVars
  <2>15. CASE Launch
    <3>1. \A i \in Items : Staged(i) \in Image
      BY DEF Staged, TypeOK, Image
    <3>2. connected \in Disks
      BY <2>15 DEF Launch, TypeOK
    <3> QED BY <2>15, <2>0, <3>1, <3>2 DEF Launch, Goto, TypeOK, envVars
  <2> QED
    BY <2>1, <2>2, <2>3, <2>4, <2>5, <2>6, <2>7, <2>8, <2>9, <2>10, <2>11, <2>12, <2>13, <2>14,
       <2>15 DEF Next, Unattended, Prepare
<1> QED BY <1>1, <1>2, PTL DEF Spec

-----------------------------------------------------------------------------

\* One step leaves the plan alone; Good and Stored are then the same after it.
LEMMA PlanFixed ==
  ASSUME [Next]_vars
  PROVE  /\ plan' = plan /\ Items' = Items
         /\ \A it, img : Stored(it, img)' <=> Stored(it, img)
         /\ \A it, img : Good(it, img)' <=> Good(it, img)
<1>1. plan' = plan
  BY DEF Next, Unattended, Prepare, CheckTarget, RecheckTarget, Verify, ValidateItem, RejectItem,
         Refuse, Goto, Select, RejectSelection, Materialize, MaterializeFails, Bundle, Inspect,
         KeepSource, RejectRemaster, ChooseRemaster, Remaster, Reinspect, Store, HelperFails,
         Launch, LaunchFails, WriterEnds, Idle, SwapDisk, ReplaceFile, vars
<1> QED BY <1>1 DEF Items, Good, Stored

\* The steps that end the plan or leave the prepared images alone.
LEMMA QuietSteps ==
  ASSUME IInv, TypeOK', [Next]_vars,
         \/ UNCHANGED vars \/ SwapDisk \/ ReplaceFile \/ Idle
         \/ CheckTarget \/ RecheckTarget \/ WriterEnds
         \/ RejectItem \/ RejectSelection \/ MaterializeFails \/ RejectRemaster \/ HelperFails
         \/ LaunchFails
  PROVE  IInv'
<1> USE PlanFixed DEF IInv
<1>1. CASE UNCHANGED vars \/ Idle
  BY <1>1 DEF vars, Idle, PreparedSoFar, Current, Target, Selecting, Preparing, AllPrepared, Items,
              item, Launched, TargetMatches
<1>2. CASE SwapDisk \/ ReplaceFile
  BY <1>2 DEF SwapDisk, ReplaceFile, PreparedSoFar, Current, Target, Selecting, Preparing,
              AllPrepared, Items, item, Launched, TargetMatches, NoUsb
<1>3. CASE CheckTarget \/ RecheckTarget
  BY <1>3, PlanFacts DEF CheckTarget, RecheckTarget, Verify, Goto, PreparedSoFar, Current, Target,
                         Selecting, Preparing, AllPrepared, item, Launched, TargetMatches, TypeOK,
                         envVars
<1>4. CASE WriterEnds
  BY <1>4 DEF WriterEnds, Goto, envVars, PreparedSoFar, Current, Target, Selecting, Preparing,
              AllPrepared, item, Launched, TargetMatches
<1>5. CASE RejectItem \/ RejectSelection \/ MaterializeFails \/ RejectRemaster \/ HelperFails
             \/ LaunchFails
  BY <1>5 DEF RejectItem, RejectSelection, MaterializeFails, RejectRemaster, HelperFails,
              LaunchFails, Refuse, Goto, envVars, PreparedSoFar, Current, Target, Selecting,
              Preparing, AllPrepared, item, Launched, TargetMatches
<1> QED BY <1>1, <1>2, <1>3, <1>4, <1>5

\* The steps of prepareSelectedSource that go on with the item in hand.
LEMMA PrepareSteps ==
  ASSUME IInv, TypeOK', [Next]_vars,
         \/ ValidateItem \/ Select \/ Materialize \/ Bundle \/ Inspect \/ KeepSource
         \/ ChooseRemaster \/ Remaster \/ Reinspect
  PROVE  IInv'
<1> USE PlanFixed DEF IInv, Goto, envVars
<1>1. CASE ValidateItem
  BY <1>1, PlanFacts DEF ValidateItem, TypeOK, PreparedSoFar, Current, Target, Selecting,
                         Preparing, AllPrepared, item, Launched
<1>2. CASE Select
  BY <1>2 DEF Select, PreparedSoFar, Current, Target, Selecting, Preparing, AllPrepared, item,
              StockOnly, Launched
<1>3. CASE Materialize
  BY <1>3 DEF Materialize, PreparedSoFar, Current, Target, Selecting, Preparing, AllPrepared, item,
              StockOnly, Launched, NoImage
<1>4. CASE Bundle
  BY <1>4 DEF Bundle, TypeOK, Image, PreparedSoFar, Current, Target, Selecting, Preparing,
              AllPrepared, item, StockOnly, Launched
<1>5. CASE Inspect
  <2>1. PICK in \in Inspection :
          /\ cur'.inspected /\ cur'.insp = in /\ cur'.form = cur.form
          /\ (pc' = "decide" /\ SelectionFits(item, in)) \/ pc' = "refused"
    BY <1>5 DEF Inspect, TypeOK, Image
  <2> QED BY <1>5, <2>1 DEF Inspect, PreparedSoFar, Current, Target, Selecting, Preparing,
                            AllPrepared, item, StockOnly, SelectionFits, Launched
<1>6. CASE KeepSource
  BY <1>6 DEF KeepSource, PreparedSoFar, Current, Target, Selecting, Preparing, AllPrepared, item,
              StockOnly, Launched, Good, IsLive, NeedCrypto, NeedsRemaster, HasOverlay,
              SelectionFits
<1>7. CASE ChooseRemaster
  BY <1>7 DEF ChooseRemaster, PreparedSoFar, Current, Target, Selecting, Preparing, AllPrepared,
              item, StockOnly, Launched, NeedCrypto, NeedsRemaster, HasOverlay
<1>8. CASE Remaster
  BY <1>8 DEF Remaster, PreparedSoFar, Current, Target, Selecting, Preparing, AllPrepared, item,
              StockOnly, Launched, NoImage, Good, IsLive
<1>9. CASE Reinspect
  <2>1. PICK in \in Inspection :
          /\ cur'.inspected /\ cur'.insp = in /\ cur'.form = cur.form
          /\ (pc' = "store" /\ (item.encrypted => in.luks)) \/ pc' = "refused"
    BY <1>9 DEF Reinspect, TypeOK, Image
  <2> QED BY <1>9, <2>1 DEF Reinspect, PreparedSoFar, Current, Target, Selecting, Preparing,
                            AllPrepared, item, StockOnly, Launched, Good
<1> QED BY <1>1, <1>2, <1>3, <1>4, <1>5, <1>6, <1>7, <1>8, <1>9

\* An image is put in the cache.
LEMMA StoreStep ==
  ASSUME IInv, TypeOK', [Next]_vars, Store
  PROVE  IInv'
<1> USE PlanFixed DEF IInv, Goto, envVars
<1>0. Items = 1 .. Len(plan.items) /\ Len(plan.items) \in Nat \ {0} /\ idx \in Items
  BY PlanFacts DEF TypeOK
<1> DEFINE img == Named(item, cur)
<1>1. Stored(item, img)
  <2>1. /\ img.form = cur.form /\ img.inspected = cur.inspected /\ img.insp = cur.insp
        /\ plan.mode = "multi_os" => img.locator = IsoName(item, cur.form)
    BY DEF TypeOK, Image, Named
  <2>2. Good(item, cur)
    BY DEF Store, Current
  <2> QED BY <2>1, <2>2 DEF Stored, Good, IsLive
<1>2. exec' = [exec EXCEPT ![idx] = img] /\ exec \in [Items -> Image] /\ idx \in Items
  BY DEF Store, TypeOK
<1> HIDE DEF img
<1>3. \A j \in Items : j <= idx => Stored(plan.items[j], exec'[j])
  <2>1. \A j \in Items : j < idx => Stored(plan.items[j], exec[j])
    BY DEF Store, PreparedSoFar, Selecting
  <2> SUFFICES ASSUME NEW j \in Items, j <= idx PROVE Stored(plan.items[j], exec'[j])
    OBVIOUS
  <2>2. CASE j = idx
    BY <2>2, <1>1, <1>2 DEF item
  <2>3. CASE j # idx
    <3>1. exec'[j] = exec[j] /\ j < idx
      BY <2>3, <1>0, <1>2
    <3> QED BY <3>1, <2>1
  <2> QED BY <2>2, <2>3
<1>4. PreparedSoFar'
  <2>1. CASE idx = Len(plan.items)
    BY <2>1, <1>0, <1>3 DEF Store, PreparedSoFar, Selecting, AllPrepared
  <2>2. CASE idx # Len(plan.items)
    BY <2>2, <1>0, <1>3 DEF Store, PreparedSoFar, Selecting, AllPrepared
  <2> QED BY <2>1, <2>2
<1>5. Current' /\ Target'
  BY DEF Store, Current, Target, Preparing, Launched
<1> QED BY <1>4, <1>5

\* The writer is started.
LEMMA LaunchStep ==
  ASSUME IInv, TypeOK', [Next]_vars, Launch
  PROVE  IInv'
<1> USE PlanFixed DEF IInv, Goto, envVars
<1>1. /\ usb'.disk = connected /\ lateSwap' = lateSwap
      /\ usb'.payload = [i \in Items |-> Staged(i)]
      /\ connected \in Disks /\ Launched'
  BY DisksAssumption DEF Launch, TypeOK, Launched, NoUsb
<1>2. \A i \in Items : Stored(plan.items[i], Staged(i))
  <2> SUFFICES ASSUME NEW i \in Items PROVE Stored(plan.items[i], Staged(i))
    OBVIOUS
  <2>1. exec[i] \in Image /\ Stored(plan.items[i], exec[i])
    BY DEF Launch, PreparedSoFar, AllPrepared, TypeOK
  <2>2. /\ Staged(i).form = exec[i].form /\ Staged(i).inspected = exec[i].inspected
        /\ Staged(i).insp = exec[i].insp /\ Staged(i).locator = exec[i].locator
    BY <2>1 DEF Staged, Image
  <2> QED BY <2>1, <2>2 DEF Stored, Good, IsLive
<1>3. plan.device # NoIdentity /\ ~lateSwap => Ident[connected] = plan.device /\ connected \in Eligible
  BY DEF Launch, Target, TargetMatches
<1>4. Target'
  BY <1>1, <1>2, <1>3 DEF Launch, Target
<1>5. PreparedSoFar' /\ Current'
  BY DEF Launch, PreparedSoFar, Current, Selecting, Preparing, AllPrepared
<1> QED BY <1>4, <1>5

\* The inductive invariant.
LEMMA Invariance == Spec => []IInv
<1>1. Init => IInv
  <2> SUFFICES ASSUME Init PROVE IInv
    OBVIOUS
  <2>0. 1 \in Items
    BY PlanFacts DEF Init
  <2>1. TypeOK
    BY <2>0, ImageFacts DEF Init, TypeOK, Bytes
  <2> QED BY <2>1 DEF Init, IInv, PreparedSoFar, Current, Target, Selecting, Preparing, AllPrepared,
                      Launched
<1>2. IInv /\ TypeOK' /\ [Next]_vars => IInv'
  BY QuietSteps, PrepareSteps, StoreStep, LaunchStep DEF Next, Unattended, Prepare
<1> QED BY <1>1, <1>2, TypeCorrect, PTL DEF Spec

-----------------------------------------------------------------------------

\* The disk the writer is started on is the reviewed, eligible one unless it was
\* swapped after the last check.
THEOREM ReviewedDiskOnly == Spec => []OnlyReviewedDisk
<1>1. IInv => OnlyReviewedDisk
  BY DEF IInv, Target, OnlyReviewedDisk
<1> QED BY <1>1, Invariance, PTL

\* Every staged image is what its item was reviewed to be: stock for direct
\* writes and Tails, remastered where the mandatory policy applies, inspected
\* where it is encrypted, and known to GRUB by its own name.
THEOREM ImagesAsReviewed == Spec => []PreparedAsReviewed
<1>1. IInv => PreparedAsReviewed
  <2> SUFFICES ASSUME IInv PROVE PreparedAsReviewed
    OBVIOUS
  <2>1. StockImagesStayStock
    BY DEF IInv, Target, Stored, Good, StockImagesStayStock
  <2>2. MandatoryPolicyApplied
    BY DEF IInv, Target, Stored, Good, MandatoryPolicyApplied
  <2>3. EncryptedImagesInspected
    BY DEF IInv, Target, Stored, Good, EncryptedImagesInspected
  <2>4. LocatorMatchesImage
    BY DEF IInv, Target, Stored, LocatorMatchesImage
  <2> QED BY <2>1, <2>2, <2>3, <2>4 DEF PreparedAsReviewed
<1> QED BY <1>1, Invariance, PTL

-----------------------------------------------------------------------------

\* The steps of the program before the writer starts, seen from ReviewedWrite,
\* refuse the plan or change nothing.
LEMMA PreparingRefines ==
  ASSUME IInv, [Next]_vars, ~Launch, ~WriterEnds
  PROVE  RW!Refuse \/ UNCHANGED RW!rvars
<1> USE PlanFixed DEF RW!Refuse, RW!rvars, Stage, Goto, envVars
<1>1. CASE UNCHANGED vars \/ Idle \/ SwapDisk \/ ReplaceFile
  BY <1>1 DEF vars, Idle, SwapDisk, ReplaceFile
<1>2. CASE CheckTarget \/ RecheckTarget
  BY <1>2 DEF CheckTarget, RecheckTarget, Verify
<1>3. CASE RejectItem \/ RejectSelection \/ MaterializeFails \/ RejectRemaster \/ HelperFails
             \/ LaunchFails
  BY <1>3 DEF RejectItem, RejectSelection, MaterializeFails, RejectRemaster, HelperFails,
              LaunchFails, Refuse
<1>4. CASE ValidateItem \/ Select \/ Materialize \/ Bundle \/ KeepSource \/ ChooseRemaster
             \/ Remaster \/ Store
  BY <1>4 DEF ValidateItem, Select, Materialize, Bundle, KeepSource, ChooseRemaster, Remaster,
              Store
<1>5. CASE Inspect \/ Reinspect
  BY <1>5 DEF Inspect, Reinspect
<1> QED BY <1>1, <1>2, <1>3, <1>4, <1>5 DEF Next, Unattended, Prepare

\* The writer is started on the reviewed disk with the reviewed images, as the abstract specification has it.
LEMMA LaunchRefines ==
  ASSUME IInv, [Next]_vars, Launch
  PROVE  RW!StartWriter
<1>1. plan' = plan /\ Items = 1 .. Len(plan.items)
  BY PlanFixed, PlanFacts DEF IInv, TypeOK
<1>2. \A i \in Items : Staged(i) \in Image \ {NoImage}
  <2> SUFFICES ASSUME NEW i \in Items PROVE Staged(i) \in Image /\ Staged(i).form # "none"
    BY DEF NoImage
  <2>1. exec[i] \in Image /\ exec[i].form # "none" /\ files[i] \in Bytes
    BY DEF Launch, IInv, TypeOK, PreparedSoFar, AllPrepared, Stored, Good
  <2> QED BY <2>1 DEF Staged, Image
<1>3. connected \in Disks
  BY DEF Launch, IInv, TypeOK
<1> QED BY <1>1, <1>2, <1>3 DEF Launch, Goto, RW!StartWriter, Stage

\* Every behaviour of the program is one ReviewedWrite allows: the disk is left
\* alone until every source is prepared, and the writer runs at most once.
THEOREM Refinement == Spec => RW!Init /\ [][RW!Next]_(RW!rvars)
<1>1. Init => RW!Init
  BY PlanFacts DEF Init, RW!Init, Stage, NoUsb
<1>2. IInv /\ [Next]_vars => [RW!Next]_(RW!rvars)
  <2> SUFFICES ASSUME IInv, [Next]_vars PROVE [RW!Next]_(RW!rvars)
    OBVIOUS
  <2>1. CASE Launch
    BY <2>1, LaunchRefines DEF RW!Next
  <2>2. CASE WriterEnds
    BY <2>2, PlanFixed DEF WriterEnds, Goto, RW!Next, RW!FinishWriter, Stage
  <2>3. CASE ~Launch /\ ~WriterEnds
    BY <2>3, PreparingRefines DEF RW!Next
  <2> QED BY <2>1, <2>2, <2>3
<1> QED BY <1>1, <1>2, Invariance, PTL DEF Spec
=============================================================================
