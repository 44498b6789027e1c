------------------------ MODULE InitrdArchiveProofs ------------------------
(* Repacking an initrd, for archives of any length and any number of runs. *)
EXTENDS InitrdArchive, WellFoundedInduction, TLAPS

\* A sequence, of whatever it is made.
IsArchive(a) == a \in Seq(Range(a))

\* The two ways in which segment m of archive a is the main one: the walk stops
\* there, or it never stops and m is the last cpio archive.
StopsAt(a, m) ==
  /\ m \in DOMAIN a /\ IsCompressed(a[m])
  /\ \A j \in DOMAIN a : j < m => a[j].kind \in {"zero", "cpio"}

EndsOn(a, m) ==
  /\ m \in DOMAIN a /\ a[m].kind = "cpio"
  /\ \A j \in DOMAIN a : a[j].kind \in {"zero", "cpio"} /\ (a[j].kind = "cpio" => j <= m)

Working == {"clear", "write", "check failed", "replace"}

IInv ==
  /\ pc \in Working \cup {"extract", "mode", "done", "failed", "killed"}
  /\ IsArchive(archive)
  /\ pc \in Working => Main(archive) # 0
  /\ pc = "replace" => temp = <<Repacked(archive, tree)>>
  /\ EarlySegmentsKept

-----------------------------------------------------------------------------
\* Sets of indices have a least and a greatest element.

LEMMA Least ==
  ASSUME NEW T \in SUBSET Nat, T # {}
  PROVE  \E x \in T : \A y \in T : x <= y
<1> DEFINE Less == {p \in Nat \X Nat : p[1] < p[2]}
<1>1. IsWellFoundedOn(Less, Nat)
  BY NatLessThanWellFounded DEF OpToRel
<1>2. PICK x \in T : \A y \in T : ~(<<y, x>> \in Less)
  BY <1>1, WFMin
<1>3. ASSUME NEW y \in T PROVE x <= y
  <2>1. x \in Nat /\ y \in Nat /\ (y < x => <<y, x>> \in Less)
    OBVIOUS
  <2> QED BY <1>2, <2>1
<1> QED BY <1>3

\* A set of numbers up to n has a greatest member.
LEMMA Greatest ==
  ASSUME NEW n \in Nat, NEW T \in SUBSET (1 .. n), T # {}
  PROVE  \E x \in T : \A y \in T : y <= x
<1> DEFINE Far == {n - y : y \in T}
<1>1. Far \in SUBSET Nat /\ Far # {}
  <2>1. \A y \in T : n - y \in Nat
    OBVIOUS
  <2> QED BY <2>1
<1>2. PICK d \in Far : \A e \in Far : d <= e
  BY <1>1, Least
<1>3. PICK x \in T : d = n - x
  OBVIOUS
<1>4. ASSUME NEW y \in T PROVE y <= x
  <2>1. n - y \in Far
    OBVIOUS
  <2>2. n - x <= n - y
    BY <1>2, <1>3, <2>1
  <2> QED BY <2>2
<1> QED BY <1>4

\* The positions of an archive.
LEMMA ArchiveIndices ==
  ASSUME NEW a, IsArchive(a)
  PROVE  Len(a) \in Nat /\ DOMAIN a = 1 .. Len(a)
BY DEF IsArchive

-----------------------------------------------------------------------------
\* What Main finds, and what it finds it by.

LEMMA MainIsFound ==
  ASSUME NEW a, IsArchive(a), Main(a) # 0
  PROVE  StopsAt(a, Main(a)) \/ EndsOn(a, Main(a))
<1> DEFINE stops == {i \in DOMAIN a : a[i].kind \notin {"zero", "cpio"}}
           cpios == {i \in DOMAIN a : a[i].kind = "cpio"}
           first == CHOOSE i \in stops : \A j \in stops : i <= j
           last == CHOOSE i \in cpios : \A j \in cpios : j <= i
<1>1. Main(a) = IF stops # {} THEN IF IsCompressed(a[first]) THEN first ELSE 0
                ELSE IF cpios # {} THEN last ELSE 0
  BY DEF Main
<1>2. /\ Len(a) \in Nat /\ DOMAIN a = 1 .. Len(a)
      /\ stops \in SUBSET Nat /\ cpios \in SUBSET (1 .. Len(a))
  BY ArchiveIndices
<1>3. CASE stops # {}
  <2>1. \E i \in stops : \A j \in stops : i <= j
    BY <1>2, <1>3, Least
  <2>2. first \in stops /\ \A j \in stops : first <= j
    BY <2>1
  <2>3. Main(a) = first /\ IsCompressed(a[first])
    BY <1>1, <1>3
  <2> HIDE DEF first
  <2>4. \A j \in DOMAIN a : j < first => a[j].kind \in {"zero", "cpio"}
    BY <1>2, <2>2
  <2> QED BY <2>2, <2>3, <2>4 DEF StopsAt
<1>4. CASE stops = {}
  <2>1. cpios # {} /\ Main(a) = last
    BY <1>1, <1>4
  <2>2. \E i \in cpios : \A j \in cpios : j <= i
    BY <1>2, <2>1, Greatest
  <2>3. last \in cpios /\ \A j \in cpios : j <= last
    BY <2>2
  <2> HIDE DEF last
  <2> QED BY <1>4, <2>1, <2>3 DEF EndsOn
<1> QED BY <1>3, <1>4

\* Where the search stops is the main segment.
LEMMA FoundIsMain ==
  ASSUME NEW a, IsArchive(a), NEW m, StopsAt(a, m) \/ EndsOn(a, m)
  PROVE  Main(a) = m
<1> DEFINE stops == {i \in DOMAIN a : a[i].kind \notin {"zero", "cpio"}}
           cpios == {i \in DOMAIN a : a[i].kind = "cpio"}
           first == CHOOSE i \in stops : \A j \in stops : i <= j
           last == CHOOSE i \in cpios : \A j \in cpios : j <= i
<1>1. Main(a) = IF stops # {} THEN IF IsCompressed(a[first]) THEN first ELSE 0
                ELSE IF cpios # {} THEN last ELSE 0
  BY DEF Main
<1>2. Len(a) \in Nat /\ DOMAIN a = 1 .. Len(a)
  BY ArchiveIndices
<1>3. CASE StopsAt(a, m)
  <2>1. m \in stops /\ \A j \in stops : m <= j
    BY <1>2, <1>3 DEF StopsAt, IsCompressed, Compressions
  <2>2. first \in stops /\ first <= m
    BY <2>1
  <2>3. first = m
    BY <1>2, <2>1, <2>2
  <2> HIDE DEF first
  <2> QED BY <1>1, <1>3, <2>1, <2>3 DEF StopsAt
<1>4. CASE EndsOn(a, m)
  <2>1. stops = {} /\ m \in cpios /\ \A j \in cpios : j <= m
    BY <1>4 DEF EndsOn
  <2>2. last \in cpios /\ m <= last
    BY <2>1
  <2>3. last = m
    BY <1>2, <2>1, <2>2
  <2> HIDE DEF last
  <2> QED BY <1>1, <2>1, <2>3
<1> QED BY <1>3, <1>4

\* A repack has the same segments before its main one, which has the same place
\* and compression: it can be unpacked and repacked again.
LEMMA RepackKeepsPrefix ==
  ASSUME NEW a, NEW files, IsArchive(a), Main(a) # 0
  PROVE  LET b == Repacked(a, files) IN
         /\ IsArchive(b) /\ Main(b) = Main(a) /\ Prefix(b) = Prefix(a)
         /\ b[Main(b)].kind = a[Main(a)].kind
<1> DEFINE m == Main(a)
           b == Repacked(a, files)
           main == [kind |-> a[m].kind, files |-> files]
<1>1. StopsAt(a, m) \/ EndsOn(a, m)
  BY MainIsFound
<1>2. Len(a) \in Nat /\ DOMAIN a = 1 .. Len(a) /\ m \in 1 .. Len(a)
  BY <1>1, ArchiveIndices DEF StopsAt, EndsOn
<1> HIDE DEF m
<1>3. /\ Prefix(a) = SubSeq(a, 1, m - 1) /\ b = Append(SubSeq(a, 1, m - 1), main)
  BY DEF Prefix, Repacked, m
<1>4. /\ SubSeq(a, 1, m - 1) \in Seq(Range(a)) /\ Len(SubSeq(a, 1, m - 1)) = m - 1
      /\ \A i \in 1 .. (m - 1) : SubSeq(a, 1, m - 1)[i] = a[i]
  BY <1>2 DEF IsArchive
<1> HIDE DEF main
<1>5. /\ b \in Seq(Range(a) \cup {main}) /\ Len(b) = m /\ DOMAIN b = 1 .. m
      /\ b[m] = main /\ \A i \in 1 .. (m - 1) : b[i] = a[i]
  BY <1>2, <1>3, <1>4
<1> HIDE DEF b
<1>6. IsArchive(b)
  BY <1>2, <1>5 DEF IsArchive, Range
<1>7. \A i \in 1 .. m : b[i].kind = a[i].kind
  BY <1>2, <1>5 DEF main
<1>8. StopsAt(b, m) \/ EndsOn(b, m)
  BY <1>1, <1>2, <1>5, <1>7 DEF StopsAt, EndsOn, IsCompressed
<1>9. Main(b) = m
  BY <1>6, <1>8, FoundIsMain
<1>10. SubSeq(b, 1, m - 1) = SubSeq(a, 1, m - 1)
  BY <1>2, <1>4, <1>5
<1> QED BY <1>2, <1>3, <1>6, <1>7, <1>9, <1>10 DEF Prefix, m, b

-----------------------------------------------------------------------------
\* The inductive invariant.
LEMMA Invariance == Spec => []IInv
<1>1. Init => IInv
  <2> SUFFICES ASSUME Init PROVE IInv
    OBVIOUS
  <2>1. PICK n \in 0 .. MaxSegments : archive \in [1 .. n -> Segments]
    BY DEF Init
  <2>2. n \in Nat /\ archive \in [1 .. n -> Range(archive)]
    BY <2>1, SegmentsAssumption DEF Range
  <2>3. IsArchive(archive)
    BY <2>2 DEF IsArchive
  <2> QED BY <2>3 DEF Init, IInv, Working, EarlySegmentsKept
<1>2. IInv /\ [Next]_vars => IInv'
  <2> SUFFICES ASSUME IInv, [Next]_vars PROVE IInv'
    OBVIOUS
  <2>1. CASE Replace
    <3>1. archive' = Repacked(archive, tree) /\ original' = original /\ pc' = "mode"
      BY <2>1 DEF Replace, IInv
    <3>2. /\ IsArchive(archive') /\ Main(archive') = Main(archive) /\ Main(archive) # 0
          /\ Prefix(archive') = Prefix(archive)
          /\ archive'[Main(archive')].kind = archive[Main(archive)].kind
      BY <2>1, <3>1, RepackKeepsPrefix DEF Replace, IInv, Working
    <3> QED BY <3>1, <3>2 DEF IInv, Working, EarlySegmentsKept
  <2> SUFFICES ASSUME archive' = archive, original' = original
               PROVE  IInv'
    BY <2>1 DEF Next, Extract, ClearTemp, WriteTemp, DropTemp, SetMode, Fails, Kill, RunAgain, Idle, vars
  <2>2. EarlySegmentsKept' /\ Main(archive)' = Main(archive) /\ IsArchive(archive')
    BY DEF IInv, EarlySegmentsKept
  <2>3. CASE Extract \/ ClearTemp
    BY <2>2, <2>3 DEF Extract, ClearTemp, IInv, Working
  <2>4. CASE WriteTemp
    BY <2>2, <2>4 DEF WriteTemp, IInv, Working
  <2>5. CASE DropTemp \/ SetMode \/ Fails \/ Kill \/ RunAgain
    BY <2>2, <2>5 DEF DropTemp, SetMode, Fails, Kill, RunAgain, IInv, Working
  <2>6. CASE Idle \/ UNCHANGED vars
    BY <2>2, <2>6 DEF Idle, vars, IInv
  <2> QED BY <2>1, <2>3, <2>4, <2>5, <2>6 DEF Next
<1> QED BY <1>1, <1>2, PTL DEF Spec

\* Whatever runs fail or are killed, the segments before the main one and its
\* compression stay, for archives of any length and any edits.
THEOREM EarlySegmentsStay == Spec => []EarlySegmentsKept
<1>1. IInv => EarlySegmentsKept
  BY DEF IInv
<1> QED BY Invariance, <1>1, PTL

\* The archive changes only into its complete repack, whatever step a run fails or is
\* killed at.
THEOREM FailuresLeaveArchive == Spec => FailuresKeepArchive
<1>1. IInv /\ [Next]_vars => [archive' # archive => archive' = Repacked(archive, tree)]_vars
  <2>1. ASSUME IInv, Replace PROVE archive' = Repacked(archive, tree)
    BY <2>1 DEF IInv, Replace
  <2>2. ASSUME [Next]_vars, ~Replace PROVE archive' = archive
    BY <2>2 DEF Next, vars, Extract, ClearTemp, WriteTemp, DropTemp, SetMode, Fails, Kill, RunAgain, Idle
  <2> QED BY <2>1, <2>2
<1> QED BY <1>1, Invariance, PTL DEF Spec, FailuresKeepArchive
-----------------------------------------------------------------------------
(* What the kernel sees.                                                   *)

\* The segments that the repack drops, those behind the main one, are padding.
PaddedTail(a) == \A s \in After(a) : s.kind = "zero"
NoFilesBehind(a) == \A i \in DOMAIN a : i > Main(a) => DOMAIN a[i].files = {}

\* The segment a path comes from is the last one that has it, and the view is
\* decided by that.
LEMMA LastHolderIs ==
  ASSUME NEW a, IsArchive(a), NEW x, NEW m \in Holders(a, x), \A j \in Holders(a, x) : j <= m
  PROVE  x \in DOMAIN View(a) /\ View(a)[x] = a[m].files[x]
<1>1. Holders(a, x) \subseteq Nat
  BY ArchiveIndices DEF Holders
<1>2. LastHolder(a, x) \in Holders(a, x) /\ m <= LastHolder(a, x)
  BY DEF LastHolder
<1>3. LastHolder(a, x) = m
  BY <1>1, <1>2
<1>4. x \in UNION {DOMAIN a[i].files : i \in DOMAIN a}
  BY DEF Holders
<1> QED BY <1>3, <1>4 DEF View

\* One segment is the last to hold a file that boot sees.
LEMMA HasLastHolder ==
  ASSUME NEW a, IsArchive(a), NEW x \in DOMAIN View(a)
  PROVE  \E m \in Holders(a, x) : \A j \in Holders(a, x) : j <= m
<1>1. Holders(a, x) # {}
  BY DEF View, Holders
<1>2. Holders(a, x) \in SUBSET (1 .. Len(a)) /\ Len(a) \in Nat
  BY ArchiveIndices DEF Holders
<1> QED BY <1>1, <1>2, Greatest

\* A repack of the edited tree shows the kernel what it saw before with the
\* edit on top, unless it dropped files behind the main segment.
LEMMA RepackSeen ==
  ASSUME NEW a, NEW e, IsArchive(a), Main(a) # 0, NoFilesBehind(a)
  PROVE  LET b == Repacked(a, Over(a[Main(a)].files, e)) IN
         View(b) = Over(View(a), e) /\ After(b) = {}
<1> DEFINE m == Main(a)
           f == Over(a[m].files, e)
           b == Repacked(a, f)
           main == [kind |-> a[m].kind, files |-> f]
<1>1. StopsAt(a, m) \/ EndsOn(a, m)
  BY MainIsFound
<1>2. Len(a) \in Nat /\ DOMAIN a = 1 .. Len(a) /\ m \in 1 .. Len(a)
  BY <1>1, ArchiveIndices DEF StopsAt, EndsOn
<1>3. IsArchive(b) /\ Main(b) = m
  BY RepackKeepsPrefix
<1>4. \A i \in DOMAIN a : i > m => DOMAIN a[i].files = {}
  BY DEF NoFilesBehind
<1> HIDE DEF m
<1>5. b = Append(SubSeq(a, 1, m - 1), main)
  BY DEF Prefix, Repacked, m
<1>6. /\ SubSeq(a, 1, m - 1) \in Seq(Range(a)) /\ Len(SubSeq(a, 1, m - 1)) = m - 1
      /\ \A i \in 1 .. (m - 1) : SubSeq(a, 1, m - 1)[i] = a[i]
  BY <1>2 DEF IsArchive
<1>7. main.files = f
  OBVIOUS
<1> HIDE DEF main
<1>8. DOMAIN b = 1 .. m /\ b[m] = main /\ \A i \in 1 .. (m - 1) : b[i] = a[i]
  BY <1>2, <1>5, <1>6
<1>9. DOMAIN f = DOMAIN a[m].files \cup DOMAIN e
      /\ \A x \in DOMAIN f : f[x] = IF x \in DOMAIN e THEN e[x] ELSE a[m].files[x]
  BY DEF Over, m
<1> HIDE DEF b, f
<1>10. ASSUME NEW x
       PROVE  Holders(b, x) = {i \in Holders(a, x) : i # m} \cup (IF x \in DOMAIN f THEN {m} ELSE {})
  <2>1. \A i \in Holders(a, x) : i \in 1 .. m
    BY <1>2, <1>4 DEF Holders
  <2>2. ASSUME NEW i, i # m PROVE i \in Holders(b, x) <=> i \in Holders(a, x)
    <3>1. CASE i \in 1 .. (m - 1)
      BY <3>1, <1>2, <1>8 DEF Holders
    <3>2. CASE i \notin 1 .. (m - 1)
      <4>1. i \notin Holders(a, x)
        BY <2>1, <2>2, <3>2, <1>2
      <4>2. i \notin DOMAIN b
        BY <2>2, <3>2, <1>2, <1>8
      <4> QED BY <4>1, <4>2 DEF Holders
    <3> QED BY <3>1, <3>2
  <2>3. m \in Holders(b, x) <=> x \in DOMAIN f
    BY <1>2, <1>7, <1>8 DEF Holders
  <2> QED BY <2>2, <2>3
<1>11. ASSUME NEW x \in DOMAIN e
       PROVE  x \in DOMAIN View(b) /\ View(b)[x] = e[x]
  <2>1. x \in DOMAIN f /\ f[x] = e[x]
    BY <1>9
  <2>2. m \in Holders(b, x) /\ \A j \in Holders(b, x) : j <= m
    BY <2>1, <1>2, <1>8, <1>10 DEF Holders
  <2>3. x \in DOMAIN View(b) /\ View(b)[x] = b[m].files[x]
    BY <2>2, <1>3, LastHolderIs
  <2> QED BY <2>1, <2>3, <1>7, <1>8
<1>12. ASSUME NEW x \in DOMAIN View(a), x \notin DOMAIN e
       PROVE  x \in DOMAIN View(b) /\ View(b)[x] = View(a)[x]
  <2>1. PICK k \in Holders(a, x) : \A j \in Holders(a, x) : j <= k
    BY HasLastHolder
  <2>2. View(a)[x] = a[k].files[x] /\ k \in DOMAIN a /\ x \in DOMAIN a[k].files
    BY <2>1, LastHolderIs DEF Holders
  <2>3. k \in 1 .. m
    BY <2>2, <1>2, <1>4
  <2>4. x \in DOMAIN f <=> m \in Holders(a, x)
    BY <1>2, <1>9, <1>12 DEF Holders
  <2>5. Holders(b, x) = Holders(a, x)
    BY <2>4, <1>10
  <2>6. x \in DOMAIN View(b) /\ View(b)[x] = b[k].files[x]
    BY <2>1, <2>5, <1>3, LastHolderIs
  <2>7. CASE k = m
    BY <2>2, <2>6, <2>7, <1>7, <1>8, <1>9, <1>12
  <2>8. CASE k # m
    BY <2>2, <2>3, <2>6, <2>8, <1>2, <1>8
  <2> QED BY <2>6, <2>7, <2>8
<1>13. ASSUME NEW x \in DOMAIN View(b)
       PROVE  x \in DOMAIN View(a) \cup DOMAIN e
  <2>1. PICK k \in Holders(b, x) : TRUE
    BY <1>3, HasLastHolder
  <2>2. CASE k # m
    BY <2>1, <2>2, <1>10 DEF View, Holders
  <2>3. CASE k = m
    <3>1. x \in DOMAIN f
      BY <2>1, <2>3, <1>7, <1>8 DEF Holders
    <3> QED BY <3>1, <1>2, <1>9 DEF View
  <2> QED BY <2>2, <2>3
<1>14. DOMAIN View(b) = DOMAIN View(a) \cup DOMAIN e
  BY <1>11, <1>12, <1>13
<1>15. \A x \in DOMAIN View(b) : View(b)[x] = IF x \in DOMAIN e THEN e[x] ELSE View(a)[x]
  BY <1>11, <1>12, <1>13
<1>16. View(b) = [x \in DOMAIN View(b) |-> View(b)[x]]
  BY DEF View
<1>17. View(b) = Over(View(a), e)
  BY <1>14, <1>15, <1>16 DEF Over
<1>18. After(b) = {}
  BY <1>2, <1>3, <1>8 DEF After
<1> QED BY <1>17, <1>18 DEF b, f, m

\* An archive whose main segment is the last that has files is, from the first
\* run that ends well, what it was with the edit on top; the tree a run works on
\* is the main segment with the edit.
SeenInv ==
  /\ \A i \in DOMAIN original : original[i] \in Segments
  /\ pc \in Working => tree = Over(archive[Main(archive)].files, edit)
  /\ PaddedTail(original) =>
       /\ archive = original \/ After(archive) = {}
       /\ View(archive) = Over(View(original), edit) \/ (archive = original /\ pc \notin {"mode", "done"})

\* An edit made twice is made once.
LEMMA EditTwice ==
  ASSUME NEW f, NEW e
  PROVE  Over(Over(f, e), e) = Over(f, e)
BY DEF Over

\* The step that puts the repack in place.
LEMMA ReplaceSeen ==
  ASSUME IInv, SeenInv, Replace, PaddedTail(original)
  PROVE  After(archive') = {} /\ View(archive') = Over(View(original), edit)
<1>1. archive' = Repacked(archive, Over(archive[Main(archive)].files, edit))
  BY DEF Replace, IInv, SeenInv, Working
<1>2. IsArchive(archive) /\ Main(archive) # 0
  BY DEF Replace, IInv, Working
<1>3. NoFilesBehind(archive)
  <2>1. CASE archive = original
    <3>1. ASSUME NEW i \in DOMAIN archive, i > Main(archive)
          PROVE  DOMAIN archive[i].files = {}
      <4>1. archive[i] \in After(original) /\ archive[i] \in Segments
        BY <2>1, <3>1 DEF After, SeenInv
      <4>2. archive[i].kind = "zero"
        BY <4>1 DEF PaddedTail
      <4> QED BY <4>1, <4>2, SegmentsAssumption
    <3> QED BY <3>1 DEF NoFilesBehind
  <2>2. CASE After(archive) = {}
    BY <2>2 DEF After, NoFilesBehind
  <2> QED BY <2>1, <2>2 DEF SeenInv
<1>4. After(archive') = {} /\ View(archive') = Over(View(archive), edit)
  BY <1>1, <1>2, <1>3, RepackSeen
<1>5. View(archive) = View(original) \/ View(archive) = Over(View(original), edit)
  BY DEF SeenInv
<1> QED BY <1>4, <1>5, EditTwice

\* A kernel booted from an archive whose runs have ended well sees what it saw
\* before the first with the edit on top, for any archives, edits and number of
\* runs, failures and kills.
THEOREM BootSeesTheEdit == Spec => []BootSeesEdit
<1>1. Init => SeenInv
  <2> SUFFICES ASSUME Init PROVE SeenInv
    OBVIOUS
  <2>1. PICK n \in 0 .. MaxSegments : archive \in [1 .. n -> Segments]
    BY DEF Init
  <2> QED BY <2>1 DEF Init, SeenInv, Working
<1>2. IInv /\ SeenInv /\ [Next]_vars => SeenInv'
  <2> SUFFICES ASSUME IInv, SeenInv, [Next]_vars PROVE SeenInv'
    OBVIOUS
  <2>1. original' = original /\ edit' = edit
    BY DEF Next, vars, Extract, ClearTemp, WriteTemp, DropTemp, Replace, SetMode, Fails, Kill, RunAgain, Idle
  <2>2. CASE Replace
    BY <2>1, <2>2, ReplaceSeen DEF Replace, SeenInv, Working
  <2>3. CASE Extract
    <3>1. archive' = archive /\ tree' = Over(archive[Main(archive)].files, edit) /\ pc' = "clear"
      BY <2>3 DEF Extract
    <3> QED BY <2>1, <3>1 DEF SeenInv
  <2>4. CASE ClearTemp \/ WriteTemp \/ DropTemp
    <3>1. archive' = archive /\ tree' = tree /\ pc \in Working /\ pc' \notin {"mode", "done"}
      BY <2>4 DEF ClearTemp, WriteTemp, DropTemp, Working
    <3> QED BY <2>1, <3>1 DEF SeenInv
  <2>5. CASE Fails \/ Kill \/ RunAgain
    <3>1. archive' = archive /\ pc' \notin Working \cup {"mode", "done"}
      BY <2>5 DEF Fails, Kill, RunAgain, Working
    <3> QED BY <2>1, <3>1 DEF SeenInv
  <2>6. CASE Idle \/ UNCHANGED vars
    BY <2>6 DEF Idle, vars, SeenInv
  <2>7. CASE SetMode
    BY <2>1, <2>7 DEF SetMode, SeenInv, Working
  <2> QED BY <2>2, <2>3, <2>4, <2>5, <2>6, <2>7 DEF Next
<1>3. SeenInv => BootSeesEdit
  BY DEF SeenInv, BootSeesEdit, PaddedTail
<1> QED BY <1>1, <1>2, <1>3, Invariance, PTL DEF Spec
=============================================================================
