--------------------------- MODULE InitrdArchive ---------------------------
(***************************************************************************)
(* The initrd archives that rebuild_iso.py unpacks and repacks.  An        *)
(* archive is a sequence of segments: uncompressed cpio archives (CPU      *)
(* microcode), zero padding, and the main archive, usually compressed and  *)
(* last.  Only the main segment is unpacked; a repack keeps what lies in   *)
(* front of it and replaces the archive through a temporary file.          *)
(***************************************************************************)
EXTENDS Naturals, Sequences, Functions

CONSTANTS Segments,   \* the segments archives are made of
          Edits,      \* files a caller adds to or changes in the unpacked tree
          MaxSegments,\* bound on the length of an archive
          MaxRuns     \* bound on runs

VARIABLES archive,    \* the archive file
          original,   \* the archive before the first run
          edit,       \* what the caller changes
          tree,       \* the unpacked main segment
          temp,       \* the file next to the archive: <<>> or <<its segments>>
          pc, runs

vars == <<archive, original, edit, tree, temp, pc, runs>>

Compressions == {"gzip", "xz"}   \* stand for all six
Kinds == Compressions \cup {"cpio", "zero", "junk"}

\* files: from paths to contents.  Padding has none.
ASSUME SegmentsAssumption ==
  /\ \A s \in Segments : s.kind \in Kinds /\ (s.kind = "zero" => DOMAIN s.files = {})
  /\ MaxSegments \in Nat /\ MaxRuns \in Nat \ {0}

-----------------------------------------------------------------------------
(* _initrd_archive_layout: the main segment of an archive, 0 for an error. *)

IsCompressed(s) == s.kind \in Compressions

\* The first segment that is neither padding nor a whole cpio archive ends the
\* walk: it is the main one when it is compressed.
Main(a) ==
  LET stops == {i \in DOMAIN a : a[i].kind \notin {"zero", "cpio"}}
      cpios == {i \in DOMAIN a : a[i].kind = "cpio"}
      first == CHOOSE i \in stops : \A j \in stops : i <= j
      last == CHOOSE i \in cpios : \A j \in cpios : j <= i
  IN IF stops # {} THEN IF IsCompressed(a[first]) THEN first ELSE 0
     ELSE IF cpios # {} THEN last ELSE 0

Prefix(a) == SubSeq(a, 1, Main(a) - 1)
After(a) == {a[i] : i \in {j \in DOMAIN a : j > Main(a)}}

Over(f, g) == [x \in DOMAIN f \cup DOMAIN g |-> IF x \in DOMAIN g THEN g[x] ELSE f[x]]

\* What the kernel sees: it unpacks the segments in turn, so that a path is as the
\* last segment that has it says.
Holders(a, x) == {i \in DOMAIN a : x \in DOMAIN a[i].files}
LastHolder(a, x) == CHOOSE i \in Holders(a, x) : \A j \in Holders(a, x) : j <= i
View(a) == [x \in UNION {DOMAIN a[i].files : i \in DOMAIN a} |-> a[LastHolder(a, x)].files[x]]

\* Broken variant of Repacked: what was in front of the main segment is lost.
RepackedMainOnly(a, files) == <<[kind |-> a[Main(a)].kind, files |-> files]>>

Repacked(a, files) == Append(Prefix(a), [kind |-> a[Main(a)].kind, files |-> files])

-----------------------------------------------------------------------------
(* Extract, edit, repack.                                                  *)

Init ==
  /\ archive \in UNION {[1 .. n -> Segments] : n \in 0 .. MaxSegments}
  /\ original = archive
  /\ edit \in Edits
  /\ tree = << >>
  /\ temp = <<>>
  /\ pc = "extract"
  /\ runs = 1

\* The decompressor reads to the end of the file.  Another stream of its own
\* format behind the main one is cut off by cpio, or by a broken pipe; it
\* refuses anything else but padding.
Extract ==
  /\ pc = "extract"
  /\ Main(archive) # 0
  /\ \A s \in After(archive) : s.kind \in {"zero", archive[Main(archive)].kind}
  /\ tree' = Over(archive[Main(archive)].files, edit)
  /\ pc' = "clear"
  /\ UNCHANGED <<archive, original, edit, temp, runs>>

ClearTemp ==
  /\ pc = "clear"
  /\ temp' = <<>>
  /\ pc' = "write"
  /\ UNCHANGED <<archive, original, edit, tree, runs>>

\* Broken variant: the compressor's output goes to the archive itself.
WriteInPlace ==
  /\ pc = "write"
  /\ \/ archive' = Prefix(archive) /\ pc' = "check failed"
     \/ archive' = Repacked(archive, tree) /\ pc' = "mode"
  /\ UNCHANGED <<original, edit, tree, temp, runs>>

\* find | cpio | compressor, after the prefix: cut short, or complete
WriteTemp ==
  /\ pc = "write"
  /\ \/ temp' = <<Prefix(archive)>> /\ pc' = "check failed"
     \/ temp' = <<Repacked(archive, tree)>> /\ pc' = "replace"
  /\ UNCHANGED <<archive, original, edit, tree, runs>>

\* Broken variant: the exit codes of the pipe are not looked at.
DropTempUnchecked ==
  /\ pc = "check failed"
  /\ pc' = "replace"
  /\ UNCHANGED <<archive, original, edit, tree, temp, runs>>

\* One of the three exit codes is not zero.
DropTemp ==
  /\ pc = "check failed"
  /\ temp' = <<>>
  /\ pc' = "failed"
  /\ UNCHANGED <<archive, original, edit, tree, runs>>

Replace ==
  /\ pc = "replace"
  /\ archive' = temp[1]
  /\ temp' = <<>>
  /\ pc' = "mode"
  /\ UNCHANGED <<original, edit, tree, runs>>

\* The new file gets the old one's mode.
SetMode ==
  /\ pc = "mode"
  /\ pc' = "done"
  /\ UNCHANGED <<archive, original, edit, tree, temp, runs>>

\* A failing rename leaves the temporary file to the finally clause.
Fails ==
  /\ pc \in {"extract", "clear", "write", "replace", "mode"}
  /\ temp' = IF pc = "replace" THEN <<>> ELSE temp
  /\ pc' = "failed"
  /\ UNCHANGED <<archive, original, edit, tree, runs>>

Kill ==
  /\ pc \notin {"done", "failed", "killed"}
  /\ pc' = "killed"
  /\ UNCHANGED <<archive, original, edit, tree, temp, runs>>

\* A later run works on what is there.
RunAgain ==
  /\ pc \in {"done", "failed", "killed"} /\ runs < MaxRuns
  /\ runs' = runs + 1
  /\ tree' = << >>
  /\ pc' = "extract"
  /\ UNCHANGED <<archive, original, edit, temp>>

Idle == pc \in {"done", "failed", "killed"} /\ UNCHANGED vars

Next == Extract \/ ClearTemp \/ WriteTemp \/ DropTemp \/ Replace \/ SetMode \/ Fails \/ Kill \/ RunAgain \/ Idle

Spec == Init /\ [][Next]_vars

-----------------------------------------------------------------------------
(* Properties.                                                             *)

\* "byte-preserving handling of leading early cpio segments": every run that
\* ends well leaves the segments in front of the main one, and the main one's
\* compression, as they were, whatever the earlier runs came to.
EarlySegmentsKept ==
  Main(original) # 0 =>
    /\ Prefix(archive) = Prefix(original)
    /\ Main(archive) # 0 /\ archive[Main(archive)].kind = original[Main(original)].kind

\* A kernel that boots a repacked archive sees what it saw before with the
\* edit on top, if the main segment was the last one.
BootSeesEdit ==
  pc = "done" /\ (\A s \in After(original) : s.kind = "zero") =>
    View(archive) = Over(View(original), edit)

\* The archive changes at once from one whole archive to the next: a run that fails
\* or is killed leaves it as it was, or with everything the run was to put in.
FailuresKeepArchive == [][archive' # archive => archive' = Repacked(archive, tree)]_vars
=============================================================================
