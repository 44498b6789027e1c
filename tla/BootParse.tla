----------------------------- MODULE BootParse -----------------------------
(***************************************************************************)
(* How a medium's boot menus are read (boot_parse.py).  The candidate      *)
(* configuration files are tried in a fixed order; a GRUB file is read     *)
(* line by line with a stack of open blocks, of enclosing submenus and of  *)
(* open conditionals, and "source" suspends it for the included file; a    *)
(* syslinux file fills one draft that every label flushes.  One step of    *)
(* this module reads one line.                                             *)
(*                                                                         *)
(* A member path is the sequence of its components and <<>> is no path; a  *)
(* title is its text, in parts, with the words the code looks for in it; a *)
(* kernel argument is [k, v], k being "" for an argument without "=".      *)
(***************************************************************************)
EXTENDS Naturals, Sequences, FiniteSets

CONSTANTS
  Files,        \* Files[medium][path]: the lines of that configuration file
  Candidates    \* the configuration files tried, in order

VARIABLES
  medium,       \* the medium being read
  todo,         \* candidates still to be tried
  frames,       \* the files open at this point, the included one on top
  visited,      \* files parsed once already
  counter,      \* next entry order, shared by all the files of a medium
  found,        \* entries of GRUB files
  others        \* entries of syslinux files

parseVars == <<medium, todo, frames, visited, counter, found, others>>

NoTitle == [text |-> <<>>, words |-> {}]
InstallerKinds == {"installer", "automated-installer", "expert-installer", "rescue"}
LiveKinds == {"live", "live-persistence", "live-encrypted-persistence",
              "live-failsafe", "live-forensics"}

BootEntry == [title |-> NoTitle, kernel |-> <<>>, initrd |-> <<>>, args |-> <<>>,
              menu |-> <<>>, order |-> 0, kind |-> "other", commands |-> <<>>,
              isofile |-> <<>>, method |-> "", uuid |-> "", ns |-> "", on |-> ""]

ArgNames(args) == {IF args[i].k = "" THEN args[i].v[1] ELSE args[i].k : i \in DOMAIN args}
HasArg(args, k, value) == \E i \in DOMAIN args : args[i] = [k |-> k, v |-> <<value>>]
HasDir(path, dirs) == \E i \in 1..(Len(path) - 1) : path[i] \in dirs

PersistenceNames == {"persistence", "nopersistence", "persistent", "persistence-label",
                     "persistence-encryption", "persistence-media", "persistence-storage"}
InstallerDirs == {"install", "install.amd", "d-i", "debian-installer", "hd-media", "netboot"}

\* What an entry is, from its title, arguments, kernel path and commands.
AnnotatedKind(e) ==
  LET says(ws) == e.title.words \intersect ws # {}
      either(ws) == says(ws) \/ ArgNames(e.args) \intersect ws # {}
      isLive == \/ HasArg(e.args, "boot", "live") \/ HasArg(e.args, "boot", "casper")
                \/ HasDir(e.kernel, {"live", "casper"})
      isInstaller == HasDir(e.kernel, InstallerDirs) \/ says({"install", "installer", "rescue"})
      encrypted == HasArg(e.args, "persistence-encryption", "luks")
                     \/ HasArg(e.args, "persistent", "cryptsetup")
  IN  IF "verify-checksums" \in ArgNames(e.args) \/ says({"integrity"}) THEN "verify"
      ELSE IF (\E i \in DOMAIN e.commands : e.commands[i] = "fwsetup") \/ says({"firmware"})
           THEN "firmware"
      ELSE IF isLive THEN
             IF encrypted THEN "live-encrypted-persistence"
             ELSE IF either(PersistenceNames) THEN "live-persistence"
             ELSE IF either({"failsafe", "memtest"}) THEN "live-failsafe"
             ELSE IF either({"forensics", "forensic"}) THEN "live-forensics"
             ELSE "live"
      ELSE IF isInstaller THEN
             IF says({"rescue"}) \/ HasArg(e.args, "rescue/enable", "true") THEN "rescue"
             ELSE IF says({"expert"}) \/ HasArg(e.args, "priority", "low") THEN "expert-installer"
             ELSE IF says({"automated"}) \/ HasArg(e.args, "auto", "true") THEN "automated-installer"
             ELSE "installer"
      ELSE "utility"

Annotate(e) == [e EXCEPT !.kind = AnnotatedKind(e)]

-----------------------------------------------------------------------------
(* Files and frames                                                        *)

Exists(path) == path \in DOMAIN Files[medium]
LinesOf(path) == Files[medium][path]
Pop(s) == SubSeq(s, 1, Len(s) - 1)

Top == frames[Len(frames)]
AtLine == frames # <<>> /\ Top.at <= Len(LinesOf(Top.path))
Line == LinesOf(Top.path)[Top.at]
Replace(f) == frames' = [frames EXCEPT ![Len(frames)] = [f EXCEPT !.at = @ + 1]]

NoVars == [x \in {} |-> [loop |-> FALSE, path |-> <<>>]]
GrubFrame(path, menu) ==
  [kind |-> "grub", path |-> path, at |-> 1, menu |-> menu, blocks |-> <<>>,
   ifs |-> <<>>, entry |-> <<>>, vars |-> NoVars]
SyslinuxFrame(path) ==
  [kind |-> "syslinux", path |-> path, at |-> 1, menu |-> <<>>, entry |-> <<BootEntry>>]

\* A finished GRUB entry is kept when it boots something or runs something.
Flushed(entries, f) ==
  LET e == [f.entry[1] EXCEPT !.isofile =
              IF "isofile" \in DOMAIN f.vars THEN f.vars["isofile"].path ELSE <<>>]
  IN  IF f.entry # <<>> /\ (e.kernel # <<>> \/ e.commands # <<>>)
      THEN entries \union {Annotate(e)} ELSE entries

-----------------------------------------------------------------------------
(* The candidate loop                                                      *)

StartParse(m) ==
  /\ medium' = m
  /\ todo' = Candidates
  /\ frames' = <<>> /\ visited' = {} /\ counter' = 0
  /\ found' = {} /\ others' = {}

ParseDone == frames = <<>> /\ todo = <<>>

IsGrub(path) == \E i \in DOMAIN path : path[i] \in {"grub", "grub.cfg"}

NextCandidate ==
  /\ frames = <<>> /\ todo # <<>>
  /\ todo' = Tail(todo)
  /\ LET path == Head(todo)
     IN  IF path \in visited \/ ~Exists(path) THEN UNCHANGED <<frames, visited>>
         ELSE /\ visited' = visited \union {path}
              /\ frames' = <<IF IsGrub(path) THEN GrubFrame(path, <<>>) ELSE SyslinuxFrame(path)>>
  /\ UNCHANGED <<medium, counter, found, others>>

-----------------------------------------------------------------------------
(* GRUB files                                                              *)

InGrub == AtLine /\ Top.kind = "grub"
Skipping == \E i \in DOMAIN Top.ifs : Top.ifs[i]
GrubLine(ops) == InGrub /\ Line.op \in ops /\ ~Skipping

IfLine ==
  /\ InGrub /\ Line.op = "if"
  /\ Replace([Top EXCEPT !.ifs = Append(@, Line.never)])
  /\ UNCHANGED <<medium, todo, visited, counter, found, others>>

FiLine ==
  /\ InGrub /\ Line.op = "fi"
  /\ Replace([Top EXCEPT !.ifs = IF @ = <<>> THEN @ ELSE Pop(@)])
  /\ UNCHANGED <<medium, todo, visited, counter, found, others>>

\* Inside "if false" everything but the conditionals is passed over.
SkippedLine ==
  /\ InGrub /\ Line.op \notin {"if", "fi"} /\ Skipping
  /\ Replace(Top)
  /\ UNCHANGED <<medium, todo, visited, counter, found, others>>

\* An include outside an entry is read at once, below the open submenus, unless
\* it was read before, is missing or is empty.
SourceLine ==
  /\ GrubLine({"source"}) /\ Top.entry = <<>>
  /\ LET here == [frames EXCEPT ![Len(frames)].at = @ + 1]
     IN  IF Line.path \notin visited /\ Exists(Line.path) /\ LinesOf(Line.path) # <<>>
         THEN /\ frames' = Append(here, GrubFrame(Line.path, Top.menu))
              /\ visited' = visited \union {Line.path}
         ELSE frames' = here /\ UNCHANGED visited
  /\ UNCHANGED <<medium, todo, counter, found, others>>

SubmenuLine ==
  /\ GrubLine({"submenu"})
  /\ Replace(IF Line.title = NoTitle THEN Top
             ELSE [Top EXCEPT !.menu = Append(@, Line.title), !.blocks = Append(@, "submenu")])
  /\ UNCHANGED <<medium, todo, visited, counter, found, others>>

EntryLine ==
  /\ GrubLine({"menuentry"})
  /\ IF Line.title = NoTitle THEN Replace(Top) /\ UNCHANGED counter
     ELSE /\ Replace([Top EXCEPT
               !.entry = <<[BootEntry EXCEPT !.title = Line.title, !.menu = Top.menu,
                                             !.order = counter, !.on = medium]>>,
               !.blocks = Append(@, "menuentry"), !.vars = NoVars])
          /\ counter' = counter + 1
  /\ UNCHANGED <<medium, todo, visited, found, others>>

CloseLine ==
  /\ GrubLine({"close"})
  /\ LET block == IF Top.blocks = <<>> THEN "none" ELSE Top.blocks[Len(Top.blocks)]
         popped == IF block = "none" THEN Top ELSE [Top EXCEPT !.blocks = Pop(@)]
     IN  CASE block = "submenu" ->
                Replace([popped EXCEPT !.menu = IF @ = <<>> THEN @ ELSE Pop(@)]) /\ UNCHANGED found
           [] block = "menuentry" -> Replace([popped EXCEPT !.entry = <<>>]) /\ found' = Flushed(found, Top)
           [] block = "none" -> Replace(Top) /\ UNCHANGED found
  /\ UNCHANGED <<medium, todo, visited, counter, others>>

\* A path written as $name stands for the variable, and (loop) in front of it says
\* that the entry boots from an ISO it loops back.
Resolved(l, vars) == IF l.ref \in DOMAIN vars THEN vars[l.ref] ELSE [loop |-> l.loop, path |-> l.path]
Method(e, at) == IF at.loop THEN "iso-loopback" ELSE e.method
Expanded(args, vars) ==
  [i \in DOMAIN args |-> IF "isofile" \in DOMAIN vars /\ args[i].v = <<"$isofile">>
                         THEN [args[i] EXCEPT !.v = vars["isofile"].path] ELSE args[i]]

EntryBodyLine ==
  /\ GrubLine({"set", "loopback", "linux", "initrd", "command", "source"})
  /\ Line.op = "source" => Top.entry # <<>>
  /\ LET e == Top.entry[1]
         with(x) == [Top EXCEPT !.entry = <<x>>]
     IN  Replace(
           CASE Top.entry = <<>> -> Top
             [] Top.entry # <<>> /\ Line.op = "set" ->
                  [Top EXCEPT !.vars = [x \in DOMAIN @ \union {Line.name} |->
                                          IF x = Line.name THEN Line.value ELSE @[x]]]
             [] Top.entry # <<>> /\ Line.op = "loopback" -> with([e EXCEPT !.method = "iso-loopback"])
             [] Top.entry # <<>> /\ Line.op = "linux" ->
                  LET at == Resolved(Line, Top.vars)
                  IN  with([e EXCEPT !.kernel = at.path, !.method = Method(e, at),
                                     !.args = Expanded(Line.args, Top.vars)])
             [] Top.entry # <<>> /\ Line.op = "initrd" ->
                  LET at == Resolved(Line, Top.vars)
                  IN  with([e EXCEPT !.initrd = at.path, !.method = Method(e, at)])
             [] Top.entry # <<>> /\ Line.op \in {"command", "source"} ->
                  with([e EXCEPT !.commands = Append(@, IF Line.op = "command" THEN Line.text
                                                        ELSE "source")]))
  /\ UNCHANGED <<medium, todo, visited, counter, found, others>>

\* The end of the file closes an entry left open.
EndOfGrubFile ==
  /\ frames # <<>> /\ ~AtLine /\ Top.kind = "grub"
  /\ found' = Flushed(found, Top)
  /\ frames' = Pop(frames)
  /\ UNCHANGED <<medium, todo, visited, counter, others>>

-----------------------------------------------------------------------------
(* Syslinux files                                                          *)

SyslinuxLine(ops) == AtLine /\ Top.kind = "syslinux" /\ Line.op \in ops
Draft == Top.entry[1]

SyslinuxMenuLine ==
  /\ SyslinuxLine({"menu begin", "menu end"})
  /\ Replace([Top EXCEPT !.menu = IF Line.op = "menu begin" THEN Append(@, Line.title)
                                  ELSE IF @ = <<>> THEN @ ELSE Pop(@)])
  /\ UNCHANGED <<medium, todo, visited, counter, found, others>>

SyslinuxFieldLine ==
  /\ SyslinuxLine({"menu label", "linux", "initrd", "append"})
  /\ Replace([Top EXCEPT !.entry = <<
       CASE Line.op = "menu label" -> [Draft EXCEPT !.title = Line.title]
         [] Line.op = "linux" -> [Draft EXCEPT !.kernel = Line.path]
         [] Line.op = "initrd" -> [Draft EXCEPT !.initrd = Line.path]
         [] Line.op = "append" -> [Draft EXCEPT !.args = Line.args,
                                     !.initrd = IF Line.initrd = <<>> THEN @ ELSE Line.initrd]>>])
  /\ UNCHANGED <<medium, todo, visited, counter, found, others>>

\* A draft without a kernel is not flushed, and then keeps its fields.
FlushSyslinux ==
  IF Draft.kernel = <<>> THEN UNCHANGED <<others, counter>>
  ELSE /\ others' = others \union
                      {Annotate([Draft EXCEPT !.menu = Top.menu, !.order = counter, !.on = medium])}
       /\ counter' = counter + 1
NextDraft == IF Draft.kernel = <<>> THEN Draft ELSE BootEntry

SyslinuxLabelLine ==
  /\ SyslinuxLine({"label"})
  /\ FlushSyslinux
  /\ Replace([Top EXCEPT !.entry = <<[NextDraft EXCEPT !.title = Line.title]>>])
  /\ UNCHANGED <<medium, todo, visited, found>>

EndOfSyslinuxFile ==
  /\ frames # <<>> /\ ~AtLine /\ Top.kind = "syslinux"
  /\ FlushSyslinux
  /\ frames' = Pop(frames)
  /\ UNCHANGED <<medium, todo, visited, found>>

ParseStep ==
  \/ NextCandidate
  \/ IfLine \/ FiLine \/ SkippedLine \/ SourceLine \/ SubmenuLine \/ EntryLine
  \/ CloseLine \/ EntryBodyLine \/ EndOfGrubFile
  \/ SyslinuxMenuLine \/ SyslinuxFieldLine \/ SyslinuxLabelLine \/ EndOfSyslinuxFile

-----------------------------------------------------------------------------
(* What the reading yields                                                 *)

\* Of entries that read the same, the earliest stays.
EntryKey(e) == <<e.title, e.kernel, e.initrd, e.args, e.menu, e.kind, e.commands>>
DedupeEntries(entries) ==
  {e \in entries : \A d \in entries : EntryKey(d) = EntryKey(e) => e.order <= d.order}

FindBootEntries == DedupeEntries(IF found # {} THEN found ELSE others)

MediaClass(entries) ==
  LET live == \E e \in entries : e.kind \in LiveKinds
      installer == \E e \in entries : e.kind \in InstallerKinds
  IN  IF live /\ installer THEN "hybrid" ELSE IF live THEN "live"
      ELSE IF installer THEN "installer" ELSE "utility"

\* The ranking of Live entries for a medium that boots with live-boot.
EntryScore(e) ==
  LET says(ws) == e.title.words \intersect ws # {}
      points(p, cond) == IF cond THEN p ELSE 0
      plus == points(40, e.kind \in LiveKinds) + points(50, HasArg(e.args, "boot", "live"))
                + points(25, HasDir(e.kernel, {"live"}))
      minus == points(30, e.kind = "live-persistence")
                 + points(40, e.kind = "live-encrypted-persistence")
                 + points(15, e.kind = "live-forensics") + points(25, e.kind = "live-failsafe")
                 + points(20, says({"failsafe"})) + points(30, says({"install", "rescue"}))
  IN  IF minus >= plus THEN 0 ELSE plus - minus

\* The best Live entry, the earliest of those ranked alike; {} when none scores.
SelectEntry(entries) ==
  LET live == {e \in entries : e.kind \in LiveKinds /\ EntryScore(e) > 0}
      best(e) == \A d \in live : \/ EntryScore(d) < EntryScore(e)
                                 \/ EntryScore(d) = EntryScore(e) /\ e.order <= d.order
  IN  {e \in live : best(e)}
=============================================================================
