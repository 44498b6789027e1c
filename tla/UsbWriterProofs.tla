--------------------------- MODULE UsbWriterProofs ---------------------------
(***************************************************************************)
(* The USB writer, for any set of plans, any number of operating systems   *)
(* on a stick, and any bounds on retries, meddling and runs.               *)
(*                                                                         *)
(* First, what concatenation does to a sequence of sequences; then, that   *)
(* the script of every write mode has its steps in the order safety rests  *)
(* on (ScriptShaped); then, that the interpreter of the scripts keeps the  *)
(* inductive invariant IInv, whatever the desktop session, the failures    *)
(* and the kills do; last, that every script leads to the stick its plan   *)
(* describes (ScriptSound), and that the interpreter keeps what the steps  *)
(* it has made have led to (FInv), so that a run that succeeds ends there. *)
(***************************************************************************)
EXTENDS UsbWriter, SequenceTheorems, WellFoundedInduction, TLAPS

-----------------------------------------------------------------------------
(* Concatenation.                                                          *)

\* A set of numbers has a least member: what stands in for induction below.
LEMMA Least ==
  ASSUME NEW T \in SUBSET Nat, T # {}
  PROVE  \E x \in T : \A y \in T : x <= y
<1> DEFINE Less == {p \in Nat \X Nat : p[1] < p[2]}
<1>1. IsWellFoundedOn(Less, Nat)
  BY NatLessThanWellFounded DEF OpToRel
<1>2. PICK x \in T : \A y \in T : ~(<<y, x>> \in Less)
  BY <1>1, WFMin
<1>3. ASSUME NEW y \in T PROVE x <= y
  <2>1. x \in Nat /\ y \in Nat /\ (y < x => <<y, x>> \in Less)
    OBVIOUS
  <2> QED BY <1>3, <2>1, <1>2
<1> QED BY <1>3

\* The concatenations of the first sequences, one after the other.
Concats(f, seqs) == f = [i \in 1 .. Len(seqs) |-> IF i = 1 THEN seqs[i] ELSE f[i - 1] \o seqs[i]]

\* FlattenSeq is the last of the concatenations of its argument's prefixes ...
LEMMA FlattenDef ==
  ASSUME NEW Elems, NEW seqs \in Seq(Elems), seqs # <<>>
  PROVE  FlattenSeq(seqs) = (CHOOSE f : Concats(f, seqs))[Len(seqs)]
<1>1. Len(seqs) # 0
  OBVIOUS
<1> QED BY <1>1 DEF FlattenSeq, Concats

\* ... which exist: a least length without them would have a predecessor.
LEMMA ConcatsExist ==
  ASSUME NEW seqs, NEW n \in Nat \ {0}, Len(seqs) = n
  PROVE  \E f : Concats(f, seqs)
<1> DEFINE Upto(m, f) == f = [i \in 1 .. m |-> IF i = 1 THEN seqs[i] ELSE f[i - 1] \o seqs[i]]
           Missing == {m \in Nat \ {0} : ~\E f : Upto(m, f)}
<1>1. CASE Missing = {}
  BY <1>1 DEF Concats
<1>2. CASE Missing # {}
  <2>1. PICK m \in Missing : \A k \in Missing : m <= k
    <3>1. Missing \in SUBSET Nat
      OBVIOUS
    <3> HIDE DEF Missing
    <3> QED BY <1>2, <3>1, Least
  <2>2. CASE m = 1
    <3>1. Upto(1, [i \in 1 .. 1 |-> seqs[i]])
      OBVIOUS
    <3> QED BY <3>1, <2>1, <2>2
  <2>3. CASE m # 1
    <3>1. m \in Nat \ {0} /\ m - 1 \in Nat \ {0} /\ ~(m <= m - 1)
      BY <2>3
    <3>2. PICK f : Upto(m - 1, f)
      BY <3>1, <2>1
    <3> DEFINE g == [i \in 1 .. m |-> IF i = 1 THEN seqs[i] ELSE f[i - 1] \o seqs[i]]
    <3>3. \A i \in 1 .. m - 1 : g[i] = f[i]
      <4>1. \A i \in 1 .. m - 1 : f[i] = IF i = 1 THEN seqs[i] ELSE f[i - 1] \o seqs[i]
        BY <3>2, Zenon
      <4>2. \A i \in 1 .. m - 1 : i \in 1 .. m
        BY <3>1
      <4> QED BY <4>1, <4>2, Zenon
    <3>4. \A i \in 1 .. m : i # 1 => i - 1 \in 1 .. m - 1
      BY <3>1
    <3>5. \A i \in 1 .. m : i # 1 => g[i - 1] = f[i - 1]
      BY <3>3, <3>4
    <3>6. g = [i \in 1 .. m |-> IF i = 1 THEN seqs[i] ELSE g[i - 1] \o seqs[i]]
      <4> DEFINE h == [i \in 1 .. m |-> IF i = 1 THEN seqs[i] ELSE g[i - 1] \o seqs[i]]
      <4>1. \A i \in 1 .. m : g[i] = h[i]
        BY <3>5
      <4>3. g = [i \in 1 .. m |-> g[i]] /\ h = [i \in 1 .. m |-> h[i]]
        OBVIOUS
      <4> HIDE DEF g, h
      <4>4. g = h
        BY <4>1, <4>3
      <4> QED BY <4>4 DEF h
    <3>7. Upto(m, g)
      BY <3>6
    <3> HIDE DEF g
    <3> QED BY <3>7, <2>1
  <2> QED BY <2>2, <2>3
<1> QED BY <1>1, <1>2

\* Where each sequence stands in the concatenation of the first m.
Blocks(flat, seqs, m, off) ==
  /\ \A k \in 1 .. m : \A j \in DOMAIN seqs[k] :
       off[k] + j \in DOMAIN flat /\ flat[off[k] + j] = seqs[k][j]
  /\ \A i \in DOMAIN flat : \E k \in 1 .. m : \E j \in DOMAIN seqs[k] : i = off[k] + j

\* A concatenation is made of its blocks, one after the other, and of nothing else.
LEMMA FlattenBlocks ==
  ASSUME NEW Elems, NEW seqs \in Seq(Seq(Elems))
  PROVE  /\ FlattenSeq(seqs) \in Seq(Elems)
         /\ \E off \in [DOMAIN seqs -> Nat] : Blocks(FlattenSeq(seqs), seqs, Len(seqs), off)
<1>1. CASE seqs = <<>>
  <2>1. FlattenSeq(seqs) = <<>>
    BY <1>1 DEF FlattenSeq
  <2> DEFINE off == [k \in DOMAIN seqs |-> 0]
  <2>2. off \in [DOMAIN seqs -> Nat]
    OBVIOUS
  <2>3. Blocks(<<>>, seqs, Len(seqs), off)
    <3>1. Len(seqs) = 0 /\ DOMAIN <<>> = {}
      BY <1>1
    <3>2. 1 .. 0 = {}
      OBVIOUS
    <3> QED BY <3>1, <3>2 DEF Blocks
  <2>4. <<>> \in Seq(Elems)
    OBVIOUS
  <2> HIDE DEF off
  <2> QED BY <2>1, <2>2, <2>3, <2>4
<1>2. CASE seqs # <<>>
  <2> DEFINE n == Len(seqs)
             f == CHOOSE g : Concats(g, seqs)
             off == [k \in DOMAIN seqs |-> IF k = 1 THEN 0 ELSE Len(f[k - 1])]
             Good(m) == f[m] \in Seq(Elems) /\ Blocks(f[m], seqs, m, off)
             Bad == {m \in 1 .. n : ~Good(m)}
  <2>1. n \in Nat \ {0} /\ DOMAIN seqs = 1 .. n /\ \A k \in 1 .. n : seqs[k] \in Seq(Elems)
    BY <1>2
  <2>2. Concats(f, seqs)
    BY <2>1, ConcatsExist
  <2>3. FlattenSeq(seqs) = f[n]
    BY <1>2, FlattenDef
  <2> HIDE DEF f
  <2>4. f[1] = seqs[1] /\ \A m \in 1 .. n : m # 1 => f[m] = f[m - 1] \o seqs[m]
    <3>1. \A i \in 1 .. n : f[i] = IF i = 1 THEN seqs[i] ELSE f[i - 1] \o seqs[i]
      BY <2>2, Zenon DEF Concats
    <3>2. 1 \in 1 .. n
      BY <2>1
    <3> QED BY <3>1, <3>2, Zenon
  <2>5. Good(1)
    BY <2>1, <2>4 DEF Blocks
  <2>6. ASSUME NEW m \in 1 .. n, m # 1, Good(m - 1) PROVE Good(m)
    <3> DEFINE a == f[m - 1]
               b == seqs[m]
    <3>1. m - 1 \in 1 .. n /\ m - 1 \in Nat /\ m \in Nat /\ n \in Nat
      BY <2>1, <2>6
    <3>2. a \in Seq(Elems) /\ b \in Seq(Elems) /\ f[m] = a \o b
      BY <2>1, <2>4, <2>6
    <3>3. /\ a \o b \in Seq(Elems) /\ Len(a \o b) = Len(a) + Len(b)
          /\ \A i \in 1 .. Len(a) + Len(b) : (a \o b)[i] = IF i <= Len(a) THEN a[i] ELSE b[i - Len(a)]
      BY <3>2, ConcatProperties
    <3>4. off[m] = Len(a)
      BY <2>1, <2>6
    <3>5. Blocks(a, seqs, m - 1, off)
      BY <2>6
    <3> HIDE DEF a, off
    <3>6. Len(a) \in Nat /\ Len(b) \in Nat /\ DOMAIN a = 1 .. Len(a) /\ DOMAIN b = 1 .. Len(b)
      BY <3>2
    <3>7. ASSUME NEW k \in 1 .. m, NEW j \in DOMAIN seqs[k]
          PROVE  off[k] + j \in DOMAIN (a \o b) /\ (a \o b)[off[k] + j] = seqs[k][j]
      <4>1. CASE k = m
        <5>1. j \in 1 .. Len(b) /\ off[k] + j = Len(a) + j
          BY <3>4, <3>6, <4>1
        <5>2. Len(a) + j \in 1 .. Len(a) + Len(b) /\ ~(Len(a) + j <= Len(a)) /\ (Len(a) + j) - Len(a) = j
          BY <5>1, <3>6
        <5>3. (a \o b)[Len(a) + j] = b[j]
          BY <5>2, <3>3
        <5> QED BY <5>1, <5>2, <5>3, <3>3, <4>1
      <4>2. CASE k # m
        <5>1. k \in 1 .. m - 1
          BY <3>1, <4>2
        <5>2. off[k] + j \in 1 .. Len(a) /\ a[off[k] + j] = seqs[k][j]
          BY <5>1, <3>5, <3>6 DEF Blocks
        <5>3. off[k] + j \in 1 .. Len(a) + Len(b) /\ off[k] + j <= Len(a)
          BY <5>2, <3>6
        <5> QED BY <5>2, <5>3, <3>3
      <4> QED BY <4>1, <4>2
    <3>8. ASSUME NEW i \in DOMAIN (a \o b)
          PROVE  \E k \in 1 .. m : \E j \in DOMAIN seqs[k] : i = off[k] + j
      <4>1. i \in 1 .. Len(a) + Len(b)
        BY <3>3
      <4>2. CASE i <= Len(a)
        <5>1. i \in DOMAIN a
          BY <4>1, <4>2, <3>6
        <5>2. PICK k \in 1 .. m - 1 : \E j \in DOMAIN seqs[k] : i = off[k] + j
          BY <5>1, <3>5 DEF Blocks
        <5>3. k \in 1 .. m
          BY <3>1
        <5> QED BY <5>2, <5>3
      <4>3. CASE ~(i <= Len(a))
        <5>1. i - Len(a) \in DOMAIN b /\ i = off[m] + (i - Len(a)) /\ m \in 1 .. m
          BY <4>1, <4>3, <3>1, <3>4, <3>6
        <5> QED BY <5>1
      <4> QED BY <4>2, <4>3
    <3> QED BY <3>2, <3>3, <3>7, <3>8 DEF Blocks
  <2>7. Bad = {}
    <3>1. SUFFICES ASSUME Bad # {} PROVE FALSE
      OBVIOUS
    <3>2. Bad \in SUBSET Nat
      BY <2>1
    <3> HIDE DEF Good
    <3>3. PICK m \in Bad : \A k \in Bad : m <= k
      <4> HIDE DEF Bad
      <4> QED BY <3>1, <3>2, Least
    <3>4. m \in 1 .. n /\ m # 1 /\ ~Good(m)
      BY <2>5, <3>3
    <3>5. m - 1 \in 1 .. n /\ ~(m <= m - 1)
      BY <2>1, <3>4
    <3>6. Good(m - 1)
      BY <3>3, <3>5
    <3> QED BY <2>6, <3>4, <3>6
  <2>8. Good(n)
    <3>1. n \in 1 .. n
      BY <2>1
    <3> HIDE DEF Good
    <3> QED BY <2>7, <3>1
  <2>9. off \in [DOMAIN seqs -> Nat]
    <3>1. ASSUME NEW k \in 1 .. n, k # 1 PROVE Len(f[k - 1]) \in Nat
      <4>1. k - 1 \in 1 .. n
        BY <3>1, <2>1
      <4>2. f[k - 1] \in Seq(Elems)
        BY <4>1, <2>7
      <4> QED BY <4>2
    <3> QED BY <2>1, <3>1
  <2> HIDE DEF off
  <2> QED BY <2>3, <2>8, <2>9
<1> QED BY <1>1, <1>2

-----------------------------------------------------------------------------
(* The order of a script.                                                  *)

\* What a script may address, and its steps.
Targets == Numbers \cup {0, Number(Esp), Number(Data), MenuPart} \cup {Number(<<"payload", i>>) : i \in Nat}
OpNames == {"inspect", "key", "release", "label", "mkpart", "wait", "vfat", "ext4", "dd", "dddisk",
            "stale", "luks", "open", "close", "mount", "umount", "stage", "find", "locate",
            "render", "config", "finalize"}
Steps == [op : OpNames, n : Targets, luks : BOOLEAN]

\* The steps that write to the device or open a mapping on it ...
Writing == {"label", "mkpart", "vfat", "ext4", "dd", "dddisk", "luks", "open"}
\* ... and those that put something into the temporary root.
Using == {"key", "mount"}

Ops(s) == {s[i].op : i \in DOMAIN s}
\* A step of A comes after one that does b.
After(b, A, s) == \A i \in DOMAIN s : s[i].op \in A => \E j \in 1 .. i - 1 : s[j].op = b
\* What is opened is closed later.
Closes(s) ==
  \A i \in DOMAIN s : s[i].op = "open" =>
    \E j \in DOMAIN s : j > i /\ s[j].op = "close" /\ s[j].n = s[i].n
\* Every passphrase is asked for before the first erasure.
KeysFirst(s) ==
  \A n \in Encrypted : \E i \in DOMAIN s :
    /\ s[i] = S("key", n)
    /\ \A j \in DOMAIN s : s[j].op \in {"release", "label"} => i < j

\* The beginning of a script, and what may be appended to it.
Fit(s) ==
  /\ s \in Seq(Steps) /\ "finalize" \notin Ops(s)
  /\ After("release", Writing, s) /\ After("inspect", Using, s) /\ Closes(s)
Piece(t) == t \in Seq(Steps) /\ "finalize" \notin Ops(t) /\ Closes(t)

Shaped ==
  /\ script \in Seq(Steps) /\ script # <<>>
  /\ After("release", Writing, script) /\ After("inspect", Using, script) /\ Closes(script)
  /\ \A i \in DOMAIN script : script[i].op = "finalize" => i = Len(script)
  /\ job.flow # "direct" => script[Len(script)].op = "finalize"
  /\ job.flow = "direct" => Ops(script) \cap (Using \cup {"open"}) = {}
  /\ ~job.update => KeysFirst(script)

\* What the concatenation of two scripts holds.
LEMMA Joined ==
  ASSUME NEW s \in Seq(Steps), NEW t \in Seq(Steps)
  PROVE  /\ s \o t \in Seq(Steps)
         /\ \A i \in DOMAIN s : i \in DOMAIN (s \o t) /\ (s \o t)[i] = s[i]
         /\ \A i \in DOMAIN t : Len(s) + i \in DOMAIN (s \o t) /\ (s \o t)[Len(s) + i] = t[i]
         /\ \A k \in DOMAIN (s \o t) : k \in DOMAIN s \/ \E i \in DOMAIN t : k = Len(s) + i
         /\ Ops(s \o t) = Ops(s) \cup Ops(t)
<1> DEFINE u == s \o t
<1>1. /\ u \in Seq(Steps) /\ Len(u) = Len(s) + Len(t)
      /\ \A i \in 1 .. Len(s) + Len(t) : u[i] = IF i <= Len(s) THEN s[i] ELSE t[i - Len(s)]
  BY ConcatProperties
<1>2. /\ Len(s) \in Nat /\ Len(t) \in Nat /\ DOMAIN s = 1 .. Len(s) /\ DOMAIN t = 1 .. Len(t)
      /\ DOMAIN u = 1 .. Len(s) + Len(t)
  BY <1>1
<1> HIDE DEF u
<1>3. ASSUME NEW i \in DOMAIN s PROVE i \in DOMAIN u /\ u[i] = s[i]
  BY <1>1, <1>2
<1>4. ASSUME NEW i \in DOMAIN t PROVE Len(s) + i \in DOMAIN u /\ u[Len(s) + i] = t[i]
  <2>1. i \in 1 .. Len(t) /\ Len(s) + i \in 1 .. Len(s) + Len(t) /\ ~(Len(s) + i <= Len(s))
        /\ (Len(s) + i) - Len(s) = i
    BY <1>2
  <2> QED BY <2>1, <1>1, <1>2
<1>5. ASSUME NEW k \in DOMAIN u PROVE k \in DOMAIN s \/ \E i \in DOMAIN t : k = Len(s) + i
  <2>1. CASE k <= Len(s)
    BY <2>1, <1>2
  <2>2. CASE ~(k <= Len(s))
    <3>1. k - Len(s) \in DOMAIN t /\ k = Len(s) + (k - Len(s))
      BY <2>2, <1>2
    <3> QED BY <3>1
  <2> QED BY <2>1, <2>2
<1>6. Ops(u) = Ops(s) \cup Ops(t)
  <2>1. Ops(s) \subseteq Ops(u)
    BY <1>3 DEF Ops
  <2>2. Ops(t) \subseteq Ops(u)
    BY <1>4 DEF Ops
  <2>3. Ops(u) \subseteq Ops(s) \cup Ops(t)
    BY <1>3, <1>4, <1>5 DEF Ops
  <2> QED BY <2>1, <2>2, <2>3
<1> QED BY <1>1, <1>3, <1>4, <1>5, <1>6 DEF u

\* A step that has what it needs before it keeps it.
LEMMA AfterJoined ==
  ASSUME NEW s \in Seq(Steps), NEW t \in Seq(Steps), NEW b, NEW A,
         After(b, A, s), b \in Ops(s) \/ After(b, A, t)
  PROVE  After(b, A, s \o t)
<1> DEFINE u == s \o t
<1>1. /\ \A i \in DOMAIN s : i \in DOMAIN u /\ u[i] = s[i]
      /\ \A i \in DOMAIN t : Len(s) + i \in DOMAIN u /\ u[Len(s) + i] = t[i]
      /\ \A k \in DOMAIN u : k \in DOMAIN s \/ \E i \in DOMAIN t : k = Len(s) + i
  BY Joined
<1>2. Len(s) \in Nat /\ DOMAIN s = 1 .. Len(s) /\ Len(t) \in Nat /\ DOMAIN t = 1 .. Len(t)
  OBVIOUS
<1> HIDE DEF u
<1>3. ASSUME NEW k \in DOMAIN u, u[k].op \in A PROVE \E j \in 1 .. k - 1 : u[j].op = b
  <2>1. CASE k \in DOMAIN s
    <3>1. PICK j \in 1 .. k - 1 : s[j].op = b
      BY <1>1, <1>3, <2>1 DEF After
    <3>2. j \in DOMAIN s
      BY <1>2, <2>1
    <3> QED BY <3>1, <3>2, <1>1
  <2>2. ASSUME NEW i \in DOMAIN t, k = Len(s) + i PROVE \E j \in 1 .. k - 1 : u[j].op = b
    <3>1. CASE b \in Ops(s)
      <4>1. PICK j \in DOMAIN s : s[j].op = b
        BY <3>1 DEF Ops
      <4>2. j \in 1 .. k - 1
        BY <1>2, <2>2
      <4> QED BY <4>1, <4>2, <1>1
    <3>2. CASE After(b, A, t)
      <4>1. t[i].op \in A
        BY <1>1, <1>3, <2>2
      <4>2. PICK j \in 1 .. i - 1 : t[j].op = b
        BY <4>1, <3>2, <2>2 DEF After
      <4>3. j \in DOMAIN t /\ Len(s) + j \in 1 .. k - 1
        BY <1>2, <2>2
      <4> QED BY <4>2, <4>3, <1>1
    <3> QED BY <3>1, <3>2
  <2> QED BY <2>1, <2>2, <1>1
<1> QED BY <1>3 DEF After, u

\* What is opened in a part is closed in the whole.
LEMMA ClosesJoined ==
  ASSUME NEW s \in Seq(Steps), NEW t \in Seq(Steps), Closes(s), Closes(t)
  PROVE  Closes(s \o t)
<1> DEFINE u == s \o t
<1>1. /\ \A i \in DOMAIN s : i \in DOMAIN u /\ u[i] = s[i]
      /\ \A i \in DOMAIN t : Len(s) + i \in DOMAIN u /\ u[Len(s) + i] = t[i]
      /\ \A k \in DOMAIN u : k \in DOMAIN s \/ \E i \in DOMAIN t : k = Len(s) + i
  BY Joined
<1>2. Len(s) \in Nat /\ DOMAIN s = 1 .. Len(s) /\ Len(t) \in Nat /\ DOMAIN t = 1 .. Len(t)
  OBVIOUS
<1> HIDE DEF u
<1>3. ASSUME NEW k \in DOMAIN u, u[k].op = "open"
      PROVE  \E j \in DOMAIN u : j > k /\ u[j].op = "close" /\ u[j].n = u[k].n
  <2>1. CASE k \in DOMAIN s
    <3>1. PICK j \in DOMAIN s : j > k /\ s[j].op = "close" /\ s[j].n = s[k].n
      BY <1>1, <1>3, <2>1 DEF Closes
    <3> QED BY <3>1, <1>1, <2>1
  <2>2. ASSUME NEW i \in DOMAIN t, k = Len(s) + i
        PROVE  \E j \in DOMAIN u : j > k /\ u[j].op = "close" /\ u[j].n = u[k].n
    <3>1. t[i].op = "open" /\ u[k] = t[i]
      BY <1>1, <1>3, <2>2
    <3>2. PICK j \in DOMAIN t : j > i /\ t[j].op = "close" /\ t[j].n = t[i].n
      BY <3>1 DEF Closes
    <3>3. Len(s) + j \in DOMAIN u /\ u[Len(s) + j] = t[j] /\ Len(s) + j > k
      BY <1>1, <1>2, <2>2, <3>2
    <3> QED BY <3>1, <3>2, <3>3
  <2> QED BY <2>1, <2>2, <1>1
<1> QED BY <1>3 DEF Closes, u

\* What asks for its passphrases first does so whatever follows.
LEMMA KeysFirstJoined ==
  ASSUME NEW s \in Seq(Steps), NEW t \in Seq(Steps), KeysFirst(s)
  PROVE  KeysFirst(s \o t)
<1> DEFINE u == s \o t
<1>1. /\ \A i \in DOMAIN s : i \in DOMAIN u /\ u[i] = s[i]
      /\ \A k \in DOMAIN u : k \in DOMAIN s \/ \E i \in DOMAIN t : k = Len(s) + i
  BY Joined
<1>2. Len(s) \in Nat /\ DOMAIN s = 1 .. Len(s) /\ Len(t) \in Nat /\ DOMAIN t = 1 .. Len(t)
  OBVIOUS
<1> HIDE DEF u
<1>3. ASSUME NEW n \in Encrypted
      PROVE  \E i \in DOMAIN u : /\ u[i] = S("key", n)
                                 /\ \A j \in DOMAIN u : u[j].op \in {"release", "label"} => i < j
  <2>1. PICK i \in DOMAIN s : /\ s[i] = S("key", n)
                              /\ \A j \in DOMAIN s : s[j].op \in {"release", "label"} => i < j
    BY DEF KeysFirst
  <2>2. ASSUME NEW j \in DOMAIN u, u[j].op \in {"release", "label"} PROVE i < j
    <3>1. CASE j \in DOMAIN s
      BY <3>1, <2>1, <2>2, <1>1
    <3>2. CASE \E k \in DOMAIN t : j = Len(s) + k
      BY <3>2, <1>2
    <3> QED BY <3>1, <3>2, <1>1
  <2> QED BY <2>1, <2>2, <1>1
<1> QED BY <1>3 DEF KeysFirst, u

\* A piece may follow a beginning that has released and inspected.
LEMMA FitJoined ==
  ASSUME NEW s, Fit(s), NEW t, Piece(t),
         "release" \in Ops(s) \/ After("release", Writing, t),
         "inspect" \in Ops(s) \/ After("inspect", Using, t)
  PROVE  Fit(s \o t) /\ Ops(s \o t) = Ops(s) \cup Ops(t) /\ (KeysFirst(s) => KeysFirst(s \o t))
<1>1. s \in Seq(Steps) /\ t \in Seq(Steps)
  BY DEF Fit, Piece
<1> QED
  BY <1>1, Joined, AfterJoined, ClosesJoined, KeysFirstJoined DEF Fit, Piece

\* Steps of which none opens anything or ends the script.
LEMMA PlainPiece ==
  ASSUME NEW t \in Seq(Steps), Ops(t) \cap {"open", "finalize"} = {}
  PROVE  Piece(t)
BY DEF Piece, Closes, Ops

\* Where nothing of A is done, nothing of it comes too early.
LEMMA PlainAfter ==
  ASSUME NEW t \in Seq(Steps), NEW b, NEW A, Ops(t) \cap A = {}
  PROVE  After(b, A, t)
BY DEF After, Ops

-----------------------------------------------------------------------------
(* The layouts, and the parts of the scripts.                              *)

AskedFor == {i \in DOMAIN job.items : job.items[i].persist # "none"}
Roles == {Esp, Data, Bios, <<"other", 0>>} \cup {<<"payload", i>> : i \in Nat}
         \cup {<<"persist", i>> : i \in AskedFor}

\* A layout is a sequence of roles.
LEMMA LayoutTyped ==
  ASSUME job \in JobType, layout = Layout
  PROVE  layout \in Seq(Roles)
<1>1. job.items \in Seq(ItemType) /\ DOMAIN job.items = 1 .. Len(job.items) /\ Len(job.items) \in Nat
  BY DEF JobType
<1>2. Persists \in Seq(Roles)
  <2> DEFINE Asked(i) == IF job.items[i].persist = "none" THEN <<>> ELSE <<<<"persist", i>>>>
             seqs == [k \in DOMAIN Indices |-> Asked(Indices[k])]
  <2>1. Persists = FlattenSeq(seqs)
    BY DEF Persists, Each
  <2>2. DOMAIN Indices = 1 .. Len(job.items) /\ \A k \in DOMAIN Indices : Indices[k] = k
    BY <1>1 DEF Indices
  <2>3. ASSUME NEW k \in 1 .. Len(job.items) PROVE Asked(k) \in Seq(Roles)
    <3>1. CASE job.items[k].persist = "none"
      BY <3>1
    <3>2. CASE job.items[k].persist # "none"
      <4>1. <<"persist", k>> \in Roles
        BY <3>2, <1>1 DEF Roles, AskedFor
      <4> QED BY <4>1, <3>2
    <3> QED BY <3>1, <3>2
  <2> HIDE DEF Asked
  <2>4. seqs \in Seq(Seq(Roles))
    <3>1. seqs = [k \in 1 .. Len(job.items) |-> Asked(k)]
      BY <2>2
    <3> QED BY <3>1, <2>3, <1>1
  <2> QED BY <2>1, <2>4, FlattenBlocks
<1>3. ASSUME NEW class PROVE Payloads(class) \in Seq(Roles)
  <2> DEFINE In(i) == IF job.items[i].class = class THEN <<<<"payload", i>>>> ELSE <<>>
             seqs == [k \in DOMAIN Indices |-> In(Indices[k])]
  <2>1. Payloads(class) = FlattenSeq(seqs)
    BY DEF Payloads, Each
  <2>2. DOMAIN Indices = 1 .. Len(job.items) /\ \A k \in DOMAIN Indices : Indices[k] = k
    BY <1>1 DEF Indices
  <2>3. ASSUME NEW k \in 1 .. Len(job.items) PROVE In(k) \in Seq(Roles)
    <3>1. <<"payload", k>> \in Roles
      BY DEF Roles
    <3> QED BY <3>1
  <2> HIDE DEF In
  <2>4. seqs \in Seq(Seq(Roles))
    <3>1. seqs = [k \in 1 .. Len(job.items) |-> In(k)]
      BY <2>2
    <3> QED BY <3>1, <2>3, <1>1
  <2> QED BY <2>1, <2>4, FlattenBlocks
<1>4. Esp \in Roles /\ Data \in Roles /\ Bios \in Roles /\ <<"other", 0>> \in Roles /\ <<"payload", 1>> \in Roles
  BY DEF Roles
<1>5. ASSUME NEW s \in Seq(Roles), NEW t \in Seq(Roles) PROVE s \o t \in Seq(Roles)
  BY ConcatProperties
<1> HIDE DEF Roles
<1>6. SingleLayout \in Seq(Roles)
  BY <1>4 DEF SingleLayout
<1>7. ManagedLayout \in Seq(Roles)
  <2>1. (IF job.first THEN <<<<"payload", 1>>, Esp>> ELSE <<Esp, <<"payload", 1>>>>) \in Seq(Roles)
    BY <1>4
  <2> QED BY <2>1, <1>2, <1>5 DEF ManagedLayout
<1>8. SharedLayout \in Seq(Roles)
  <2>1. <<Esp, Data>> \in Seq(Roles)
    BY <1>4
  <2> QED BY <2>1, <1>2, <1>5 DEF SharedLayout
<1>9. RawLayout \in Seq(Roles)
  <2> DEFINE images == Payloads("installer") \o Payloads("live")
  <2>1. images \in Seq(Roles) /\ <<Esp>> \in Seq(Roles)
    BY <1>3, <1>4, <1>5
  <2> HIDE DEF images
  <2>2. images \o <<Esp>> \in Seq(Roles) /\ <<Esp>> \o images \in Seq(Roles)
    BY <2>1, <1>5
  <2>3. (IF job.first THEN images \o <<Esp>> ELSE <<Esp>> \o images) \in Seq(Roles)
    BY <2>2
  <2>4. RawLayout = (IF job.first THEN images \o <<Esp>> ELSE <<Esp>> \o images) \o Persists
    BY DEF RawLayout, images
  <2> QED BY <2>3, <2>4, <1>2, <1>5
<1>10. <<<<"other", 0>>>> \in Seq(Roles)
  BY <1>4
<1>11. job.flow \in {"direct", "single", "managed", "shared", "raw"}
  BY DEF JobType
<1> QED
  BY <1>6, <1>7, <1>8, <1>9, <1>10, <1>11 DEF Layout

\* A persistence partition belongs to a system that asked for one.
LEMMA LayoutFacts ==
  ASSUME job \in JobType, layout = Layout
  PROVE  /\ Numbers = 1 .. Len(layout) /\ Len(layout) \in Nat
         /\ InOrder = [n \in 1 .. Len(layout) |-> n]
         /\ \A n \in Numbers : layout[n][1] = "persist" => Persistence(n) \in {"bare", "plain", "encrypted"}
         /\ job.flow = "direct" => Encrypted = {}
<1>1. layout \in Seq(Roles)
  BY LayoutTyped
<1>2. Numbers = 1 .. Len(layout) /\ Len(layout) \in Nat /\ InOrder = [n \in 1 .. Len(layout) |-> n]
  BY <1>1 DEF Numbers, InOrder
<1>3. ASSUME NEW n \in Numbers, layout[n][1] = "persist"
      PROVE  Persistence(n) \in {"bare", "plain", "encrypted"}
  <2>1. layout[n] \in Roles
    BY <1>1, <1>2
  <2>2. PICK i \in AskedFor : layout[n] = <<"persist", i>>
    BY <2>1, <1>3 DEF Roles, Esp, Data, Bios
  <2>3. layout[n][2] = i
    BY <2>2
  <2>4. job.items[i] \in ItemType /\ job.items[i].persist # "none"
    BY DEF AskedFor, JobType
  <2> QED BY <2>3, <2>4 DEF Persistence, ItemType
<1>4. job.flow = "direct" => Encrypted = {}
  <2> SUFFICES ASSUME job.flow = "direct", NEW n \in Numbers, layout[n][1] = "persist" PROVE FALSE
    BY DEF Encrypted
  <2>1. layout = <<<<"other", 0>>>>
    BY DEF Layout
  <2>2. Len(layout) = 1 /\ n = 1
    BY <2>1, <1>2
  <2> QED BY <2>1, <2>2
<1> QED BY <1>2, <1>3, <1>4

\* The steps the scripts are made of.
LEMMA StepTyped ==
  ASSUME NEW op \in OpNames, NEW n \in Targets
  PROVE  /\ S(op, n) \in Steps /\ S(op, n).op = op /\ S(op, n).n = n
         /\ L(op, n) \in Steps /\ L(op, n).op = op /\ L(op, n).n = n
BY DEF S, L, Steps

\* The partitions the scripts address.
LEMMA TargetsHold ==
  /\ 0 \in Targets /\ Number(Esp) \in Targets /\ Number(Data) \in Targets /\ MenuPart \in Targets
  /\ \A n \in Numbers : n \in Targets
  /\ \A i \in Nat : Number(<<"payload", i>>) \in Targets
BY DEF Targets

\* A concatenation of pieces is a piece, and keeps their steps.
LEMMA FlatPiece ==
  ASSUME NEW seqs \in Seq(Seq(Steps))
  PROVE  /\ FlattenSeq(seqs) \in Seq(Steps)
         /\ \A A : (\A k \in DOMAIN seqs : Ops(seqs[k]) \subseteq A) => Ops(FlattenSeq(seqs)) \subseteq A
         /\ (\A k \in DOMAIN seqs : Piece(seqs[k])) => Piece(FlattenSeq(seqs))
         /\ \A k \in DOMAIN seqs : \A j \in DOMAIN seqs[k] :
              \E i \in DOMAIN FlattenSeq(seqs) : FlattenSeq(seqs)[i] = seqs[k][j]
<1> DEFINE flat == FlattenSeq(seqs)
           n == Len(seqs)
<1>1. flat \in Seq(Steps)
  BY FlattenBlocks
<1>2. PICK off \in [DOMAIN seqs -> Nat] : Blocks(flat, seqs, n, off)
  BY FlattenBlocks
<1>3. DOMAIN seqs = 1 .. n /\ n \in Nat /\ \A k \in 1 .. n : seqs[k] \in Seq(Steps)
  OBVIOUS
<1> HIDE DEF flat, n
<1>4. ASSUME NEW i \in DOMAIN flat
      PROVE  \E k \in 1 .. n : \E j \in DOMAIN seqs[k] : i = off[k] + j /\ flat[i] = seqs[k][j]
  <2>1. PICK k \in 1 .. n : \E j \in DOMAIN seqs[k] : i = off[k] + j
    BY <1>2 DEF Blocks
  <2>2. PICK j \in DOMAIN seqs[k] : i = off[k] + j
    BY <2>1
  <2>3. flat[off[k] + j] = seqs[k][j]
    BY <1>2 DEF Blocks
  <2> QED BY <2>2, <2>3
<1>5. ASSUME NEW A, \A k \in DOMAIN seqs : Ops(seqs[k]) \subseteq A PROVE Ops(flat) \subseteq A
  <2> SUFFICES ASSUME NEW i \in DOMAIN flat PROVE flat[i].op \in A
    BY DEF Ops
  <2>1. PICK k \in 1 .. n : \E j \in DOMAIN seqs[k] : i = off[k] + j /\ flat[i] = seqs[k][j]
    BY <1>4
  <2>2. PICK j \in DOMAIN seqs[k] : flat[i] = seqs[k][j]
    BY <2>1
  <2>3. seqs[k][j].op \in Ops(seqs[k])
    BY DEF Ops
  <2> QED BY <2>2, <2>3, <1>5, <1>3
<1>6. ASSUME \A k \in DOMAIN seqs : Piece(seqs[k]) PROVE Piece(flat)
  <2>1. "finalize" \notin Ops(flat)
    <3>1. \A k \in DOMAIN seqs : Ops(seqs[k]) \subseteq {x \in OpNames : x # "finalize"}
      <4> SUFFICES ASSUME NEW k \in DOMAIN seqs, NEW j \in DOMAIN seqs[k]
                   PROVE  seqs[k][j].op \in {x \in OpNames : x # "finalize"}
        BY DEF Ops
      <4>1. seqs[k][j] \in Steps
        BY <1>3
      <4> QED BY <4>1, <1>6 DEF Piece, Ops, Steps
    <3> QED BY <3>1, <1>5
  <2>2. ASSUME NEW i \in DOMAIN flat, flat[i].op = "open"
        PROVE  \E h \in DOMAIN flat : h > i /\ flat[h].op = "close" /\ flat[h].n = flat[i].n
    <3>1. PICK k \in 1 .. n : \E j \in DOMAIN seqs[k] : i = off[k] + j /\ flat[i] = seqs[k][j]
      BY <1>4
    <3>2. PICK j \in DOMAIN seqs[k] : i = off[k] + j /\ flat[i] = seqs[k][j]
      BY <3>1
    <3>3. PICK h \in DOMAIN seqs[k] : h > j /\ seqs[k][h].op = "close" /\ seqs[k][h].n = seqs[k][j].n
      BY <3>2, <2>2, <1>3, <1>6 DEF Piece, Closes
    <3>4. off[k] + h \in DOMAIN flat /\ flat[off[k] + h] = seqs[k][h]
      BY <1>2 DEF Blocks
    <3>5. off[k] + h > off[k] + j
      <4>1. off[k] \in Nat /\ DOMAIN seqs[k] = 1 .. Len(seqs[k])
        BY <1>3
      <4> QED BY <4>1, <3>3
    <3> QED BY <3>2, <3>3, <3>4, <3>5
  <2> QED BY <1>1, <2>1, <2>2 DEF Piece, Closes, flat
<1>7. ASSUME NEW k \in DOMAIN seqs, NEW j \in DOMAIN seqs[k]
      PROVE  \E i \in DOMAIN flat : flat[i] = seqs[k][j]
  BY <1>2, <1>3 DEF Blocks
<1> QED BY <1>1, <1>5, <1>6, <1>7 DEF flat

\* One step, two steps.
LEMMA ShortPiece ==
  ASSUME NEW a \in Steps, NEW b \in Steps
  PROVE  /\ <<a>> \in Seq(Steps) /\ Ops(<<a>>) = {a.op} /\ <<a>>[1] = a /\ DOMAIN <<a>> = {1}
         /\ <<a, b>> \in Seq(Steps) /\ Ops(<<a, b>>) = {a.op, b.op}
         /\ <<>> \in Seq(Steps) /\ Ops(<<>>) = {}
<1>1. DOMAIN <<a>> = {1} /\ DOMAIN <<a, b>> = {1, 2} /\ DOMAIN <<>> = {}
  OBVIOUS
<1>2. <<a>>[1] = a /\ <<a, b>>[1] = a /\ <<a, b>>[2] = b
  OBVIOUS
<1>3. <<a>> \in Seq(Steps) /\ <<a, b>> \in Seq(Steps) /\ <<>> \in Seq(Steps)
  OBVIOUS
<1> QED BY <1>1, <1>2, <1>3 DEF Ops

\* One piece for every partition, in order.
LEMMA PerPartition ==
  ASSUME job \in JobType, layout = Layout, NEW f, DOMAIN f = Numbers,
         \A n \in Numbers : f[n] \in Seq(Steps)
  PROVE  LET seqs == [k \in DOMAIN InOrder |-> f[InOrder[k]]]
         IN  seqs \in Seq(Seq(Steps)) /\ DOMAIN seqs = Numbers /\ \A n \in Numbers : seqs[n] = f[n]
<1>1. Numbers = 1 .. Len(layout) /\ Len(layout) \in Nat /\ InOrder = [n \in 1 .. Len(layout) |-> n]
  BY LayoutFacts
<1> HIDE DEF InOrder
<1>2. DOMAIN InOrder = 1 .. Len(layout) /\ \A k \in 1 .. Len(layout) : InOrder[k] = k
  BY <1>1
<1>3. [k \in DOMAIN InOrder |-> f[InOrder[k]]] = [k \in 1 .. Len(layout) |-> f[k]]
  BY <1>2
<1> QED BY <1>1, <1>3

\* Passphrases, partitions and nodes.
Keys == LET Key(n) == IF n \in Encrypted THEN <<S("key", n)>> ELSE <<>> IN Each(InOrder, Key)
Makes == LET One(n) == <<S("mkpart", n)>> IN Each(InOrder, One)
Waits == LET Wait(n) == IF layout[n] = Bios THEN <<>> ELSE <<S("wait", n)>> IN Each(InOrder, Wait)

\* Every passphrase is asked for.
LEMMA KeysPiece ==
  ASSUME job \in JobType, layout = Layout
  PROVE  /\ Keys \in Seq(Steps) /\ Ops(Keys) \subseteq {"key"}
         /\ \A n \in Encrypted : \E i \in DOMAIN Keys : Keys[i] = S("key", n)
<1> DEFINE f == [n \in Numbers |-> IF n \in Encrypted THEN <<S("key", n)>> ELSE <<>>]
           seqs == [k \in DOMAIN InOrder |-> f[InOrder[k]]]
<1>1. ASSUME NEW n \in Numbers
      PROVE  S("key", n) \in Steps /\ S("key", n).op = "key"
  BY StepTyped, TargetsHold DEF OpNames
<1>2. \A n \in Numbers : f[n] \in Seq(Steps) /\ Ops(f[n]) \subseteq {"key"}
  BY <1>1, ShortPiece
<1>3. seqs \in Seq(Seq(Steps)) /\ DOMAIN seqs = Numbers /\ \A n \in Numbers : seqs[n] = f[n]
  BY <1>2, PerPartition
<1>4. Keys = FlattenSeq(seqs)
  <2>1. \A k \in DOMAIN InOrder : InOrder[k] \in Numbers
    BY DEF InOrder
  <2>2. seqs = [k \in DOMAIN InOrder |-> IF InOrder[k] \in Encrypted THEN <<S("key", InOrder[k])>> ELSE <<>>]
    BY <2>1
  <2> QED BY <2>2 DEF Keys, Each
<1> HIDE DEF seqs
<1>5. Keys \in Seq(Steps) /\ Ops(Keys) \subseteq {"key"}
  BY <1>2, <1>3, <1>4, FlatPiece
<1>6. ASSUME NEW n \in Encrypted PROVE \E i \in DOMAIN Keys : Keys[i] = S("key", n)
  <2>1. n \in Numbers
    BY DEF Encrypted
  <2>2. seqs[n] = <<S("key", n)>> /\ 1 \in DOMAIN seqs[n] /\ seqs[n][1] = S("key", n)
    BY <1>1, <1>3, <2>1, ShortPiece
  <2>3. \E i \in DOMAIN FlattenSeq(seqs) : FlattenSeq(seqs)[i] = seqs[n][1]
    BY <1>3, <2>1, <2>2, FlatPiece
  <2> QED BY <2>2, <2>3, <1>4
<1> QED BY <1>5, <1>6

\* Partitions are made ...
LEMMA MakesPiece ==
  ASSUME job \in JobType, layout = Layout
  PROVE  Makes \in Seq(Steps) /\ Ops(Makes) \subseteq {"mkpart"}
<1> DEFINE f == [n \in Numbers |-> <<S("mkpart", n)>>]
           seqs == [k \in DOMAIN InOrder |-> f[InOrder[k]]]
<1>1. ASSUME NEW n \in Numbers PROVE S("mkpart", n) \in Steps /\ S("mkpart", n).op = "mkpart"
  BY StepTyped, TargetsHold DEF OpNames
<1>2. \A n \in Numbers : f[n] \in Seq(Steps) /\ Ops(f[n]) \subseteq {"mkpart"}
  BY <1>1, ShortPiece
<1>3. seqs \in Seq(Seq(Steps)) /\ DOMAIN seqs = Numbers /\ \A n \in Numbers : seqs[n] = f[n]
  BY <1>2, PerPartition
<1>4. Makes = FlattenSeq(seqs)
  <2>1. \A k \in DOMAIN InOrder : InOrder[k] \in Numbers
    BY DEF InOrder
  <2>2. seqs = [k \in DOMAIN InOrder |-> <<S("mkpart", InOrder[k])>>]
    BY <2>1
  <2> QED BY <2>2 DEF Makes, Each
<1> HIDE DEF seqs
<1> QED BY <1>2, <1>3, <1>4, FlatPiece

\* ... and waited for.
LEMMA WaitsPiece ==
  ASSUME job \in JobType, layout = Layout
  PROVE  Waits \in Seq(Steps) /\ Ops(Waits) \subseteq {"wait"}
<1> DEFINE f == [n \in Numbers |-> IF layout[n] = Bios THEN <<>> ELSE <<S("wait", n)>>]
           seqs == [k \in DOMAIN InOrder |-> f[InOrder[k]]]
<1>1. ASSUME NEW n \in Numbers PROVE S("wait", n) \in Steps /\ S("wait", n).op = "wait"
  BY StepTyped, TargetsHold DEF OpNames
<1>2. \A n \in Numbers : f[n] \in Seq(Steps) /\ Ops(f[n]) \subseteq {"wait"}
  BY <1>1, ShortPiece
<1>3. seqs \in Seq(Seq(Steps)) /\ DOMAIN seqs = Numbers /\ \A n \in Numbers : seqs[n] = f[n]
  BY <1>2, PerPartition
<1>4. Waits = FlattenSeq(seqs)
  <2>1. \A k \in DOMAIN InOrder : InOrder[k] \in Numbers
    BY DEF InOrder
  <2>2. seqs = [k \in DOMAIN InOrder |-> IF layout[InOrder[k]] = Bios THEN <<>> ELSE <<S("wait", InOrder[k])>>]
    BY <2>1
  <2> QED BY <2>2 DEF Waits, Each
<1> HIDE DEF seqs
<1> QED BY <1>2, <1>3, <1>4, FlatPiece

\* The persistence of one partition closes the mapping it opens.
LEMMA PersistPiece ==
  ASSUME job \in JobType, layout = Layout, NEW n \in Numbers, layout[n][1] = "persist"
  PROVE  Piece(Persist(n))
<1>1. \A op \in OpNames : /\ S(op, n) \in Steps /\ S(op, n).op = op /\ S(op, n).n = n
                          /\ L(op, n) \in Steps /\ L(op, n).op = op /\ L(op, n).n = n
  BY StepTyped, TargetsHold
<1>2. Persistence(n) \in {"bare", "plain", "encrypted"}
  BY LayoutFacts
<1>3. CASE Persistence(n) = "bare"
  <2>1. Persist(n) = <<S("ext4", n)>>
    BY <1>3 DEF Persist
  <2> QED BY <2>1, <1>1, ShortPiece, PlainPiece DEF OpNames
<1>4. CASE Persistence(n) = "plain"
  <2> DEFINE t == <<S("ext4", n), S("mount", n), S("stage", n), S("umount", n)>>
  <2>1. Persist(n) = t
    BY <1>4 DEF Persist
  <2>2. t \in Seq(Steps)
    BY <1>1 DEF OpNames
  <2>3. \A i \in 1 .. 4 : t[i].op \in {"ext4", "mount", "stage", "umount"}
    BY <1>1 DEF OpNames
  <2>4. DOMAIN t = 1 .. 4
    OBVIOUS
  <2> HIDE DEF t
  <2> QED BY <2>1, <2>2, <2>3, <2>4, PlainPiece DEF Ops
<1>5. CASE Persistence(n) = "encrypted"
  <2> DEFINE t == <<L("stale", n), L("luks", n), L("open", n), L("ext4", n), L("mount", n), L("stage", n),
                    L("umount", n), L("close", n)>>
  <2>1. Persist(n) = t
    BY <1>5 DEF Persist
  <2>2. t \in Seq(Steps)
    BY <1>1 DEF OpNames
  <2>3. DOMAIN t = 1 .. 8
    OBVIOUS
  <2>4. t[1].op = "stale" /\ t[2].op = "luks" /\ t[3].op = "open" /\ t[4].op = "ext4"
        /\ t[5].op = "mount" /\ t[6].op = "stage" /\ t[7].op = "umount" /\ t[8].op = "close"
    BY <1>1 DEF OpNames
  <2>5. t[3].n = n /\ t[8].n = n
    BY <1>1 DEF OpNames
  <2> HIDE DEF t
  <2>6. \A i \in 1 .. 8 : t[i].op # "finalize" /\ (t[i].op = "open" => i = 3)
    BY <2>4
  <2> QED BY <2>1, <2>2, <2>3, <2>4, <2>5, <2>6 DEF Piece, Closes, Ops
<1> QED BY <1>2, <1>3, <1>4, <1>5

\* So does that of all of them.
LEMMA PersistAllPiece ==
  ASSUME job \in JobType, layout = Layout
  PROVE  Piece(PersistAll)
<1> DEFINE f == [n \in Numbers |-> IF layout[n][1] = "persist" THEN Persist(n) ELSE <<>>]
           seqs == [k \in DOMAIN InOrder |-> f[InOrder[k]]]
<1>1. Piece(<<>>)
  BY DEF Piece, Ops, Closes
<1>2. \A n \in Numbers : Piece(f[n])
  BY <1>1, PersistPiece
<1>3. seqs \in Seq(Seq(Steps)) /\ DOMAIN seqs = Numbers /\ \A n \in Numbers : seqs[n] = f[n]
  <2>1. \A n \in Numbers : f[n] \in Seq(Steps)
    BY <1>2 DEF Piece
  <2> QED BY <2>1, PerPartition
<1>4. PersistAll = FlattenSeq(seqs)
  <2>1. \A k \in DOMAIN InOrder : InOrder[k] \in Numbers
    BY DEF InOrder
  <2>2. seqs = [k \in DOMAIN InOrder |->
                  IF layout[InOrder[k]][1] = "persist" THEN Persist(InOrder[k]) ELSE <<>>]
    BY <2>1
  <2> QED BY <2>2 DEF PersistAll, Each
<1> HIDE DEF seqs
<1> QED BY <1>2, <1>3, <1>4, FlatPiece

\* What a building script is when something has been added to its prelude.
Started(s) == Fit(s) /\ KeysFirst(s) /\ {"release", "inspect"} \subseteq Ops(s)

\* At most two steps of which none opens anything or ends the script.
LEMMA PlainPair ==
  ASSUME NEW a \in Steps, NEW b \in Steps,
         a.op \notin {"open", "finalize"}, b.op \notin {"open", "finalize"}
  PROVE  Piece(<<a>>) /\ Piece(<<a, b>>) /\ Piece(<<>>)
<1>1. /\ <<a>> \in Seq(Steps) /\ Ops(<<a>>) = {a.op}
      /\ <<a, b>> \in Seq(Steps) /\ Ops(<<a, b>>) = {a.op, b.op}
      /\ <<>> \in Seq(Steps) /\ Ops(<<>>) = {}
  BY ShortPiece
<1> DEFINE one == <<a>>
           two == <<a, b>>
           none == <<>>
<1>2. /\ one \in Seq(Steps) /\ Ops(one) = {a.op}
      /\ two \in Seq(Steps) /\ Ops(two) = {a.op, b.op}
      /\ none \in Seq(Steps) /\ Ops(none) = {}
  BY <1>1
<1> HIDE DEF one, two, none
<1>3. Piece(one) /\ Piece(two) /\ Piece(none)
  BY <1>2, PlainPiece
<1> QED BY <1>3 DEF one, two, none

\* The prelude of a build inspects, asks, releases, and only then writes.
LEMMA PreludeStarted ==
  ASSUME job \in JobType, layout = Layout
  PROVE  Started(Prelude)
<1>0. \A op \in OpNames : S(op, 0) \in Steps /\ S(op, 0).op = op
  BY StepTyped, TargetsHold
<1> DEFINE s0 == <<S("inspect", 0)>>
           s1 == s0 \o Keys
           t2 == <<S("release", 0), S("label", 0)>>
           s2 == s1 \o t2
           s3 == s2 \o Makes
<1>1. Prelude = s3 \o Waits
  BY DEF Prelude, Keys, Makes, Waits
<1>2. s0 \in Seq(Steps) /\ Ops(s0) = {"inspect"} /\ Fit(s0)
  <2>1. s0 \in Seq(Steps) /\ Ops(s0) = {"inspect"}
    BY <1>0, ShortPiece DEF OpNames
  <2> HIDE DEF s0
  <2> QED BY <2>1, PlainPiece, PlainAfter DEF Fit, Piece, Writing, Using
<1>3. Keys \in Seq(Steps) /\ Ops(Keys) \subseteq {"key"} /\ Piece(Keys)
  BY KeysPiece, PlainPiece
<1> HIDE DEF s0
<1>4. Fit(s1) /\ Ops(s1) \subseteq {"inspect", "key"} /\ "inspect" \in Ops(s1) /\ s1 \in Seq(Steps)
  <2>1. After("release", Writing, Keys)
    BY <1>3, PlainAfter DEF Writing
  <2>2. Fit(s1) /\ Ops(s1) = Ops(s0) \cup Ops(Keys)
    BY <1>2, <1>3, <2>1, FitJoined
  <2> HIDE DEF s1
  <2> QED BY <2>2, <1>2, <1>3 DEF Fit
<1>5. \A n \in Encrypted : \E i \in DOMAIN s1 : s1[i] = S("key", n)
  <2> SUFFICES ASSUME NEW n \in Encrypted PROVE \E i \in DOMAIN s1 : s1[i] = S("key", n)
    OBVIOUS
  <2>1. PICK i \in DOMAIN Keys : Keys[i] = S("key", n)
    BY KeysPiece
  <2>2. Len(s0) + i \in DOMAIN s1 /\ s1[Len(s0) + i] = Keys[i]
    BY <1>2, <1>3, Joined
  <2> QED BY <2>1, <2>2
<1>6. t2 \in Seq(Steps) /\ Ops(t2) = {"release", "label"} /\ Piece(t2) /\ After("release", Writing, t2)
  <2>1. t2 \in Seq(Steps) /\ Ops(t2) = {"release", "label"}
    <3>1. "release" \in OpNames /\ "label" \in OpNames
      BY DEF OpNames
    <3>2. /\ S("release", 0) \in Steps /\ S("release", 0).op = "release"
          /\ S("label", 0) \in Steps /\ S("label", 0).op = "label"
      BY <1>0, <3>1
    <3> DEFINE a == S("release", 0)
               b == S("label", 0)
    <3>3. a \in Steps /\ a.op = "release" /\ b \in Steps /\ b.op = "label" /\ t2 = <<a, b>>
      BY <3>2
    <3> HIDE DEF a, b, t2
    <3>4. <<a, b>> \in Seq(Steps) /\ Ops(<<a, b>>) = {a.op, b.op}
      BY <3>3, ShortPiece
    <3> QED BY <3>3, <3>4
  <2>2. DOMAIN t2 = 1 .. 2 /\ t2[1].op = "release"
    BY <1>0 DEF OpNames
  <2> HIDE DEF t2
  <2>3. After("release", Writing, t2)
    BY <2>2 DEF After, Writing
  <2> QED BY <2>1, <2>3, PlainPiece
<1> HIDE DEF s1, t2
<1>7. Fit(s2) /\ Ops(s2) = Ops(s1) \cup {"release", "label"} /\ s2 \in Seq(Steps)
  <2>1. Fit(s2) /\ Ops(s2) = Ops(s1) \cup Ops(t2)
    BY <1>4, <1>6, FitJoined
  <2> HIDE DEF s2
  <2> QED BY <2>1, <1>6 DEF Fit
<1>8. KeysFirst(s2)
  <2>1. /\ \A i \in DOMAIN s1 : i \in DOMAIN s2 /\ s2[i] = s1[i]
        /\ \A k \in DOMAIN s2 : k \in DOMAIN s1 \/ \E i \in DOMAIN t2 : k = Len(s1) + i
    BY <1>4, <1>6, Joined
  <2>2. DOMAIN s1 = 1 .. Len(s1) /\ Len(s1) \in Nat /\ DOMAIN t2 = 1 .. Len(t2) /\ Len(t2) \in Nat
    BY <1>4, <1>6
  <2> HIDE DEF s2
  <2>3. ASSUME NEW n \in Encrypted
        PROVE  \E i \in DOMAIN s2 : /\ s2[i] = S("key", n)
                                    /\ \A j \in DOMAIN s2 : s2[j].op \in {"release", "label"} => i < j
    <3>1. PICK i \in DOMAIN s1 : s1[i] = S("key", n)
      BY <1>5
    <3>2. ASSUME NEW j \in DOMAIN s2, s2[j].op \in {"release", "label"} PROVE i < j
      <4>1. j \notin DOMAIN s1
        BY <3>2, <2>1, <1>4 DEF Ops
      <4>2. PICK k \in DOMAIN t2 : j = Len(s1) + k
        BY <4>1, <2>1
      <4> QED BY <4>2, <2>2
    <3> QED BY <3>1, <3>2, <2>1
  <2> QED BY <2>3 DEF KeysFirst
<1>9. Makes \in Seq(Steps) /\ Piece(Makes) /\ Waits \in Seq(Steps) /\ Piece(Waits)
  BY MakesPiece, WaitsPiece, PlainPiece
<1> HIDE DEF s2
<1>10. Fit(s3) /\ KeysFirst(s3) /\ Ops(s3) = Ops(s2) \cup Ops(Makes)
  BY <1>4, <1>7, <1>8, <1>9, FitJoined
<1> HIDE DEF s3
<1>11. Fit(s3 \o Waits) /\ KeysFirst(s3 \o Waits) /\ Ops(s3 \o Waits) = Ops(s3) \cup Ops(Waits)
  BY <1>4, <1>7, <1>9, <1>10, FitJoined
<1> QED BY <1>1, <1>4, <1>7, <1>10, <1>11 DEF Started

\* What follows a prelude need not release again.
LEMMA StartedJoined ==
  ASSUME NEW s, Started(s), NEW t, Piece(t)
  PROVE  Started(s \o t)
BY FitJoined DEF Started

\* The end of every script but the direct one.
LEMMA Ended ==
  ASSUME NEW s, Fit(s), "inspect" \in Ops(s)
  PROVE  LET u == s \o Ending
         IN  /\ u \in Seq(Steps) /\ u # <<>>
             /\ After("release", Writing, u) /\ After("inspect", Using, u) /\ Closes(u)
             /\ \A i \in DOMAIN u : u[i].op = "finalize" => i = Len(u)
             /\ u[Len(u)].op = "finalize"
             /\ KeysFirst(s) => KeysFirst(u)
<1> DEFINE u == s \o Ending
           c == S("config", MenuPart)
           f == S("finalize", 0)
<1>1. /\ c \in Steps /\ c.op = "config" /\ f \in Steps /\ f.op = "finalize"
  BY StepTyped, TargetsHold DEF OpNames
<1>2. Ending = <<c, f>> /\ Ending \in Seq(Steps) /\ Ops(Ending) = {"config", "finalize"}
  <2>1. Ending = <<c, f>>
    BY DEF Ending
  <2> HIDE DEF c, f
  <2>2. <<c, f>> \in Seq(Steps) /\ Ops(<<c, f>>) = {c.op, f.op}
    BY <1>1, ShortPiece
  <2> QED BY <1>1, <2>1, <2>2
<1> HIDE DEF c, f
<1>3. Len(Ending) = 2 /\ DOMAIN Ending = 1 .. 2 /\ Ending[1].op = "config" /\ Ending[2].op = "finalize"
  BY <1>1, <1>2
<1>4. s \in Seq(Steps) /\ "finalize" \notin Ops(s)
  BY DEF Fit
<1>5. Closes(Ending) /\ After("release", Writing, Ending) /\ After("inspect", Using, Ending)
  <2>1. Closes(Ending)
    BY <1>2 DEF Closes, Ops
  <2> QED BY <2>1, <1>2, PlainAfter DEF Writing, Using
<1>6. u \in Seq(Steps) /\ Len(u) = Len(s) + 2
  BY <1>2, <1>3, <1>4, ConcatProperties
<1>7. /\ \A i \in DOMAIN s : i \in DOMAIN u /\ u[i] = s[i]
      /\ \A i \in DOMAIN Ending : Len(s) + i \in DOMAIN u /\ u[Len(s) + i] = Ending[i]
      /\ \A k \in DOMAIN u : k \in DOMAIN s \/ \E i \in DOMAIN Ending : k = Len(s) + i
  BY <1>2, <1>4, Joined
<1>8. After("release", Writing, u) /\ After("inspect", Using, u) /\ Closes(u) /\ (KeysFirst(s) => KeysFirst(u))
  BY <1>2, <1>4, <1>5, AfterJoined, ClosesJoined, KeysFirstJoined DEF Fit
<1> HIDE DEF u
<1>9. u[Len(u)].op = "finalize"
  BY <1>3, <1>6, <1>7
<1>10. ASSUME NEW i \in DOMAIN u, u[i].op = "finalize" PROVE i = Len(u)
  <2>1. i \notin DOMAIN s
    BY <1>4, <1>7, <1>10 DEF Ops
  <2>2. PICK k \in 1 .. 2 : i = Len(s) + k
    BY <2>1, <1>3, <1>7
  <2>3. u[i] = Ending[k] /\ k # 1
    BY <2>2, <1>3, <1>7, <1>10
  <2> QED BY <2>2, <2>3, <1>6
<1>11. u # <<>>
  <2>1. Len(s) \in Nat
    BY <1>4
  <2> QED BY <1>6, <2>1
<1> QED BY <1>6, <1>8, <1>9, <1>10, <1>11 DEF u

\* Up to nine plain steps.
LEMMA PlainSteps ==
  ASSUME NEW t, NEW n \in Nat, DOMAIN t = 1 .. n, t \in Seq(Steps),
         \A i \in 1 .. n : t[i].op \notin {"open", "finalize"}
  PROVE  Piece(t)
<1>1. Ops(t) \cap {"open", "finalize"} = {}
  BY DEF Ops
<1> QED BY <1>1, PlainPiece

\* The builds: one system, ...
LEMMA SingleStarted ==
  ASSUME job \in JobType, layout = Layout
  PROVE  \E s : SingleScript = s \o Ending /\ Started(s)
<1> DEFINE e == Number(Esp)
           d == Number(Data)
           t == <<S("vfat", e), S("ext4", d), S("locate", e), S("locate", d), S("mount", d), S("mount", e),
                  S("stage", e), S("render", 0), S("stage", d)>>
<1>1. \A op \in OpNames : \A n \in {0, e, d} : S(op, n) \in Steps /\ S(op, n).op = op
  BY StepTyped, TargetsHold
<1>2. SingleScript = (Prelude \o t) \o Ending
  BY DEF SingleScript
<1>3. Piece(t)
  <2>1. t \in Seq(Steps)
    BY <1>1 DEF OpNames
  <2>2. DOMAIN t = 1 .. 9
    OBVIOUS
  <2>3. \A i \in 1 .. 9 : t[i].op \notin {"open", "finalize"}
    BY <1>1 DEF OpNames
  <2> HIDE DEF t
  <2> QED BY <2>1, <2>2, <2>3, PlainSteps
<1> HIDE DEF t
<1> QED BY <1>2, <1>3, PreludeStarted, StartedJoined

\* ... a store that several share, ...
LEMMA SharedStarted ==
  ASSUME job \in JobType, layout = Layout
  PROVE  \E s : SharedScript = s \o Ending /\ Started(s)
<1> DEFINE e == Number(Esp)
           d == Number(Data)
           t == <<S("vfat", e), S("ext4", d), S("locate", e), S("locate", d), S("mount", d), S("mount", e),
                  S("stage", e)>>
           r == <<S("render", 0), S("stage", d)>>
<1>1. \A op \in OpNames : \A n \in {0, e, d} : S(op, n) \in Steps /\ S(op, n).op = op
  BY StepTyped, TargetsHold
<1>2. SharedScript = (((Prelude \o t) \o PersistAll) \o r) \o Ending
  BY DEF SharedScript
<1>3. Piece(t)
  <2>1. t \in Seq(Steps)
    BY <1>1 DEF OpNames
  <2>2. DOMAIN t = 1 .. 7
    OBVIOUS
  <2>3. \A i \in 1 .. 7 : t[i].op \notin {"open", "finalize"}
    BY <1>1 DEF OpNames
  <2> HIDE DEF t
  <2> QED BY <2>1, <2>2, <2>3, PlainSteps
<1>4. Piece(r)
  <2> DEFINE a == S("render", 0)
             b == S("stage", d)
  <2>1. a \in Steps /\ a.op = "render" /\ b \in Steps /\ b.op = "stage" /\ r = <<a, b>>
    BY <1>1 DEF OpNames
  <2> HIDE DEF a, b, r
  <2> QED BY <2>1, PlainPair
<1> HIDE DEF t, r
<1>5. Started(Prelude \o t)
  BY <1>3, PreludeStarted, StartedJoined
<1>6. Started((Prelude \o t) \o PersistAll)
  BY <1>5, PersistAllPiece, StartedJoined
<1> QED BY <1>2, <1>4, <1>6, StartedJoined

\* ... one system with its own payload partition, ...
LEMMA ManagedStarted ==
  ASSUME job \in JobType, layout = Layout
  PROVE  \E s : ManagedScript = s \o Ending /\ Started(s)
<1> DEFINE e == Number(Esp)
           p == Number(<<"payload", 1>>)
           t == <<S("vfat", e), S("locate", e), S("mount", e), S("stage", e)>>
           w == IF job.payload = "raw-iso" THEN <<S("dd", p)>> ELSE <<S("ext4", p), S("mount", p)>>
           r == <<S("locate", p), S("render", 0)>>
           g == IF job.payload = "store" THEN <<S("stage", p)>> ELSE <<>>
<1>1. \A op \in OpNames : \A n \in {0, e, p} : S(op, n) \in Steps /\ S(op, n).op = op
  BY StepTyped, TargetsHold
<1>2. ManagedScript = (((((Prelude \o t) \o PersistAll) \o w) \o r) \o g) \o Ending
  BY DEF ManagedScript
<1>3. Piece(t)
  <2>1. t \in Seq(Steps)
    BY <1>1 DEF OpNames
  <2>2. DOMAIN t = 1 .. 4
    OBVIOUS
  <2>3. \A i \in 1 .. 4 : t[i].op \notin {"open", "finalize"}
    BY <1>1 DEF OpNames
  <2> HIDE DEF t
  <2> QED BY <2>1, <2>2, <2>3, PlainSteps
<1>4. Piece(w) /\ Piece(r) /\ Piece(g)
  <2> DEFINE dd == S("dd", p)
             ext == S("ext4", p)
             mnt == S("mount", p)
             loc == S("locate", p)
             ren == S("render", 0)
             stg == S("stage", p)
  <2>1. /\ dd \in Steps /\ dd.op = "dd" /\ ext \in Steps /\ ext.op = "ext4"
        /\ mnt \in Steps /\ mnt.op = "mount" /\ loc \in Steps /\ loc.op = "locate"
        /\ ren \in Steps /\ ren.op = "render" /\ stg \in Steps /\ stg.op = "stage"
    BY <1>1 DEF OpNames
  <2>2. /\ w = IF job.payload = "raw-iso" THEN <<dd>> ELSE <<ext, mnt>>
        /\ r = <<loc, ren>> /\ g = IF job.payload = "store" THEN <<stg>> ELSE <<>>
    OBVIOUS
  <2> HIDE DEF dd, ext, mnt, loc, ren, stg, w, r, g
  <2>3. Piece(<<dd>>) /\ Piece(<<stg>>) /\ Piece(<<>>)
    BY <2>1, PlainPair
  <2>4. Piece(<<ext, mnt>>) /\ Piece(<<loc, ren>>)
    BY <2>1, PlainPair
  <2> QED BY <2>2, <2>3, <2>4
<1> HIDE DEF t, w, r, g
<1>5. Started(Prelude \o t)
  BY <1>3, PreludeStarted, StartedJoined
<1>6. Started((Prelude \o t) \o PersistAll)
  BY <1>5, PersistAllPiece, StartedJoined
<1>7. Started(((Prelude \o t) \o PersistAll) \o w)
  BY <1>4, <1>6, StartedJoined
<1>8. Started((((Prelude \o t) \o PersistAll) \o w) \o r)
  BY <1>4, <1>7, StartedJoined
<1> QED BY <1>2, <1>4, <1>8, StartedJoined

\* One piece for every operating system of the plan, in order.
LEMMA PerItem ==
  ASSUME job \in JobType, NEW f, DOMAIN f = DOMAIN job.items,
         \A i \in DOMAIN job.items : f[i] \in Seq(Steps)
  PROVE  LET seqs == [k \in DOMAIN Indices |-> f[Indices[k]]]
         IN  /\ seqs \in Seq(Seq(Steps)) /\ DOMAIN seqs = DOMAIN job.items
             /\ \A i \in DOMAIN job.items : seqs[i] = f[i]
             /\ \A k \in DOMAIN Indices : Indices[k] \in DOMAIN job.items /\ Indices[k] \in Nat
<1>1. DOMAIN job.items = 1 .. Len(job.items) /\ Len(job.items) \in Nat
  BY DEF JobType
<1>2. DOMAIN Indices = 1 .. Len(job.items) /\ \A k \in DOMAIN Indices : Indices[k] = k
  BY <1>1 DEF Indices
<1>3. [k \in DOMAIN Indices |-> f[Indices[k]]] = [k \in 1 .. Len(job.items) |-> f[k]]
  BY <1>2
<1> QED BY <1>1, <1>2, <1>3

Writes ==
  LET Write(i) == LET p == Number(<<"payload", i>>)
                  IN  <<S(IF job.payload = "raw-iso" THEN "dd" ELSE "ext4", p), S("locate", p)>>
  IN  Each(Indices, Write)
Copies ==
  LET Copy(i) == LET p == Number(<<"payload", i>>)
                 IN  IF job.payload = "store" THEN <<S("mount", p), S("stage", p)>> ELSE <<>>
  IN  Each(Indices, Copy)
Looks ==
  LET Look(i) == LET p == Number(<<"payload", i>>) IN <<S("find", p), S("locate", p)>>
  IN  Each(Indices, Look)

\* The payloads are written ...
LEMMA WritesPiece ==
  ASSUME job \in JobType
  PROVE  Piece(Writes)
<1> DEFINE q(i) == <<S(IF job.payload = "raw-iso" THEN "dd" ELSE "ext4", Number(<<"payload", i>>)),
                     S("locate", Number(<<"payload", i>>))>>
           f == [i \in DOMAIN job.items |-> q(i)]
           seqs == [k \in DOMAIN Indices |-> f[Indices[k]]]
<1>1. ASSUME NEW i \in Nat PROVE Piece(q(i))
  <2> DEFINE p == Number(<<"payload", i>>)
             a == S(IF job.payload = "raw-iso" THEN "dd" ELSE "ext4", p)
             b == S("locate", p)
  <2>1. p \in Targets
    BY TargetsHold
  <2>2. a \in Steps /\ a.op \in {"dd", "ext4"} /\ b \in Steps /\ b.op = "locate"
    BY <2>1, StepTyped DEF OpNames
  <2>3. q(i) = <<a, b>>
    OBVIOUS
  <2> HIDE DEF a, b, q
  <2> QED BY <2>2, <2>3, PlainPair
<1> HIDE DEF q
<1>2. DOMAIN f = DOMAIN job.items /\ \A i \in DOMAIN job.items : Piece(f[i])
  <2>1. \A i \in DOMAIN job.items : i \in Nat
    BY DEF JobType
  <2> QED BY <2>1, <1>1
<1>3. /\ seqs \in Seq(Seq(Steps)) /\ DOMAIN seqs = DOMAIN job.items
      /\ \A i \in DOMAIN job.items : seqs[i] = f[i]
      /\ \A k \in DOMAIN Indices : Indices[k] \in DOMAIN job.items
  <2>1. \A i \in DOMAIN job.items : f[i] \in Seq(Steps)
    BY <1>2 DEF Piece
  <2> HIDE DEF f
  <2> QED BY <1>2, <2>1, PerItem
<1>4. Writes = FlattenSeq(seqs)
  <2>1. seqs = [k \in DOMAIN Indices |-> q(Indices[k])]
    BY <1>3
  <2> QED BY <2>1 DEF Writes, Each, q
<1> HIDE DEF seqs, f
<1> QED BY <1>2, <1>3, <1>4, FlatPiece

\* ... and filled, ...
LEMMA CopiesPiece ==
  ASSUME job \in JobType
  PROVE  Piece(Copies)
<1> DEFINE q(i) == IF job.payload = "store"
                   THEN <<S("mount", Number(<<"payload", i>>)), S("stage", Number(<<"payload", i>>))>> ELSE <<>>
           f == [i \in DOMAIN job.items |-> q(i)]
           seqs == [k \in DOMAIN Indices |-> f[Indices[k]]]
<1>1. ASSUME NEW i \in Nat PROVE Piece(q(i))
  <2> DEFINE p == Number(<<"payload", i>>)
             a == S("mount", p)
             b == S("stage", p)
  <2>1. p \in Targets
    BY TargetsHold
  <2>2. a \in Steps /\ a.op = "mount" /\ b \in Steps /\ b.op = "stage"
    BY <2>1, StepTyped DEF OpNames
  <2>3. q(i) = IF job.payload = "store" THEN <<a, b>> ELSE <<>>
    OBVIOUS
  <2> HIDE DEF a, b, q
  <2>4. Piece(<<a, b>>) /\ Piece(<<>>)
    BY <2>2, PlainPair
  <2> QED BY <2>3, <2>4
<1> HIDE DEF q
<1>2. DOMAIN f = DOMAIN job.items /\ \A i \in DOMAIN job.items : Piece(f[i])
  <2>1. \A i \in DOMAIN job.items : i \in Nat
    BY DEF JobType
  <2> QED BY <2>1, <1>1
<1>3. /\ seqs \in Seq(Seq(Steps)) /\ DOMAIN seqs = DOMAIN job.items
      /\ \A i \in DOMAIN job.items : seqs[i] = f[i]
      /\ \A k \in DOMAIN Indices : Indices[k] \in DOMAIN job.items
  <2>1. \A i \in DOMAIN job.items : f[i] \in Seq(Steps)
    BY <1>2 DEF Piece
  <2> HIDE DEF f
  <2> QED BY <1>2, <2>1, PerItem
<1>4. Copies = FlattenSeq(seqs)
  <2>1. seqs = [k \in DOMAIN Indices |-> q(Indices[k])]
    BY <1>3
  <2> QED BY <2>1 DEF Copies, Each, q
<1> HIDE DEF seqs, f
<1> QED BY <1>2, <1>3, <1>4, FlatPiece

\* ... and an update looks them up.
LEMMA LooksPiece ==
  ASSUME job \in JobType
  PROVE  Looks \in Seq(Steps) /\ Ops(Looks) \subseteq {"find", "locate"}
<1> DEFINE q(i) == <<S("find", Number(<<"payload", i>>)), S("locate", Number(<<"payload", i>>))>>
           f == [i \in DOMAIN job.items |-> q(i)]
           seqs == [k \in DOMAIN Indices |-> f[Indices[k]]]
<1>1. ASSUME NEW i \in Nat PROVE q(i) \in Seq(Steps) /\ Ops(q(i)) \subseteq {"find", "locate"}
  <2> DEFINE p == Number(<<"payload", i>>)
             a == S("find", p)
             b == S("locate", p)
  <2>1. p \in Targets
    BY TargetsHold
  <2>2. a \in Steps /\ a.op = "find" /\ b \in Steps /\ b.op = "locate"
    BY <2>1, StepTyped DEF OpNames
  <2>3. q(i) = <<a, b>>
    OBVIOUS
  <2> HIDE DEF a, b, q
  <2>4. <<a, b>> \in Seq(Steps) /\ Ops(<<a, b>>) = {a.op, b.op}
    BY <2>2, ShortPiece
  <2> QED BY <2>2, <2>3, <2>4
<1> HIDE DEF q
<1>2. /\ DOMAIN f = DOMAIN job.items
      /\ \A i \in DOMAIN job.items : f[i] \in Seq(Steps) /\ Ops(f[i]) \subseteq {"find", "locate"}
  <2>1. \A i \in DOMAIN job.items : i \in Nat
    BY DEF JobType
  <2> QED BY <2>1, <1>1
<1>3. /\ seqs \in Seq(Seq(Steps)) /\ DOMAIN seqs = DOMAIN job.items
      /\ \A i \in DOMAIN job.items : seqs[i] = f[i]
      /\ \A k \in DOMAIN Indices : Indices[k] \in DOMAIN job.items
  <2> HIDE DEF f
  <2> QED BY <1>2, PerItem
<1>4. Looks = FlattenSeq(seqs)
  <2>1. seqs = [k \in DOMAIN Indices |-> q(Indices[k])]
    BY <1>3
  <2> QED BY <2>1 DEF Looks, Each, q
<1> HIDE DEF seqs, f
<1> QED BY <1>2, <1>3, <1>4, FlatPiece

\* ... and several of those.
LEMMA RawStarted ==
  ASSUME job \in JobType, layout = Layout
  PROVE  \E s : RawScript = s \o Ending /\ Started(s)
<1> DEFINE e == Number(Esp)
           t == <<S("vfat", e), S("locate", e), S("mount", e), S("stage", e)>>
           r == <<S("render", 0)>>
<1>1. \A op \in OpNames : \A n \in {0, e} : S(op, n) \in Steps /\ S(op, n).op = op
  BY StepTyped, TargetsHold
<1>2. RawScript = (((((Prelude \o t) \o PersistAll) \o Writes) \o r) \o Copies) \o Ending
  BY DEF RawScript, Writes, Copies
<1>3. Piece(t)
  <2>1. t \in Seq(Steps)
    BY <1>1 DEF OpNames
  <2>2. DOMAIN t = 1 .. 4
    OBVIOUS
  <2>3. \A i \in 1 .. 4 : t[i].op \notin {"open", "finalize"}
    BY <1>1 DEF OpNames
  <2> HIDE DEF t
  <2> QED BY <2>1, <2>2, <2>3, PlainSteps
<1>4. Piece(r)
  <2> DEFINE a == S("render", 0)
  <2>1. a \in Steps /\ a.op = "render" /\ r = <<a>>
    BY <1>1 DEF OpNames
  <2> HIDE DEF a, r
  <2> QED BY <2>1, PlainPair
<1> HIDE DEF t, r
<1>5. Started((Prelude \o t) \o PersistAll)
  BY <1>3, PreludeStarted, PersistAllPiece, StartedJoined
<1>6. Started(((Prelude \o t) \o PersistAll) \o Writes)
  BY <1>5, WritesPiece, StartedJoined
<1>7. Started((((Prelude \o t) \o PersistAll) \o Writes) \o r)
  BY <1>4, <1>6, StartedJoined
<1>8. Started(((((Prelude \o t) \o PersistAll) \o Writes) \o r) \o Copies)
  BY <1>7, CopiesPiece, StartedJoined
<1> QED BY <1>2, <1>8

\* What an update may do: nothing that writes to a partition table or formats.
Mild == {"inspect", "release", "find", "wait", "mount", "stage", "locate", "render"}

\* Mild steps open nothing and write nothing.
LEMMA MildPiece ==
  ASSUME NEW t \in Seq(Steps), Ops(t) \subseteq Mild
  PROVE  Piece(t) /\ After("release", Writing, t)
<1>1. Ops(t) \cap {"open", "finalize"} = {} /\ Ops(t) \cap Writing = {}
  BY DEF Mild, Writing
<1> QED BY <1>1, PlainPiece, PlainAfter

\* They may follow what has inspected.
LEMMA MildJoined ==
  ASSUME NEW s, Fit(s), "inspect" \in Ops(s), NEW t \in Seq(Steps), Ops(t) \subseteq Mild
  PROVE  Fit(s \o t) /\ "inspect" \in Ops(s \o t)
BY MildPiece, FitJoined

\* A run of mild steps that begins with an inspection.
LEMMA InspectFirst ==
  ASSUME NEW t \in Seq(Steps), Ops(t) \subseteq Mild, t # <<>>, t[1].op = "inspect"
  PROVE  Fit(t) /\ After("inspect", Using, t) /\ "inspect" \in Ops(t)
<1>1. DOMAIN t = 1 .. Len(t) /\ Len(t) \in Nat /\ 1 \in DOMAIN t
  OBVIOUS
<1>2. "inspect" \in Ops(t)
  BY <1>1 DEF Ops
<1>3. After("inspect", Using, t)
  <2> SUFFICES ASSUME NEW i \in DOMAIN t, t[i].op \in Using PROVE 1 \in 1 .. i - 1
    BY DEF After
  <2>1. i # 1
    BY DEF Using
  <2> QED BY <2>1, <1>1
<1>4. "finalize" \notin Ops(t)
  BY DEF Mild
<1> QED BY <1>2, <1>3, <1>4, MildPiece DEF Fit, Piece

\* At most two of them.
LEMMA MildPair ==
  ASSUME NEW a \in Steps, NEW b \in Steps, a.op \in Mild, b.op \in Mild
  PROVE  /\ <<a>> \in Seq(Steps) /\ Ops(<<a>>) \subseteq Mild
         /\ <<a, b>> \in Seq(Steps) /\ Ops(<<a, b>>) \subseteq Mild
         /\ <<>> \in Seq(Steps) /\ Ops(<<>>) \subseteq Mild
BY ShortPiece

Opened(s) == Fit(s) /\ "inspect" \in Ops(s)

\* The updates: one system, ...
LEMMA UpdateManagedOpened ==
  ASSUME job \in JobType, layout = Layout
  PROVE  \E s : UpdateManagedScript = s \o Ending /\ Opened(s)
<1> DEFINE e == Number(Esp)
           p == Number(IF job.flow = "single" THEN Data ELSE <<"payload", 1>>)
           first == IF job.split THEN <<S("find", p)>> ELSE <<>>
           t == <<S("inspect", 0), S("release", 0), S("find", e), S("mount", e), S("stage", e),
                  S("locate", e), S("find", p)>>
           w == IF job.flow = "managed" /\ job.payload = "raw-iso" THEN <<>> ELSE <<S("mount", p)>>
           r == <<S("locate", p), S("render", 0)>>
           g == IF job.flow = "managed" /\ job.payload = "raw-iso" THEN <<>> ELSE <<S("stage", p)>>
<1>1. \A op \in OpNames : \A n \in {0, e, p} : S(op, n) \in Steps /\ S(op, n).op = op
  BY StepTyped, TargetsHold
<1>2. UpdateManagedScript = ((((first \o t) \o w) \o r) \o g) \o Ending
  BY DEF UpdateManagedScript
<1>3. t \in Seq(Steps) /\ Ops(t) \subseteq Mild /\ t # <<>> /\ t[1].op = "inspect"
  <2>1. t \in Seq(Steps)
    BY <1>1 DEF OpNames
  <2>2. DOMAIN t = 1 .. 7 /\ t # <<>>
    OBVIOUS
  <2>3. t[1].op = "inspect" /\ \A i \in 1 .. 7 : t[i].op \in Mild
    BY <1>1 DEF OpNames, Mild
  <2> HIDE DEF t
  <2> QED BY <2>1, <2>2, <2>3 DEF Ops
<1>4. /\ first \in Seq(Steps) /\ Ops(first) \subseteq {"find"}
      /\ w \in Seq(Steps) /\ Ops(w) \subseteq Mild
      /\ r \in Seq(Steps) /\ Ops(r) \subseteq Mild
      /\ g \in Seq(Steps) /\ Ops(g) \subseteq Mild
  <2> DEFINE fnd == S("find", p)
             mnt == S("mount", p)
             loc == S("locate", p)
             ren == S("render", 0)
             stg == S("stage", p)
  <2>1. /\ fnd \in Steps /\ fnd.op = "find" /\ mnt \in Steps /\ mnt.op = "mount"
        /\ loc \in Steps /\ loc.op = "locate" /\ ren \in Steps /\ ren.op = "render"
        /\ stg \in Steps /\ stg.op = "stage"
    BY <1>1 DEF OpNames
  <2>2. /\ first = IF job.split THEN <<fnd>> ELSE <<>>
        /\ w = IF job.flow = "managed" /\ job.payload = "raw-iso" THEN <<>> ELSE <<mnt>>
        /\ r = <<loc, ren>>
        /\ g = IF job.flow = "managed" /\ job.payload = "raw-iso" THEN <<>> ELSE <<stg>>
    OBVIOUS
  <2> HIDE DEF fnd, mnt, loc, ren, stg, first, w, r, g
  <2>3. /\ <<fnd>> \in Seq(Steps) /\ Ops(<<fnd>>) = {"find"}
        /\ <<>> \in Seq(Steps) /\ Ops(<<>>) = {}
    BY <2>1, ShortPiece
  <2>4. <<mnt>> \in Seq(Steps) /\ Ops(<<mnt>>) \subseteq Mild
    BY <2>1, MildPair DEF Mild
  <2>5. <<stg>> \in Seq(Steps) /\ Ops(<<stg>>) \subseteq Mild
    BY <2>1, MildPair DEF Mild
  <2>6. <<loc, ren>> \in Seq(Steps) /\ Ops(<<loc, ren>>) \subseteq Mild
    BY <2>1, MildPair DEF Mild
  <2> QED BY <2>2, <2>3, <2>4, <2>5, <2>6
<1> HIDE DEF t, first, w, r, g
<1>5. Fit(first \o t) /\ "inspect" \in Ops(first \o t)
  <2>1. Fit(first)
    <3>1. After("inspect", Using, first) /\ After("release", Writing, first) /\ Piece(first)
      BY <1>4, PlainAfter, PlainPiece DEF Using, Writing
    <3> QED BY <3>1 DEF Fit, Piece
  <2>2. After("inspect", Using, t) /\ "inspect" \in Ops(t) /\ Piece(t) /\ After("release", Writing, t)
    BY <1>3, InspectFirst, MildPiece
  <2> QED BY <2>1, <2>2, FitJoined
<1>6. Fit((first \o t) \o w) /\ "inspect" \in Ops((first \o t) \o w)
  BY <1>4, <1>5, MildJoined
<1>7. Fit(((first \o t) \o w) \o r) /\ "inspect" \in Ops(((first \o t) \o w) \o r)
  BY <1>4, <1>6, MildJoined
<1>8. Opened((((first \o t) \o w) \o r) \o g)
  BY <1>4, <1>7, MildJoined DEF Opened
<1> QED BY <1>2, <1>8

\* ... a shared store ...
LEMMA UpdateSharedOpened ==
  ASSUME job \in JobType, layout = Layout
  PROVE  \E s : UpdateSharedScript = s \o Ending /\ Opened(s)
<1> DEFINE e == Number(Esp)
           d == Number(Data)
           t == <<S("inspect", 0), S("release", 0), S("wait", e), S("wait", d), S("mount", e),
                  S("mount", d), S("stage", e), S("locate", e), S("locate", d), S("render", 0),
                  S("stage", d)>>
<1>1. \A op \in OpNames : \A n \in {0, e, d} : S(op, n) \in Steps /\ S(op, n).op = op
  BY StepTyped, TargetsHold
<1>2. UpdateSharedScript = t \o Ending
  BY DEF UpdateSharedScript
<1>3. t \in Seq(Steps) /\ Ops(t) \subseteq Mild /\ t # <<>> /\ t[1].op = "inspect"
  <2>1. t \in Seq(Steps)
    BY <1>1 DEF OpNames
  <2>2. DOMAIN t = 1 .. 11 /\ t # <<>>
    OBVIOUS
  <2>3. t[1].op = "inspect" /\ \A i \in 1 .. 11 : t[i].op \in Mild
    BY <1>1 DEF OpNames, Mild
  <2> HIDE DEF t
  <2> QED BY <2>1, <2>2, <2>3 DEF Ops
<1> HIDE DEF t
<1> QED BY <1>2, <1>3, InspectFirst DEF Opened

\* ... and several raw images.
LEMMA UpdateRawOpened ==
  ASSUME job \in JobType, layout = Layout
  PROVE  \E s : UpdateRawScript = s \o Ending /\ Opened(s)
<1> DEFINE e == Number(Esp)
           t == <<S("inspect", 0), S("find", e), S("mount", e), S("stage", e), S("locate", e)>>
           r == <<S("render", 0)>>
<1>1. \A op \in OpNames : \A n \in {0, e} : S(op, n) \in Steps /\ S(op, n).op = op
  BY StepTyped, TargetsHold
<1>2. UpdateRawScript = ((t \o Looks) \o r) \o Ending
  BY DEF UpdateRawScript, Looks
<1>3. t \in Seq(Steps) /\ Ops(t) \subseteq Mild /\ t # <<>> /\ t[1].op = "inspect"
  <2>1. t \in Seq(Steps)
    BY <1>1 DEF OpNames
  <2>2. DOMAIN t = 1 .. 5 /\ t # <<>>
    OBVIOUS
  <2>3. t[1].op = "inspect" /\ \A i \in 1 .. 5 : t[i].op \in Mild
    BY <1>1 DEF OpNames, Mild
  <2> HIDE DEF t
  <2> QED BY <2>1, <2>2, <2>3 DEF Ops
<1>4. r \in Seq(Steps) /\ Ops(r) \subseteq Mild
  <2> DEFINE a == S("render", 0)
  <2>1. a \in Steps /\ a.op = "render" /\ r = <<a>>
    BY <1>1 DEF OpNames
  <2> HIDE DEF a, r
  <2> QED BY <2>1, MildPair DEF Mild
<1> HIDE DEF t, r
<1>5. Looks \in Seq(Steps) /\ Ops(Looks) \subseteq Mild
  BY LooksPiece DEF Mild
<1>6. Fit(t) /\ "inspect" \in Ops(t)
  BY <1>3, InspectFirst
<1>7. Fit(t \o Looks) /\ "inspect" \in Ops(t \o Looks)
  BY <1>5, <1>6, MildJoined
<1>8. Opened((t \o Looks) \o r)
  BY <1>4, <1>7, MildJoined DEF Opened
<1> QED BY <1>2, <1>8

\* The direct write.
LEMMA DirectShaped ==
  /\ DirectScript \in Seq(Steps) /\ DirectScript # <<>>
  /\ After("release", Writing, DirectScript) /\ Ops(DirectScript) = {"inspect", "release", "dddisk"}
<1> DEFINE t == <<S("inspect", 0), S("release", 0), S("dddisk", 0)>>
<1>1. \A op \in OpNames : S(op, 0) \in Steps /\ S(op, 0).op = op
  BY StepTyped, TargetsHold
<1>2. t \in Seq(Steps)
  BY <1>1 DEF OpNames
<1>3. DOMAIN t = 1 .. 3 /\ t # <<>>
  OBVIOUS
<1>4. t[1].op = "inspect" /\ t[2].op = "release" /\ t[3].op = "dddisk"
  BY <1>1 DEF OpNames
<1>5. DirectScript = t
  BY DEF DirectScript
<1> HIDE DEF t
<1>6. Ops(t) = {"inspect", "release", "dddisk"}
  <2>1. \A i \in 1 .. 3 : t[i].op \in {"inspect", "release", "dddisk"}
    BY <1>4
  <2> QED BY <2>1, <1>3, <1>4 DEF Ops
<1>7. After("release", Writing, t)
  <2> SUFFICES ASSUME NEW i \in DOMAIN t, t[i].op \in Writing PROVE \E j \in 1 .. i - 1 : t[j].op = "release"
    BY DEF After
  <2>1. i = 3
    BY <1>3, <1>4 DEF Writing
  <2> QED BY <2>1, <1>4
<1> QED BY <1>2, <1>3, <1>5, <1>6, <1>7

\* Every write mode's script has the order of steps the safety of the writer
\* rests on.
THEOREM ScriptShaped ==
  ASSUME job \in JobType, layout = Layout, script = Script
  PROVE  Shaped
<1>1. CASE job.flow = "direct"
  <2>1. script = DirectScript
    BY <1>1 DEF Script
  <2>2. Ops(script) = {"inspect", "release", "dddisk"} /\ script \in Seq(Steps) /\ script # <<>>
        /\ After("release", Writing, script)
    BY <2>1, DirectShaped
  <2>3. After("inspect", Using, script) /\ Closes(script) /\ Ops(script) \cap (Using \cup {"open"}) = {}
    <3>1. Ops(script) \cap (Using \cup {"open"}) = {} /\ Ops(script) \cap Using = {}
      BY <2>2 DEF Using
    <3>2. Piece(script)
      BY <2>2, PlainPiece
    <3> QED BY <3>1, <3>2, <2>2, PlainAfter DEF Piece
  <2>4. \A i \in DOMAIN script : script[i].op # "finalize"
    BY <2>2 DEF Ops
  <2>5. KeysFirst(script)
    BY <1>1, LayoutFacts DEF KeysFirst
  <2> QED BY <1>1, <2>2, <2>3, <2>4, <2>5 DEF Shaped
<1>2. CASE job.flow # "direct" /\ ~job.update
  <2>1. \E s : script = s \o Ending /\ Started(s)
    <3>1. job.flow \in {"single", "managed", "shared", "raw"}
      BY <1>2 DEF JobType
    <3>2. CASE job.flow = "single"
      <4>1. script = SingleScript
        BY <1>2, <3>2 DEF Script
      <4> QED BY <4>1, SingleStarted
    <3>3. CASE job.flow = "managed"
      <4>1. script = ManagedScript
        BY <1>2, <3>3 DEF Script
      <4> QED BY <4>1, ManagedStarted
    <3>4. CASE job.flow = "shared"
      <4>1. script = SharedScript
        BY <1>2, <3>4 DEF Script
      <4> QED BY <4>1, SharedStarted
    <3>5. CASE job.flow = "raw"
      <4>1. script = RawScript
        BY <1>2, <3>5 DEF Script
      <4> QED BY <4>1, RawStarted
    <3> QED BY <3>1, <3>2, <3>3, <3>4, <3>5
  <2>2. PICK s : script = s \o Ending /\ Started(s)
    BY <2>1
  <2>3. Fit(s) /\ "inspect" \in Ops(s) /\ KeysFirst(s)
    BY <2>2 DEF Started
  <2> QED BY <1>2, <2>2, <2>3, Ended DEF Shaped
<1>3. CASE job.flow # "direct" /\ job.update
  <2>1. \E s : script = s \o Ending /\ Opened(s)
    <3>1. job.flow \in {"single", "managed", "shared", "raw"}
      BY <1>3 DEF JobType
    <3>2. CASE job.flow \in {"single", "managed"}
      <4>1. script = UpdateManagedScript
        BY <1>3, <3>2 DEF Script
      <4> QED BY <4>1, UpdateManagedOpened
    <3>3. CASE job.flow = "shared"
      <4>1. script = UpdateSharedScript
        BY <1>3, <3>3 DEF Script
      <4> QED BY <4>1, UpdateSharedOpened
    <3>4. CASE job.flow = "raw"
      <4>1. script = UpdateRawScript
        BY <1>3, <3>4 DEF Script
      <4> QED BY <4>1, UpdateRawOpened
    <3> QED BY <3>1, <3>2, <3>3, <3>4
  <2>2. PICK s : script = s \o Ending /\ Opened(s)
    BY <2>1
  <2>3. Fit(s) /\ "inspect" \in Ops(s)
    BY <2>2 DEF Opened
  <2> QED BY <1>3, <2>2, <2>3, Ended DEF Shaped
<1> QED BY <1>1, <1>2, <1>3

-----------------------------------------------------------------------------
(* What holds in every state of the writer.                                *)

\* The operations behind the current step, the partitions whose passphrase they
\* asked for, and the mappings the script has still to close.
Passed == {script[j].op : j \in 1 .. at - 1}
Asked == {script[j].n : j \in {i \in 1 .. at - 1 : script[i].op = "key"}}
ToClose == {script[c].n : c \in {i \in at .. Len(script) : script[i].op = "close"}}

OnScript == job \in Jobs /\ Shaped /\ at \in DOMAIN script

\* What has been held since before the first run is held still and untouched,
\* and once the device has been released there is nothing of the kind.
KeptInv ==
  /\ kept \subseteq held /\ held \subseteq mounts
  /\ \A m \in kept : m[2] # "writer"
  /\ HeldFilesystemsSurvive
  /\ phase = "run" /\ ("release" \in Passed \/ (Releasing /\ sub = "scrub")) => kept = {}

\* The passphrases asked for are in their files, and nothing is erased before
\* the release.
KeysInv ==
  /\ phase = "run" => Asked \subseteq keys
  /\ phase = "run" /\ wiped => Step.op \in {"release", "label"} \/ "release" \in Passed

\* What the writer holds, it holds under its temporary root, and what it has
\* opened it has still to close.
LeftInv ==
  /\ (Ours # {} \/ keys # {}) => temp
  /\ phase = "run" /\ "inspect" \in Passed /\ job.flow # "direct" => temp
  /\ job.flow = "direct" => ~temp
  /\ "open" \in Ops(script) \/ mapped = {}
  /\ phase = "run" /\ "release" \in Passed => mapped \subseteq ToClose
  /\ NothingLeftBehind

IInv == OnScript /\ KeptInv /\ KeysInv /\ LeftInv

-----------------------------------------------------------------------------
(* Where the script stands.                                                *)

\* What the order of the script says of the step it stands at.
LEMMA Here ==
  ASSUME OnScript
  PROVE  /\ Step.op \in Writing => "release" \in Passed
         /\ Step.op \in Using => "inspect" \in Passed /\ job.flow # "direct"
         /\ Step.op = "finalize" => at = Len(script)
         /\ at = Len(script) /\ job.flow # "direct" => Step.op = "finalize"
         /\ Step.op \in Ops(script)
         /\ Step.op = "finalize" /\ "open" \in Ops(script) => "release" \in Passed
         /\ Step.op = "finalize" => ToClose = {}
         /\ job.flow = "direct" => "open" \notin Ops(script)
<1>1. DOMAIN script = 1 .. Len(script) /\ Len(script) \in Nat /\ at \in 1 .. Len(script)
  BY DEF OnScript, Shaped
<1>2. Shaped
  BY DEF OnScript
<1>3. Step.op \in Writing => "release" \in Passed
  BY <1>1, <1>2 DEF Shaped, After, Step, Passed
<1>4. Step.op \in Ops(script)
  BY <1>1 DEF Step, Ops
<1>5. Step.op \in Using => "inspect" \in Passed /\ job.flow # "direct"
  BY <1>1, <1>2, <1>4 DEF Shaped, After, Step, Passed
<1>6. Step.op = "finalize" => at = Len(script)
  BY <1>1, <1>2 DEF Shaped, Step
<1>7. at = Len(script) /\ job.flow # "direct" => Step.op = "finalize"
  BY <1>2 DEF Shaped, Step
<1>8. ASSUME Step.op = "finalize", "open" \in Ops(script) PROVE "release" \in Passed
  <2>1. PICK i \in DOMAIN script : script[i].op = "open"
    BY <1>8 DEF Ops
  <2>2. i < at
    BY <1>1, <1>6, <1>8, <2>1 DEF Step
  <2>3. PICK j \in 1 .. i - 1 : script[j].op = "release"
    BY <1>2, <2>1 DEF Shaped, After, Writing
  <2>4. j \in 1 .. at - 1
    BY <1>1, <2>2
  <2> QED BY <2>3, <2>4 DEF Passed
<1>9. Step.op = "finalize" => ToClose = {}
  BY <1>1, <1>6 DEF ToClose, Step
<1>10. job.flow = "direct" => "open" \notin Ops(script)
  BY <1>2 DEF Shaped
<1> QED BY <1>3, <1>4, <1>5, <1>6, <1>7, <1>8, <1>9, <1>10

\* Every passphrase has been asked for when the device is released.
LEMMA AllAsked ==
  ASSUME OnScript, ~job.update, Step.op \in {"release", "label"} \/ "release" \in Passed
  PROVE  Encrypted \subseteq Asked
<1>1. DOMAIN script = 1 .. Len(script) /\ Len(script) \in Nat /\ at \in 1 .. Len(script) /\ KeysFirst(script)
  BY DEF OnScript, Shaped
<1> SUFFICES ASSUME NEW n \in Encrypted PROVE n \in Asked
  OBVIOUS
<1>2. PICK i \in DOMAIN script :
        /\ script[i] = S("key", n)
        /\ \A j \in DOMAIN script : script[j].op \in {"release", "label"} => i < j
  BY <1>1 DEF KeysFirst
<1>3. PICK j \in DOMAIN script : j <= at /\ script[j].op \in {"release", "label"}
  <2>1. CASE Step.op \in {"release", "label"}
    BY <1>1, <2>1 DEF Step
  <2>2. CASE "release" \in Passed
    BY <1>1, <2>2 DEF Passed
  <2> QED BY <2>1, <2>2
<1>4. i \in 1 .. at - 1
  BY <1>1, <1>2, <1>3
<1>5. script[i].op = "key" /\ script[i].n = n
  BY <1>2 DEF S
<1> QED BY <1>4, <1>5 DEF Asked

\* Going to the next step.
LEMMA Onward ==
  ASSUME OnScript, Advance, UNCHANGED <<job, layout, script>>
  PROVE  /\ OnScript'
         /\ \/ phase' = "done" /\ at = Len(script)
            \/ /\ phase' = phase
               /\ Passed' = Passed \cup {Step.op}
               /\ Asked' \subseteq Asked \cup {Step.n}
               /\ Step.op # "key" => Asked' = Asked
               /\ \A n \in ToClose : n \in ToClose' \/ (Step.op = "close" /\ Step.n = n)
               /\ Step.op = "open" => Step.n \in ToClose'
         /\ sub' = "start"
<1>0. script \in Seq(Steps) /\ at \in DOMAIN script
  BY DEF OnScript, Shaped
<1>1. DOMAIN script = 1 .. Len(script) /\ Len(script) \in Nat /\ at \in 1 .. Len(script)
  BY <1>0
<1>2. Shaped'
  BY DEF OnScript, Shaped, Steps, Targets, MenuPart, Number, Numbers, After, Closes, KeysFirst, Encrypted,
         Persistence, Ops
<1>3. CASE at < Len(script)
  <2>1. at' = at + 1 /\ phase' = phase /\ sub' = "start" /\ script' = script
    BY <1>3 DEF Advance
  <2>2. OnScript'
    BY <1>1, <1>2, <1>3, <2>1 DEF OnScript
  <2>3. Passed' = Passed \cup {Step.op}
    <3>1. 1 .. at' - 1 = (1 .. at - 1) \cup {at}
      BY <1>1, <2>1
    <3> QED BY <3>1, <2>1 DEF Passed, Step
  <2>4. Asked' \subseteq Asked \cup {Step.n} /\ (Step.op # "key" => Asked' = Asked)
    <3>1. 1 .. at' - 1 = (1 .. at - 1) \cup {at}
      BY <1>1, <2>1
    <3> QED BY <3>1, <2>1 DEF Asked, Step
  <2>5. ASSUME NEW n \in ToClose PROVE n \in ToClose' \/ (Step.op = "close" /\ Step.n = n)
    <3>1. PICK c \in at .. Len(script) : script[c].op = "close" /\ script[c].n = n
      BY DEF ToClose
    <3>2. c = at \/ c \in at' .. Len(script)
      BY <1>1, <2>1
    <3> QED BY <3>1, <3>2, <2>1 DEF ToClose, Step
  <2>6. ASSUME Step.op = "open" PROVE Step.n \in ToClose'
    <3>1. PICK c \in DOMAIN script : c > at /\ script[c].op = "close" /\ script[c].n = Step.n
      BY <1>1, <2>6 DEF OnScript, Shaped, Closes, Step
    <3>2. c \in at' .. Len(script)
      BY <1>1, <2>1, <3>1
    <3> QED BY <3>1, <3>2, <2>1 DEF ToClose
  <2> QED BY <2>1, <2>2, <2>3, <2>4, <2>5, <2>6
<1>4. CASE ~(at < Len(script))
  <2>1. phase' = "done" /\ at' = at /\ sub' = "start"
    BY <1>4 DEF Advance
  <2>2. at = Len(script)
    <3> DEFINE n == Len(script)
    <3>1. n \in Nat /\ at \in 1 .. n /\ ~(at < n)
      BY <1>1, <1>4
    <3> HIDE DEF n
    <3>2. at = n
      BY <3>1
    <3> QED BY <3>2 DEF n
  <2> QED BY <1>2, <2>1, <2>2 DEF OnScript
<1> QED BY <1>3, <1>4

\* Staying at a step.
LEMMA Waiting ==
  ASSUME OnScript, UNCHANGED <<job, layout, script, at>>
  PROVE  OnScript' /\ Step' = Step /\ Passed' = Passed /\ Asked' = Asked /\ ToClose' = ToClose
<1>1. Shaped'
  BY DEF OnScript, Shaped, Steps, Targets, MenuPart, Number, Numbers, After, Closes, KeysFirst, Encrypted,
         Persistence, Ops
<1> QED BY <1>1 DEF OnScript, Step, Passed, Asked, ToClose

\* A step that goes on.
LEMMA Moving ==
  ASSUME IInv, phase = "run", Advance, UNCHANGED <<job, layout, script, kept, held>>,
         Step.op # "finalize",
         IF Step.op = "inspect" THEN temp' <=> job.flow # "direct" ELSE temp' = temp,
         held \subseteq mounts', kept = {} \/ content' = content,
         Step.op = "release" => kept = {} /\ mapped' = {},
         keys \subseteq keys', Step.op = "key" => Step.n \in keys', keys' # {} => keys # {} \/ Step.op = "key",
         wiped' => wiped, Ours' # {} => Ours # {} \/ Step.op = "mount",
         mapped' \subseteq mapped \/ (Step.op = "open" /\ mapped' \subseteq mapped \cup {Step.n}),
         Step.op = "close" => Step.n \notin mapped'
  PROVE  IInv'
<1>1. OnScript /\ KeptInv /\ KeysInv /\ LeftInv
  BY DEF IInv
<1>2. /\ Step.op \in Writing => "release" \in Passed
      /\ Step.op \in Using => "inspect" \in Passed /\ job.flow # "direct"
      /\ at = Len(script) /\ job.flow # "direct" => Step.op = "finalize"
      /\ Step.op \in Ops(script) /\ (job.flow = "direct" => "open" \notin Ops(script))
  BY <1>1, Here
<1>3. /\ OnScript' /\ sub' = "start"
      /\ \/ phase' = "done" /\ at = Len(script)
         \/ /\ phase' = phase /\ Passed' = Passed \cup {Step.op}
            /\ Asked' \subseteq Asked \cup {Step.n} /\ (Step.op # "key" => Asked' = Asked)
            /\ \A n \in ToClose : n \in ToClose' \/ (Step.op = "close" /\ Step.n = n)
            /\ Step.op = "open" => Step.n \in ToClose'
  BY <1>1, Onward
<1>4. KeptInv'
  <2>1. HeldFilesystemsSurvive'
    BY <1>1 DEF KeptInv, HeldFilesystemsSurvive
  <2>2. ASSUME phase' = "run", "release" \in Passed' PROVE kept' = {}
    BY <1>1, <1>3, <2>2 DEF KeptInv
  <2>3. ~(Releasing /\ sub = "scrub")'
    BY <1>3 DEF Releasing
  <2> QED BY <1>1, <2>1, <2>2, <2>3 DEF KeptInv
<1>5. KeysInv'
  <2>1. phase' = "run" => Asked' \subseteq keys'
    BY <1>1, <1>3 DEF KeysInv
  <2>2. phase' = "run" /\ wiped' => "release" \in Passed'
    BY <1>1, <1>2, <1>3 DEF KeysInv, Writing
  <2> QED BY <2>1, <2>2 DEF KeysInv
<1>6. LeftInv'
  <2>1. (Ours # {} \/ keys # {})' => temp'
    BY <1>1, <1>2 DEF LeftInv, Using
  <2>2. phase' = "run" /\ "inspect" \in Passed' /\ job'.flow # "direct" => temp'
    BY <1>1, <1>3 DEF LeftInv
  <2>3. job'.flow = "direct" => ~temp'
    BY <1>1 DEF LeftInv
  <2>4. "open" \in Ops(script) \/ mapped' = {}
    BY <1>1, <1>2 DEF LeftInv
  <2>5. ASSUME phase' = "run", "release" \in Passed', NEW n \in mapped' PROVE n \in ToClose'
    BY <1>1, <1>3, <2>5 DEF LeftInv
  <2>6. NothingLeftBehind'
    <3>1. phase' # "failed"
      BY <1>3
    <3>2. phase' = "done" => job'.flow = "direct"
      BY <1>2, <1>3
    <3>3. phase' = "done" => Ours' = {} /\ mapped' = {} /\ keys' = {} /\ ~temp'
      BY <1>2, <2>1, <2>3, <2>4, <3>2
    <3> QED BY <3>1, <3>3 DEF NothingLeftBehind
  <2>7. Ops(script)' = Ops(script)
    BY DEF Ops
  <2> QED BY <2>1, <2>2, <2>3, <2>4, <2>5, <2>6, <2>7 DEF LeftInv
<1> QED BY <1>3, <1>4, <1>5, <1>6 DEF IInv

\* A step that stays where it is, or fails.
LEMMA Staying ==
  ASSUME IInv, phase = "run", UNCHANGED <<job, layout, script, kept, held, at, keys, temp>>,
         phase' \in {"run", "cleanup"},
         held \subseteq mounts', kept = {} \/ content' = content,
         Step.op \in {"release", "label"} /\ sub' = "scrub" => sub = "scrub" \/ kept = {},
         wiped' => wiped \/ Step.op \in {"release", "label"},
         Ours' \subseteq Ours, mapped' \subseteq mapped
  PROVE  IInv'
<1>1. OnScript /\ KeptInv /\ KeysInv /\ LeftInv
  BY DEF IInv
<1>2. OnScript' /\ Step' = Step /\ Passed' = Passed /\ Asked' = Asked /\ ToClose' = ToClose
  BY <1>1, Waiting
<1>3. KeptInv'
  <2>1. HeldFilesystemsSurvive'
    BY <1>1 DEF KeptInv, HeldFilesystemsSurvive
  <2>2. phase' = "run" /\ "release" \in Passed' => kept' = {}
    BY <1>1, <1>2 DEF KeptInv
  <2>3. (Releasing /\ sub = "scrub")' => kept' = {}
    BY <1>1, <1>2 DEF KeptInv, Releasing, AtStep
  <2> QED BY <1>1, <2>1, <2>2, <2>3 DEF KeptInv
<1>4. KeysInv'
  BY <1>1, <1>2 DEF KeysInv
<1>5. LeftInv'
  <2>1. NothingLeftBehind'
    BY DEF NothingLeftBehind
  <2>2. Ops(script)' = Ops(script)
    BY DEF Ops
  <2> QED BY <1>1, <1>2, <2>1, <2>2 DEF LeftInv
<1> QED BY <1>2, <1>3, <1>4, <1>5 DEF IInv

-----------------------------------------------------------------------------
(* Every action keeps the invariant.                                       *)

\* What happens once the run is over, and what others do.
LEMMA Outside ==
  ASSUME IInv, UNCHANGED <<job, layout, script, at, sub, wiped, content>>,
         phase' = phase \/ phase' \notin {"run", "done", "failed"},
         kept' \subseteq kept, kept' \subseteq held', held' \subseteq mounts',
         Ours' = {} => Ours = {}, Ours' # {} => Ours # {}, mapped' \subseteq mapped, UNCHANGED <<keys, temp>>
  PROVE  IInv'
<1>1. OnScript /\ KeptInv /\ KeysInv /\ LeftInv
  BY DEF IInv
<1>2. OnScript' /\ Step' = Step /\ Passed' = Passed /\ Asked' = Asked /\ ToClose' = ToClose
  BY <1>1, Waiting
<1>3. KeptInv'
  <2>1. HeldFilesystemsSurvive'
    BY <1>1 DEF KeptInv, HeldFilesystemsSurvive
  <2>2. (phase = "run" /\ ("release" \in Passed \/ (Releasing /\ sub = "scrub")))' => kept' = {}
    BY <1>1, <1>2 DEF KeptInv, Releasing, AtStep
  <2> QED BY <1>1, <2>1, <2>2 DEF KeptInv
<1>4. KeysInv'
  BY <1>1, <1>2 DEF KeysInv
<1>5. LeftInv'
  <2>1. NothingLeftBehind'
    BY <1>1 DEF LeftInv, NothingLeftBehind
  <2>2. Ops(script)' = Ops(script)
    BY DEF Ops
  <2> QED BY <1>1, <1>2, <2>1, <2>2 DEF LeftInv
<1> QED BY <1>2, <1>3, <1>4, <1>5 DEF IInv

\* The invariant holds at the start ...
LEMMA InitKept == ASSUME Init PROVE IInv
<1>1. job \in Jobs /\ job \in JobType /\ layout = Layout /\ script = Script
  BY BoundsAssumption DEF Init
<1>2. Shaped
  BY <1>1, ScriptShaped
<1>3. at = 1 /\ DOMAIN script = 1 .. Len(script) /\ Len(script) \in Nat /\ script # <<>>
  BY <1>2 DEF Init, Shaped
<1>4. OnScript
  <2>1. 1 \in DOMAIN script
    BY <1>2 DEF Shaped
  <2> QED BY <1>1, <1>2, <1>3, <2>1 DEF OnScript
<1>5. Passed = {} /\ Asked = {}
  BY <1>3 DEF Passed, Asked
<1>6. KeptInv
  <2>1. kept = held /\ held \subseteq mounts /\ sub = "start"
    BY DEF Init
  <2>2. \A m \in mounts : m[1] \in Numbers /\ m[2] = "desktop"
    BY DEF Init
  <2>3. content = [n \in Numbers |-> "old"]
    BY DEF Init
  <2>4. HeldFilesystemsSurvive
    BY <2>1, <2>2, <2>3 DEF HeldFilesystemsSurvive
  <2> QED BY <2>1, <2>2, <2>4, <1>5 DEF KeptInv
<1>7. KeysInv
  BY <1>5 DEF Init, KeysInv
<1>8. LeftInv
  <2>1. Ours = {}
    BY DEF Init, Ours
  <2> QED BY <1>5, <2>1 DEF Init, LeftInv, NothingLeftBehind
<1> QED BY <1>4, <1>6, <1>7, <1>8 DEF IInv

\* ... and is kept by the release of the device: past the check nobody holds anything, ...
LEMMA ReleaseKept == ASSUME IInv, Release PROVE IInv'
<1> USE DEF given, device, host, files, AtStep, Releasing
<1>0. OnScript /\ KeptInv /\ (Step.op \in Writing => "release" \in Passed)
  BY Here DEF IInv
<1>1. CASE ReleaseMounts
  BY <1>0, <1>1, Staying DEF ReleaseMounts, Within, Ours, KeptInv
<1>2. CASE CheckUse
  BY <1>0, <1>2, Staying DEF CheckUse, Free, Within, Retry, Die, Ours, KeptInv
<1>3. CASE Scrub
  BY <1>0, <1>3, Staying DEF Scrub, Within, Ours, KeptInv
<1>4. CASE ResetTable
  BY <1>0, <1>4, Staying DEF ResetTable, Within, Ours, KeptInv
<1>5. CASE RecheckUse
  <2>1. CASE ~Free
    <3>1. Retry
      BY <1>5, <2>1 DEF RecheckUse
    <3> QED BY <1>0, <1>5, <3>1, Staying DEF RecheckUse, Retry, Die, Ours, KeptInv
  <2>2. CASE Free /\ Step.op = "release"
    <3>1. Advance
      BY <1>5, <2>2 DEF RecheckUse
    <3> QED BY <1>0, <1>5, <2>2, <3>1, Moving DEF RecheckUse, Free, Ours, KeptInv
  <2>3. CASE Free /\ Step.op = "label"
    <3>1. Within("mklabel")
      BY <1>5, <2>3 DEF RecheckUse
    <3> QED BY <1>0, <1>5, <3>1, Staying DEF RecheckUse, Within, Ours, KeptInv
  <2> QED BY <1>5, <2>1, <2>2, <2>3 DEF RecheckUse
<1>6. CASE MakeLabel
  <2>1. CASE Advance
    BY <1>0, <1>6, <2>1, Moving DEF MakeLabel, Writing, Ours, KeptInv
  <2>2. CASE at' = at /\ phase' \in {"run", "cleanup"}
    BY <1>0, <1>6, <2>2, Staying DEF MakeLabel, Writing, Ours, KeptInv
  <2> QED BY <1>6, <2>1, <2>2 DEF MakeLabel, Die
<1> QED BY <1>1, <1>2, <1>3, <1>4, <1>5, <1>6 DEF Release

\* ... by partitioning, ...
LEMMA PartitionKept == ASSUME IInv, Partition PROVE IInv'
<1> USE DEF given, device, host, files, AtStep
<1>0. OnScript /\ KeptInv /\ (Step.op \in Writing => "release" \in Passed)
  BY Here DEF IInv
<1>1. CASE MakePartition
  BY <1>0, <1>1, Moving DEF MakePartition, Writing, Ours, KeptInv
<1>2. CASE WaitForPartition
  <2>1. CASE Advance
    BY <1>0, <1>2, <2>1, Moving DEF WaitForPartition, Ours, KeptInv
  <2>2. CASE at' = at /\ phase' \in {"run", "cleanup"}
    BY <1>0, <1>2, <2>2, Staying DEF WaitForPartition, Ours, KeptInv
  <2> QED BY <1>2, <2>1, <2>2 DEF WaitForPartition, Retry, Die
<1> QED BY <1>1, <1>2 DEF Partition

\* ... by what writes a partition, which comes after the release, ...
LEMMA FormatKept == ASSUME IInv, Format PROVE IInv'
<1> USE DEF given, device, host, files, AtStep, Formatting
<1>0. OnScript /\ KeptInv /\ (Step.op \in Writing => "release" \in Passed)
  BY Here DEF IInv
<1>1. CASE Prepare
  BY <1>0, <1>1, Staying DEF Prepare, On, Within, Die, Ours, KeptInv
<1>2. CASE Wipe
  BY <1>0, <1>2, Staying DEF Wipe, Within, Writing, Ours, KeptInv
<1>3. CASE Make
  <2>1. CASE Advance
    BY <1>0, <1>3, <2>1, Moving DEF Make, Writing, Ours, KeptInv
  <2>2. CASE at' = at /\ phase' \in {"run", "cleanup"}
    BY <1>0, <1>3, <2>2, Staying DEF Make, Writing, Ours, KeptInv
  <2> QED BY <1>3, <2>1, <2>2 DEF Make, Retry, Die
<1>4. CASE WriteDisk
  BY <1>0, <1>4, Moving DEF WriteDisk, Writing, Ours, KeptInv
<1>5. CASE LuksFormat
  BY <1>0, <1>5, Moving DEF LuksFormat, Writing, Ours, KeptInv
<1>6. CASE CloseMapping
  <2>1. CASE Step.n \in mapped /\ On(Step.n) # {}
    BY <1>0, <1>6, <2>1, Staying DEF CloseMapping, Die, Ours, KeptInv
  <2>2. CASE ~(Step.n \in mapped /\ On(Step.n) # {})
    BY <1>0, <1>6, <2>2, Moving DEF CloseMapping, Ours, KeptInv
  <2> QED BY <2>1, <2>2
<1>7. CASE OpenMapping
  BY <1>0, <1>7, Moving DEF OpenMapping, Ours, KeptInv
<1> QED BY <1>1, <1>2, <1>3, <1>4, <1>5, <1>6, <1>7 DEF Format

\* The end of a run takes down everything the writer had.
LEMMA FinalizeKept == ASSUME IInv, Finalize PROVE IInv'
<1> USE DEF given, device, AtStep
<1>0. OnScript /\ KeptInv /\ KeysInv /\ LeftInv /\ phase = "run" /\ Step.op = "finalize"
  BY DEF IInv, Finalize
<1>1. CASE Ours \cap held = {}
  <2>1. Advance /\ keys' = {} /\ temp' = FALSE /\ mounts' = mounts \ Ours
        /\ UNCHANGED <<job, layout, script, kept, held, mapped, content, wiped>>
    BY <1>1 DEF Finalize
  <2>2. Ours' = {}
    BY <2>1 DEF Ours
  <2>3. /\ OnScript' /\ phase' = "done"
    <3>1. at = Len(script)
      BY <1>0, Here
    <3> QED BY <1>0, <2>1, <3>1, Onward DEF Advance
  <2>4. mapped = {}
    <3>1. ToClose = {} /\ ("open" \in Ops(script) => "release" \in Passed)
      BY <1>0, Here
    <3> QED BY <1>0, <3>1 DEF LeftInv
  <2>5. KeptInv'
    BY <1>0, <1>1, <2>1, <2>3 DEF KeptInv, HeldFilesystemsSurvive, Releasing
  <2>6. KeysInv'
    BY <2>3 DEF KeysInv
  <2>7. LeftInv'
    <3>1. NothingLeftBehind'
      BY <2>1, <2>2, <2>3, <2>4 DEF NothingLeftBehind
    <3> QED BY <2>1, <2>2, <2>3, <2>4, <3>1 DEF LeftInv
  <2> QED BY <2>3, <2>5, <2>6, <2>7 DEF IInv
<1>2. CASE Ours \cap held # {}
  BY <1>0, <1>2, Staying DEF Finalize, Retry, Die, Ours, KeptInv
<1> QED BY <1>1, <1>2

\* ... by mounting, copying and the menu, ...
LEMMA FillKept == ASSUME IInv, Fill PROVE IInv'
<1> USE DEF given, device, host, files, AtStep
<1>0. OnScript /\ KeptInv
  BY DEF IInv
<1>1. CASE Inspect
  BY <1>0, <1>1, Moving DEF Inspect, Ours, KeptInv
<1>2. CASE Find
  <2>1. CASE Step.n \in present /\ content[Step.n] # "none"
    BY <1>0, <1>2, <2>1, Moving DEF Find, Ours, KeptInv
  <2>2. CASE ~(Step.n \in present /\ content[Step.n] # "none")
    BY <1>0, <1>2, <2>2, Staying DEF Find, Die, Ours, KeptInv
  <2> QED BY <2>1, <2>2
<1>3. CASE Mount
  <2>1. CASE Step.n \in present /\ Readable(Step.n)
    BY <1>0, <1>3, <2>1, Moving DEF Mount, Ours, KeptInv
  <2>2. CASE ~(Step.n \in present /\ Readable(Step.n))
    BY <1>0, <1>3, <2>2, Staying DEF Mount, Die, Ours, KeptInv
  <2> QED BY <2>1, <2>2
<1>4. CASE Unmount
  <2>1. CASE <<Step.n, "writer">> \in mounts \ held
    BY <1>0, <1>4, <2>1, Moving DEF Unmount, Ours, KeptInv
  <2>2. CASE <<Step.n, "writer">> \notin mounts \ held
    BY <1>0, <1>4, <2>2, Staying DEF Unmount, Die, Ours, KeptInv
  <2> QED BY <2>1, <2>2
<1>5. CASE Stage
  BY <1>0, <1>5, Moving DEF Stage, Ours, KeptInv
<1>6. CASE Locate
  <2>1. CASE content[Step.n] # "none"
    BY <1>0, <1>6, <2>1, Moving DEF Locate, Ours, KeptInv
  <2>2. CASE content[Step.n] = "none"
    BY <1>0, <1>6, <2>2, Staying DEF Locate, Die, Ours, KeptInv
  <2> QED BY <2>1, <2>2
<1>7. CASE Render
  BY <1>0, <1>7, Moving DEF Render, Ours, KeptInv
<1>8. CASE WriteMenu
  <2>1. CASE Advance
    BY <1>0, <1>8, <2>1, Moving DEF WriteMenu, Ours, KeptInv
  <2>2. CASE Die
    BY <1>0, <1>8, <2>2, Staying DEF WriteMenu, Die, Ours, KeptInv
  <2> QED BY <1>8, <2>1, <2>2 DEF WriteMenu
<1>9. CASE Finalize
  BY <1>9, FinalizeKept
<1> QED BY <1>1, <1>2, <1>3, <1>4, <1>5, <1>6, <1>7, <1>8, <1>9 DEF Fill

\* The traps: the temporary root goes only if nothing is mounted in it any more.
LEMMA ExitKept == ASSUME IInv, Exit PROVE IInv'
<1> USE DEF given, device, files
<1>0. OnScript /\ KeptInv /\ KeysInv /\ LeftInv
  BY DEF IInv
<1>1. CASE CleanupLuks
  <2>1. UNCHANGED <<job, layout, script, at, kept, held, content, wiped, keys, temp>> /\ phase' = "leave"
        /\ mounts' \subseteq mounts /\ held \subseteq mounts' /\ mapped' \subseteq mapped
    BY <1>0, <1>1 DEF CleanupLuks, KeptInv
  <2>2. Ours' \subseteq Ours
    BY <2>1 DEF Ours
  <2>3. OnScript'
    BY <1>0, <2>1, Waiting
  <2>4. KeptInv'
    BY <1>0, <2>1 DEF KeptInv, HeldFilesystemsSurvive, Releasing
  <2>5. KeysInv'
    BY <2>1 DEF KeysInv
  <2>6. LeftInv'
    <3>1. NothingLeftBehind' /\ Ops(script)' = Ops(script)
      BY <2>1 DEF NothingLeftBehind, Ops
    <3> QED BY <1>0, <2>1, <2>2, <3>1 DEF LeftInv
  <2> QED BY <2>3, <2>4, <2>5, <2>6 DEF IInv
<1>2. CASE Leave
  <2>1. UNCHANGED <<job, layout, script, at, kept, held, content, wiped, mapped>> /\ phase' = "failed"
        /\ mounts' = mounts \ (Ours \ held)
        /\ IF Ours \cap held = {} THEN keys' = {} /\ temp' = FALSE ELSE UNCHANGED <<keys, temp>>
    BY <1>2 DEF Leave
  <2>2. Ours' = Ours \cap held /\ held \subseteq mounts'
    BY <1>0, <2>1 DEF Ours, KeptInv
  <2>3. OnScript'
    BY <1>0, <2>1, Waiting
  <2>4. KeptInv'
    BY <1>0, <2>1, <2>2 DEF KeptInv, HeldFilesystemsSurvive, Releasing
  <2>5. KeysInv'
    BY <2>1 DEF KeysInv
  <2>6. LeftInv'
    <3>1. (Ours # {} \/ keys # {})' => temp'
      BY <1>0, <2>1, <2>2 DEF LeftInv
    <3>2. temp' => Ours' # {}
      BY <2>1, <2>2
    <3>3. NothingLeftBehind'
      BY <2>1, <3>1, <3>2 DEF NothingLeftBehind
    <3>4. job'.flow = "direct" => ~temp'
      BY <1>0, <2>1 DEF LeftInv
    <3>5. ("open" \in Ops(script) \/ mapped = {})'
      BY <1>0, <2>1 DEF LeftInv, Ops
    <3> QED BY <2>1, <3>1, <3>3, <3>4, <3>5 DEF LeftInv
  <2> QED BY <2>3, <2>4, <2>5, <2>6 DEF IInv
<1> QED BY <1>1, <1>2 DEF Exit

\* A second run starts with nothing of its own.
LEMMA RunAgainKept == ASSUME IInv, RunAgain PROVE IInv'
<1>0. OnScript /\ KeptInv /\ KeysInv /\ LeftInv
  BY DEF IInv
<1> DEFINE Orphan(set) == {IF m[2] = "writer" THEN <<m[1], "stale">> ELSE m : m \in set}
<1>1. /\ UNCHANGED <<job, layout, script, kept, content, mapped>> /\ at' = 1 /\ sub' = "start" /\ phase' = "run"
      /\ keys' = {} /\ temp' = FALSE /\ wiped' = FALSE
      /\ mounts' = Orphan(mounts) /\ held' = Orphan(held)
  BY DEF RunAgain
<1>2. Ours' = {}
  <2> SUFFICES ASSUME NEW m \in mounts PROVE (IF m[2] = "writer" THEN <<m[1], "stale">> ELSE m)[2] # "writer"
    BY <1>1 DEF Ours
  <2>1. CASE m[2] = "writer"
    BY <2>1
  <2>2. CASE m[2] # "writer"
    BY <2>2
  <2> QED BY <2>1, <2>2
<1>3. kept \subseteq held' /\ held' \subseteq mounts'
  BY <1>0, <1>1 DEF KeptInv
<1> HIDE DEF Orphan
<1>4. OnScript'
  <2>1. Shaped'
    BY <1>0, <1>1 DEF OnScript, Shaped, Steps, Targets, MenuPart, Number, Numbers, After, Closes, KeysFirst,
                      Encrypted, Persistence, Ops
  <2>2. 1 \in DOMAIN script
    BY <1>0 DEF OnScript, Shaped
  <2> QED BY <1>0, <1>1, <2>1, <2>2 DEF OnScript
<1>5. Passed' = {} /\ Asked' = {}
  BY <1>1 DEF Passed, Asked
<1>6. KeptInv'
  BY <1>0, <1>1, <1>3, <1>5 DEF KeptInv, HeldFilesystemsSurvive
<1>7. KeysInv'
  BY <1>1, <1>5 DEF KeysInv
<1>8. LeftInv'
  <2>1. NothingLeftBehind' /\ Ops(script)' = Ops(script)
    BY <1>1 DEF NothingLeftBehind, Ops
  <2> QED BY <1>0, <1>1, <1>2, <1>5, <2>1 DEF LeftInv
<1> QED BY <1>4, <1>6, <1>7, <1>8 DEF IInv

\* ... and by failures, kills, the operator and the desktop session.
LEMMA OthersKept == ASSUME IInv, Fail \/ AskPassphrase \/ Kill \/ Desktop PROVE IInv'
<1> USE DEF given, control, device, host, files, AtStep
<1>0. OnScript /\ KeptInv
  BY DEF IInv
<1>1. CASE Fail
  BY <1>0, <1>1, Staying DEF Fail, Die, Ours, KeptInv
<1>2. CASE AskPassphrase
  BY <1>0, <1>2, Moving DEF AskPassphrase, Ours, KeptInv
<1>3. CASE Kill
  BY <1>0, <1>3, Outside DEF Kill, Ours, KeptInv
<1>4. CASE Desktop
  <2>1. ASSUME NEW n \in Numbers, Automount(n) PROVE IInv'
    <3>1. Ours' = Ours
      BY <2>1 DEF Automount, Ours
    <3> QED BY <1>0, <2>1, <3>1, Outside DEF Automount, KeptInv
  <2>2. ASSUME NEW m \in mounts, Hold(m) PROVE IInv'
    BY <1>0, <2>2, Outside DEF Hold, Ours, KeptInv
  <2>3. ASSUME NEW m \in mounts, LetGo(m) PROVE IInv'
    BY <1>0, <2>3, Outside DEF LetGo, Ours, KeptInv
  <2> QED BY <1>4, <2>1, <2>2, <2>3 DEF Desktop
<1> QED BY <1>1, <1>2, <1>3, <1>4

\* The inductive invariant holds in every state of every run.
THEOREM Invariance == Spec => []IInv
<1>1. Init => IInv
  BY InitKept
<1>2. IInv /\ [Next]_vars => IInv'
  <2> SUFFICES ASSUME IInv, [Next]_vars PROVE IInv'
    OBVIOUS
  <2>1. CASE Unattended
    BY <2>1, ReleaseKept, PartitionKept, FormatKept, FillKept, ExitKept, OthersKept DEF Unattended
  <2>2. CASE RunAgain
    BY <2>2, RunAgainKept
  <2>3. CASE AskPassphrase \/ Kill \/ Desktop
    BY <2>3, OthersKept
  <2>4. CASE UNCHANGED vars
    BY <2>4, Outside DEF vars, Ours, IInv, KeptInv
  <2> QED BY <2>1, <2>2, <2>3, <2>4 DEF Next
<1> QED BY <1>1, <1>2, PTL DEF Spec

\* A file system a process has had in use since before the first run is never
\* erased, in any write mode, whatever is retried, fails, is killed or run again.
THEOREM HeldSurvive == Spec => []HeldFilesystemsSurvive
<1>1. IInv => HeldFilesystemsSurvive
  BY DEF IInv, KeptInv
<1> QED BY <1>1, Invariance, PTL

\* No run erases anything before every passphrase its plan needs has been typed.
THEOREM PassphrasesAsked == Spec => []PassphrasesFirst
<1>1. IInv => PassphrasesFirst
  <2> SUFFICES ASSUME IInv, phase = "run", wiped, ~job.update PROVE Encrypted \subseteq keys
    BY DEF PassphrasesFirst
  <2>1. Encrypted \subseteq Asked
    BY AllAsked DEF IInv, KeysInv
  <2> QED BY <2>1 DEF IInv, KeysInv
<1> QED BY <1>1, Invariance, PTL

\* A run that succeeds leaves nothing of its own behind, one that fails only a
\* workspace it could not take down.
THEOREM NothingLeft == Spec => []NothingLeftBehind
<1>1. IInv => NothingLeftBehind
  BY DEF IInv, LeftInv
<1> QED BY <1>1, Invariance, PTL

-----------------------------------------------------------------------------
(* What a finished stick has.                                              *)

\* A kind of steps that undo something: some on any partition, some on their own.
Clear(s, n, bad) == s.op \notin bad.any /\ (s.op \in bad.own => s.n # n)
Spoiling == [any |-> {"release", "label", "mkpart", "dddisk"}, own |-> {"vfat", "ext4", "dd", "luks"}]
Dropping == [any |-> {"release", "label", "wait", "finalize"}, own |-> {"umount", "vfat", "ext4", "dd"}]
Resetting == [any |-> {"release", "label"}, own |-> {}]
Locating == [any |-> {"locate"}, own |-> {}]

\* A step of A was made, and since then nothing that undoes it for n ...
Since(A, n, bad) ==
  \E k \in 1 .. at - 1 : script[k] \in A /\ \A j \in k + 1 .. at : Clear(script[j], n, bad)
\* ... and will have been at the end of the script.
Ends(s, A, n, bad) ==
  \E i \in DOMAIN s : s[i] \in A /\ \A j \in DOMAIN s : j > i => Clear(s[j], n, bad)

Both(op, n) == {S(op, n), L(op, n)}
MadeBy(s) == CASE s.op = "dd" -> "iso" [] s.op = "vfat" -> "vfat"
               [] s.op = "ext4" -> IF s.luks THEN "cryptext4" ELSE "ext4"
Results == {"vfat", "ext4", "cryptext4", "iso"}
Making(n, what) ==
  {s \in Both("vfat", n) \cup Both("ext4", n) \cup Both("dd", n) : MadeBy(s) = what}

\* What is filled has been mounted, by these steps or, in M, by others before them.
FedBy(t, M) ==
  \A i \in DOMAIN t : t[i].op = "stage" =>
    \/ \E j \in 1 .. i - 1 : /\ t[j].op = "mount" /\ t[j].n = t[i].n
                             /\ \A k \in j + 1 .. i - 1 : Clear(t[k], t[i].n, Dropping)
    \/ t[i].n \in M /\ \A k \in 1 .. i - 1 : Clear(t[k], t[i].n, Dropping)
Fed(s) == FedBy(s, {})

\* What a build makes of a partition, and whether it fills it.
Result(n) ==
  LET role == layout[n][1]
  IN  CASE role = "esp" -> "vfat"
        [] role = "data" -> "ext4"
        [] role = "payload" -> IF job.payload = "raw-iso" THEN "iso" ELSE "ext4"
        [] role = "persist" -> IF Persistence(n) = "encrypted" THEN "cryptext4" ELSE "ext4"
Fills(n) ==
  LET role == layout[n][1]
  IN  \/ role \in {"esp", "data"}
      \/ role = "payload" /\ job.payload # "raw-iso"
      \/ role = "persist" /\ Persistence(n) # "bare"

\* What the script of a build leads to, ...
Leads(s) ==
  /\ Fed(s)
  /\ \A n \in Numbers :
       /\ Ends(s, {S("mkpart", n)}, n, Resetting)
       /\ layout[n] # Bios => Ends(s, Making(n, Result(n)), n, Spoiling)
       /\ Fills(n) => Ends(s, Both("stage", n), n, Spoiling)
\* ... that of an update, ...
Touches(s) == Ops(s) \subseteq {"inspect", "find", "mount", "stage", "locate", "render", "config", "finalize"}
\* ... and both.
Names(s) ==
  /\ \A n \in MenuNames : Ends(s, {S("locate", n)}, n, Spoiling)
  /\ Ends(s, {S("render", 0)}, 0, Locating)
  /\ \A i \in DOMAIN s : s[i].op = "config" <=> i = Len(s) - 1

\* The plans the promise is made for: builds, and updates of several raw images.
InPlan == job.update => job.flow = "raw"
Roled ==
  \A n \in Numbers :
    /\ job.flow = "direct" => layout[n][1] = "other"
    /\ job.flow # "direct" => layout[n] = Bios \/ layout[n][1] \in {"esp", "data", "payload", "persist"}
Sound ==
  /\ Roled
  /\ job.flow = "direct" => /\ script[Len(script)].op = "dddisk"
                            /\ Ops(script) \subseteq {"inspect", "release", "dddisk"}
  /\ job.flow # "direct" => Names(script)
  /\ job.flow # "direct" /\ ~job.update => Leads(script)
  /\ job.update => Touches(script)

\* The layout has the script's partitions, and an update leaves them as they are.
StickInv ==
  /\ OnScript /\ Sound /\ InPlan
  /\ DOMAIN content = Numbers
  /\ phase = "done" => at = Len(script)
  /\ phase = "done" /\ job.flow = "direct" => \A n \in Numbers : content[n] = "iso"
  /\ job.update => /\ Numbers \subseteq table /\ Numbers \subseteq staged /\ MenuNames \subseteq menu
                   /\ \A n \in Numbers : content[n] = "old"
\* What the steps made so far have left.
Stands(n) ==
  /\ \A what \in Results : Since(Making(n, what), n, Spoiling) => content[n] = what
  /\ Since({S("mkpart", n)}, n, Resetting) => n \in table
  /\ Since(Both("mount", n), n, Dropping) => <<n, "writer">> \in mounts
  /\ ~job.update /\ Since(Both("stage", n), n, Spoiling) => n \in staged
  /\ Since({S("locate", n)}, n, Spoiling) => n \in located
  /\ Since({S("locate", n)}, n, Spoiling) /\ Since({S("render", 0)}, 0, Locating) => n \in rendered
Standing ==
  phase \in {"run", "done"} =>
    /\ \A n \in Numbers : Stands(n)
    /\ job.flow # "direct" /\ at = Len(script) => MenuNames \subseteq menu

-----------------------------------------------------------------------------
\* What a step made and nothing has undone was so before the step, or is its own work.
LEMMA SinceOnward ==
  ASSUME OnScript, Advance, UNCHANGED script, NEW A, NEW n, NEW bad, Since(A, n, bad)'
  PROVE  Step \in A \/ (Since(A, n, bad) /\ Clear(Step, n, bad))
<1>1. DOMAIN script = 1 .. Len(script) /\ Len(script) \in Nat /\ at \in 1 .. Len(script)
  BY DEF OnScript, Shaped
<1>2. PICK k \in 1 .. at' - 1 : script[k] \in A /\ \A j \in k + 1 .. at' : Clear(script[j], n, bad)
  BY DEF Since
<1>3. at' = at \/ at' = at + 1
  BY DEF Advance
<1>4. k = at \/ (k \in 1 .. at - 1 /\ \A j \in k + 1 .. at : j \in k + 1 .. at')
  BY <1>1, <1>2, <1>3
<1>5. CASE k = at
  BY <1>2, <1>5 DEF Step
<1>6. CASE k \in 1 .. at - 1 /\ \A j \in k + 1 .. at : j \in k + 1 .. at'
  <2>1. at \in k + 1 .. at
    BY <1>1, <1>6
  <2> QED BY <1>2, <1>6, <2>1 DEF Since, Step
<1> QED BY <1>4, <1>5, <1>6

\* Nor has the step at hand undone anything that stands.
LEMMA SinceClear ==
  ASSUME OnScript, NEW A, NEW n, NEW bad, Since(A, n, bad)
  PROVE  Clear(Step, n, bad)
<1>1. at \in Nat
  BY DEF OnScript, Shaped
<1>2. PICK k \in 1 .. at - 1 : \A j \in k + 1 .. at : Clear(script[j], n, bad)
  BY DEF Since
<1>3. at \in k + 1 .. at
  BY <1>1, <1>2
<1> QED BY <1>2, <1>3 DEF Step

\* What a step takes from a partition, it is known for.
Keeps ==
  \A n \in Numbers :
    /\ Clear(Step, n, Spoiling) => content'[n] = content[n]
    /\ Clear(Step, n, Resetting) /\ n \in table => n \in table'
    /\ Clear(Step, n, Dropping) /\ <<n, "writer">> \in mounts => <<n, "writer">> \in mounts'
    /\ Clear(Step, n, Spoiling) /\ n \in staged => n \in staged'
    /\ Clear(Step, n, Spoiling) /\ n \in located => n \in located'
    /\ Clear(Step, n, Spoiling) /\ n \in located \cap rendered => n \in rendered'
\* What it leaves when it is done.
Gives ==
  \A n \in Numbers :
    /\ \A what \in Results : Step \in Making(n, what) => content'[n] = what
    /\ Step = S("mkpart", n) => n \in table'
    /\ Step \in Both("mount", n) => <<n, "writer">> \in mounts'
    /\ ~job.update /\ Step \in Both("stage", n) => n \in staged'
    /\ Step = S("locate", n) => n \in located'
    /\ Step = S("render", 0) /\ n \in located => n \in rendered'

\* A step that keeps the script where it is and spoils no partition keeps what stands.
LEMMA StayStands ==
  ASSUME OnScript, Keeps, \A n \in Numbers : Stands(n), UNCHANGED <<job, layout, script, at>>
  PROVE  \A n \in Numbers : Stands(n)'
<1> SUFFICES ASSUME NEW n \in Numbers PROVE Stands(n)'
  OBVIOUS
<1>1. \A A, m, bad : Since(A, m, bad)' = Since(A, m, bad)
  BY DEF Since
<1>2. \A A, m, bad : Since(A, m, bad) => Clear(Step, m, bad)
  BY SinceClear
<1>3. Stands(n)
  OBVIOUS
<1>4. \A what \in Results : Since(Making(n, what), n, Spoiling)' => content'[n] = what
  BY <1>1, <1>2, <1>3 DEF Stands, Keeps
<1>5. Since({S("mkpart", n)}, n, Resetting)' => n \in table'
  BY <1>1, <1>2, <1>3 DEF Stands, Keeps
<1>6. Since(Both("mount", n), n, Dropping)' => <<n, "writer">> \in mounts'
  BY <1>1, <1>2, <1>3 DEF Stands, Keeps
<1>7. ~job.update /\ Since(Both("stage", n), n, Spoiling)' => n \in staged'
  BY <1>1, <1>2, <1>3 DEF Stands, Keeps
<1>8. Since({S("locate", n)}, n, Spoiling)' => n \in located'
  BY <1>1, <1>2, <1>3 DEF Stands, Keeps
<1>9. Since({S("locate", n)}, n, Spoiling)' /\ Since({S("render", 0)}, 0, Locating)' => n \in rendered'
  BY <1>1, <1>2, <1>3 DEF Stands, Keeps
<1> QED BY <1>4, <1>5, <1>6, <1>7, <1>8, <1>9 DEF Stands

\* So does one that goes on to the next step, when it gives what the step it ends is for.
LEMMA MoveStands ==
  ASSUME OnScript, Keeps, Gives, \A n \in Numbers : Stands(n), Advance, UNCHANGED <<job, layout, script>>
  PROVE  \A n \in Numbers : Stands(n)'
<1> SUFFICES ASSUME NEW n \in Numbers PROVE Stands(n)'
  OBVIOUS
<1>1. \A A, m, bad : Since(A, m, bad)' => Step \in A \/ (Since(A, m, bad) /\ Clear(Step, m, bad))
  BY SinceOnward
<1>3. Stands(n)
  OBVIOUS
<1>4. ASSUME NEW what \in Results, Since(Making(n, what), n, Spoiling)' PROVE content'[n] = what
  BY <1>1, <1>3, <1>4 DEF Stands, Keeps, Gives
<1>5. Since({S("mkpart", n)}, n, Resetting)' => n \in table'
  BY <1>1, <1>3 DEF Stands, Keeps, Gives
<1>6. Since(Both("mount", n), n, Dropping)' => <<n, "writer">> \in mounts'
  BY <1>1, <1>3 DEF Stands, Keeps, Gives
<1>7. ~job.update /\ Since(Both("stage", n), n, Spoiling)' => n \in staged'
  BY <1>1, <1>3 DEF Stands, Keeps, Gives
<1>8. Since({S("locate", n)}, n, Spoiling)' => n \in located'
  BY <1>1, <1>3 DEF Stands, Keeps, Gives
<1>9. ASSUME Since({S("locate", n)}, n, Spoiling)', Since({S("render", 0)}, 0, Locating)' PROVE n \in rendered'
  <2>1. Step = S("locate", n) => ~Clear(Step, 0, Locating) /\ Step # S("render", 0)
    BY DEF S, Clear, Locating
  <2>2. Since({S("locate", n)}, n, Spoiling) /\ Clear(Step, n, Spoiling)
    BY <1>1, <1>9, <2>1
  <2>3. n \in located
    BY <2>2, <1>3 DEF Stands
  <2>4. CASE Step = S("render", 0)
    BY <2>3, <2>4 DEF Gives
  <2>5. CASE Step # S("render", 0)
    <3>1. Since({S("render", 0)}, 0, Locating)
      BY <1>1, <1>9, <2>5
    <3> QED BY <3>1, <2>2, <2>3, <1>3 DEF Stands, Keeps
  <2> QED BY <2>4, <2>5
<1> QED BY <1>4, <1>5, <1>6, <1>7, <1>8, <1>9 DEF Stands


-----------------------------------------------------------------------------
(* What the steps of the interpreter keep and give.                        *)

\* Where the last steps of a script stand.
LEMMA AtEnds ==
  ASSUME StickInv
  PROVE  /\ at \in 1 .. Len(script) /\ Len(script) \in Nat /\ Step \in Steps
         /\ job.flow # "direct" => (Step.op = "config" <=> at = Len(script) - 1)
                                   /\ (Step.op = "finalize" <=> at = Len(script))
         /\ job.flow = "direct" /\ at = Len(script) => Step.op = "dddisk"
         /\ job.flow = "direct" => Step.op \in {"inspect", "release", "dddisk"}
         /\ job.update => job.flow = "raw" /\ Step.op \in {"inspect", "find", "mount", "stage", "locate", "render",
                                                           "config", "finalize"}
<1>1. DOMAIN script = 1 .. Len(script) /\ Len(script) \in Nat /\ at \in 1 .. Len(script) /\ script \in Seq(Steps)
  BY DEF StickInv, OnScript, Shaped
<1>2. Step \in Steps
  BY <1>1 DEF Step
<1>3. job.flow # "direct" => (Step.op = "config" <=> at = Len(script) - 1)
  BY <1>1 DEF StickInv, Sound, Names, Step
<1>4. job.flow # "direct" => (Step.op = "finalize" <=> at = Len(script))
  BY <1>1 DEF StickInv, OnScript, Shaped, Step
<1>5. job.flow = "direct" /\ at = Len(script) => Step.op = "dddisk"
  BY DEF StickInv, Sound, Step
<1>7. job.flow = "direct" => Step.op \in {"inspect", "release", "dddisk"}
  BY <1>1 DEF StickInv, Sound, Ops, Step
<1>6. job.update => job.flow = "raw" /\ Step.op \in {"inspect", "find", "mount", "stage", "locate", "render",
                                                     "config", "finalize"}
  BY <1>1 DEF StickInv, Sound, InPlan, Touches, Ops, Step
<1> QED BY <1>1, <1>2, <1>3, <1>4, <1>5, <1>6, <1>7

\* The facts of the script do not change.
LEMMA SoundStays ==
  ASSUME Sound, InPlan, UNCHANGED <<job, layout, script>>
  PROVE  Sound' /\ InPlan'
<1>1. Numbers' = Numbers /\ MenuNames' = MenuNames
  BY DEF Numbers, MenuNames
<1>2. \A A, n, bad : Ends(script, A, n, bad)' = Ends(script, A, n, bad)
  BY DEF Ends
<1>3. Names(script)' = Names(script)
  BY <1>1, <1>2 DEF Names
<1>4. \A n \in Numbers : Result(n)' = Result(n) /\ Fills(n)' = Fills(n)
  BY DEF Result, Fills, Persistence
<1>5. Fed(script)' = Fed(script) /\ Touches(script)' = Touches(script)
  BY DEF Fed, FedBy, Touches, Ops
<1>6. Leads(script)' = Leads(script)
  BY <1>1, <1>2, <1>4, <1>5 DEF Leads
<1>7. Roled' = Roled
  BY <1>1 DEF Roled, Bios
<1> QED BY <1>3, <1>5, <1>6, <1>7 DEF Sound, InPlan

\* A step that does not end.
LEMMA Stays ==
  ASSUME StickInv, Standing, phase = "run", phase' # "done", UNCHANGED <<job, layout, script, at>>,
         Keeps, DOMAIN content' = Numbers,
         job.update => content' = content /\ table \subseteq table' /\ staged \subseteq staged',
         job.update \/ Step.op = "finalize" => menu' = menu
  PROVE  StickInv' /\ Standing'
<1>1. OnScript'
  BY Waiting DEF StickInv
<1>2. Sound' /\ InPlan'
  BY SoundStays DEF StickInv
<1>3. Numbers' = Numbers /\ MenuNames' = MenuNames
  BY DEF Numbers, MenuNames
<1>4. StickInv'
  BY <1>1, <1>2, <1>3 DEF StickInv
<1>5. \A n \in Numbers : Stands(n)'
  BY StayStands DEF StickInv, Standing
<1>6. job'.flow # "direct" /\ at' = Len(script') => MenuNames' \subseteq menu'
  BY <1>3, AtEnds DEF Standing
<1> QED BY <1>3, <1>4, <1>5, <1>6 DEF Standing

\* A step that ends.
LEMMA Goes ==
  ASSUME StickInv, Standing, phase = "run", Advance, UNCHANGED <<job, layout, script>>,
         Keeps, Gives, DOMAIN content' = Numbers,
         job.update => content' = content /\ table \subseteq table' /\ staged \subseteq staged',
         (job.update /\ Step.op # "config") \/ Step.op = "finalize" => menu' = menu,
         Step.op = "config" => MenuNames \subseteq menu',
         Step.op = "dddisk" => \A n \in Numbers : content'[n] = "iso"
  PROVE  StickInv' /\ Standing'
<1>1. OnScript' /\ ((phase' = "done" /\ at = Len(script)) \/ phase' = phase)
  BY Onward DEF StickInv
<1>2. Sound' /\ InPlan'
  BY SoundStays DEF StickInv
<1>3. Numbers' = Numbers /\ MenuNames' = MenuNames
  BY DEF Numbers, MenuNames
<1>0. at' = at \/ at' = at + 1
  BY DEF Advance
<1>4. StickInv'
  <2>1. phase' = "done" => at' = Len(script')
    BY <1>1, AtEnds DEF Advance
  <2>2. phase' = "done" /\ job'.flow = "direct" => \A n \in Numbers : content'[n] = "iso"
    BY <1>1, AtEnds
  <2>3. job.update => Numbers \subseteq table' /\ Numbers \subseteq staged' /\ MenuNames \subseteq menu'
                      /\ \A n \in Numbers : content'[n] = "old"
    BY DEF StickInv
  <2> QED BY <1>1, <1>2, <1>3, <2>1, <2>2, <2>3 DEF StickInv
<1>5. \A n \in Numbers : Stands(n)'
  BY MoveStands DEF StickInv, Standing
<1>6. job'.flow # "direct" /\ at' = Len(script') => MenuNames' \subseteq menu'
  <2>1. at' = at + 1 /\ at' = Len(script) => at = Len(script) - 1
    BY AtEnds
  <2>2. CASE at' = at
    BY <2>2, <1>3, AtEnds DEF Standing
  <2>3. CASE at' = at + 1
    BY <2>1, <2>3, <1>3, AtEnds
  <2> QED BY <1>0, <2>2, <2>3
<1> QED BY <1>3, <1>4, <1>5, <1>6 DEF Standing

\* A step, known by its operation.
LEMMA KnownStep ==
  ASSUME Step \in Steps, NEW n
  PROVE  /\ \A what \in Results : Step \in Making(n, what) =>
              Step.op \in {"vfat", "ext4", "dd"} /\ Step.n = n /\ MadeBy(Step) = what
         /\ Step = S("mkpart", n) => Step.op = "mkpart" /\ Step.n = n
         /\ Step \in Both("mount", n) => Step.op = "mount" /\ Step.n = n
         /\ Step \in Both("stage", n) => Step.op = "stage" /\ Step.n = n
         /\ Step = S("locate", n) => Step.op = "locate" /\ Step.n = n
         /\ Step = S("render", 0) => Step.op = "render"
BY DEF Making, Both, S, L

\* A step of another operation leaves nothing of that kind.
LEMMA GivesNothing ==
  ASSUME Step \in Steps, Step.op \notin {"vfat", "ext4", "dd", "mkpart", "mount", "stage", "locate", "render"}
  PROVE  Gives
BY KnownStep DEF Gives

\* A step that changes nothing of the kind.
LEMMA KeepsAll ==
  ASSUME UNCHANGED <<content, staged, located, rendered>>, table \subseteq table', Ours \subseteq Ours'
  PROVE  Keeps
BY DEF Keeps, Ours


-----------------------------------------------------------------------------
(* Releasing, partitioning and formatting.                                 *)

FInv == StickInv /\ Standing

\* The release of the device, step by step.
LEMMA ReleaseLeads == ASSUME FInv, Release PROVE FInv'
<1> USE DEF given, device, host, files, AtStep, Releasing
<1>1. StickInv /\ Standing /\ Step \in Steps /\ phase = "run" /\ Step.op \in {"release", "label"}
  <2>1. StickInv /\ Standing
    BY DEF FInv
  <2>2. phase = "run" /\ Step.op \in {"release", "label"}
    BY DEF Release, ReleaseMounts, CheckUse, Scrub, ResetTable, RecheckUse, MakeLabel
  <2> QED BY <2>1, <2>2, AtEnds
<1>2. ~job.update
  BY <1>1, AtEnds
<1>3. Gives
  BY <1>1, GivesNothing
<1>4. ASSUME NEW n PROVE ~Clear(Step, n, Spoiling) /\ ~Clear(Step, n, Resetting) /\ ~Clear(Step, n, Dropping)
  BY <1>1 DEF Clear, Spoiling, Resetting, Dropping
<1>5. Keeps
  BY <1>4 DEF Keeps
<1>6. DOMAIN content = Numbers
  BY <1>1 DEF StickInv
<1>7. DOMAIN content' = Numbers /\ UNCHANGED <<job, layout, script>>
  BY <1>6 DEF Release, ReleaseMounts, CheckUse, Scrub, ResetTable, RecheckUse, MakeLabel
<1>8. CASE Advance
  BY <1>1, <1>2, <1>3, <1>5, <1>7, <1>8, Goes DEF FInv
<1>9. CASE ~Advance
  <2>1. UNCHANGED at /\ phase' # "done"
    BY <1>1, <1>9 DEF Release, ReleaseMounts, CheckUse, Scrub, ResetTable, RecheckUse, MakeLabel, Retry, Within, Die
  <2> QED BY <1>1, <1>2, <1>5, <1>7, <2>1, Stays DEF FInv
<1> QED BY <1>8, <1>9

\* The steps that write the table.
LEMMA PartitionLeads == ASSUME FInv, Partition PROVE FInv'
<1> USE DEF given, device, host, files, AtStep
<1>1. StickInv /\ Standing /\ Step \in Steps /\ phase = "run" /\ DOMAIN content = Numbers /\ ~job.update
  <2>1. StickInv /\ Standing
    BY DEF FInv
  <2>2. phase = "run" /\ Step.op \in {"mkpart", "wait"}
    BY DEF Partition, MakePartition, WaitForPartition
  <2> QED BY <2>1, <2>2, AtEnds DEF StickInv
<1>2. CASE MakePartition
  <2>1. Step.op = "mkpart" /\ UNCHANGED <<job, layout, script>> /\ Advance
    BY <1>2 DEF MakePartition
  <2>2. ASSUME NEW n PROVE ~Clear(Step, n, Spoiling)
    BY <2>1 DEF Clear, Spoiling
  <2>3. DOMAIN content' = Numbers
    BY <1>1, <1>2 DEF MakePartition
  <2>4. Keeps
    BY <1>2, <2>2 DEF Keeps, MakePartition
  <2>5. Gives
    BY <1>1, <1>2, <2>1, KnownStep DEF Gives, MakePartition
  <2> QED BY <1>1, <2>1, <2>3, <2>4, <2>5, Goes DEF FInv
<1>3. CASE WaitForPartition
  <2>1. Step.op = "wait" /\ UNCHANGED <<job, layout, script, content, table, staged, located, rendered, menu>>
    BY <1>3 DEF WaitForPartition
  <2>2. ASSUME NEW n PROVE ~Clear(Step, n, Dropping)
    BY <2>1 DEF Clear, Dropping
  <2>3. Keeps
    BY <2>1, <2>2 DEF Keeps
  <2>4. Gives
    BY <1>1, <2>1, GivesNothing
  <2>5. Advance \/ (UNCHANGED at /\ phase' # "done")
    BY <1>1, <1>3 DEF WaitForPartition, Retry, Die
  <2> QED BY <1>1, <2>1, <2>3, <2>4, <2>5, Goes, Stays DEF FInv
<1> QED BY <1>2, <1>3 DEF Partition

\* What is written to one partition spoils that one alone.
LEMMA Overwritten ==
  ASSUME Step.op \in {"vfat", "ext4", "dd", "luks"}, NEW what, Overwrite(Step.n, what), DOMAIN content = Numbers,
         UNCHANGED <<mounts, table>>
  PROVE  Keeps /\ DOMAIN content' = Numbers
<1>1. \A n : n = Step.n => ~Clear(Step, n, Spoiling)
  BY DEF Clear, Spoiling
<1> QED BY <1>1 DEF Overwrite, Keeps

\* The steps that format a partition or write an image to it.
LEMMA FormatLeads == ASSUME FInv, Format PROVE FInv'
<1> USE DEF given, device, host, files, AtStep, Formatting
<1>1. StickInv /\ Standing /\ Step \in Steps /\ phase = "run" /\ DOMAIN content = Numbers /\ ~job.update
      /\ Step.op \in {"vfat", "ext4", "dd", "dddisk", "luks", "stale", "close", "open"}
  <2>1. StickInv /\ Standing
    BY DEF FInv
  <2>2. phase = "run" /\ Step.op \in {"vfat", "ext4", "dd", "dddisk", "luks", "stale", "close", "open"}
    BY DEF Format, Prepare, Wipe, Make, WriteDisk, LuksFormat, CloseMapping, OpenMapping
  <2> QED BY <2>1, <2>2, AtEnds DEF StickInv
<1>0. UNCHANGED <<job, layout, script>>
  BY DEF Format, Prepare, Wipe, Make, WriteDisk, LuksFormat, CloseMapping, OpenMapping
<1>2. CASE Prepare
  <2>1. Step.op \in {"vfat", "ext4", "dd"} /\ UNCHANGED <<at, content, table, staged, located, rendered, menu>>
        /\ phase' # "done" /\ (mounts' = mounts \/ mounts' = mounts \ On(Step.n))
    BY <1>1, <1>2 DEF Prepare, Die, Within
  <2>2. \A n : n = Step.n => ~Clear(Step, n, Dropping)
    BY <2>1 DEF Clear, Dropping
  <2>3. \A n : n # Step.n => <<n, "writer">> \notin On(Step.n)
    BY DEF On
  <2>4. Keeps
    BY <2>1, <2>2, <2>3 DEF Keeps
  <2> QED BY <1>0, <1>1, <2>1, <2>4, Stays DEF FInv
<1>3. CASE Wipe
  <2>1. Step.op \in {"vfat", "ext4", "dd"} /\ UNCHANGED <<at, table, mounts>> /\ phase' # "done"
    BY <1>1, <1>3 DEF Wipe, Within
  <2>2. PICK what : Overwrite(Step.n, what)
    BY <1>3 DEF Wipe
  <2>3. Keeps /\ DOMAIN content' = Numbers
    BY <1>1, <2>1, <2>2, Overwritten
  <2> QED BY <1>0, <1>1, <2>1, <2>3, Stays DEF FInv
<1>4. CASE Make
  <2>1. Step.op \in {"vfat", "ext4", "dd"} /\ UNCHANGED <<table, mounts>>
    BY <1>1, <1>4 DEF Make
  <2>2. PICK what : Overwrite(Step.n, what)
    BY <1>4 DEF Make
  <2>3. Keeps /\ DOMAIN content' = Numbers
    BY <1>1, <2>1, <2>2, Overwritten
  <2>4. CASE Overwrite(Step.n, Made) /\ Advance
    <3>1. Gives
      <4>1. Made = MadeBy(Step)
        BY DEF Made, MadeBy
      <4>2. \A n \in Numbers : n = Step.n => content'[n] = Made
        BY <1>1, <2>4 DEF Overwrite
      <4> QED BY <1>1, <2>1, <4>1, <4>2, KnownStep DEF Gives
    <3> QED BY <1>0, <1>1, <2>1, <2>3, <2>4, <3>1, Goes DEF FInv
  <2>5. CASE Retry
    <3>1. UNCHANGED at /\ phase' # "done"
      BY <1>1, <2>5 DEF Retry, Die
    <3> QED BY <1>0, <1>1, <2>1, <2>3, <3>1, Stays DEF FInv
  <2> QED BY <1>4, <2>4, <2>5 DEF Make
<1>5. CASE WriteDisk
  <2>1. Step.op = "dddisk" /\ Advance /\ content' = [n \in Numbers |-> "iso"]
    BY <1>5 DEF WriteDisk
  <2>2. \A n : ~Clear(Step, n, Spoiling)
    BY <2>1 DEF Clear, Spoiling
  <2>3. Keeps
    BY <1>5, <2>2 DEF Keeps, WriteDisk
  <2>4. Gives
    BY <1>1, <2>1, GivesNothing
  <2> QED BY <1>0, <1>1, <2>1, <2>3, <2>4, Goes DEF FInv
<1>6. CASE LuksFormat
  <2>1. Step.op = "luks" /\ Advance /\ Overwrite(Step.n, "luks") /\ UNCHANGED <<table, mounts>>
    BY <1>6 DEF LuksFormat
  <2>2. Keeps /\ DOMAIN content' = Numbers
    BY <1>1, <2>1, Overwritten
  <2>3. Gives
    BY <1>1, <2>1, GivesNothing
  <2> QED BY <1>0, <1>1, <2>1, <2>2, <2>3, Goes DEF FInv
<1>7. CASE CloseMapping \/ OpenMapping
  <2>1. Step.op \in {"stale", "close", "open"} /\ UNCHANGED <<mounts, content, table, staged, located, rendered, menu>>
        /\ (Advance \/ (UNCHANGED at /\ phase' # "done"))
    BY <1>1, <1>7 DEF CloseMapping, OpenMapping, Die
  <2>2. Gives
    BY <1>1, <2>1, GivesNothing
  <2>3. Keeps
    BY <2>1, KeepsAll DEF Ours
  <2> QED BY <1>0, <1>1, <2>1, <2>2, <2>3, Goes, Stays DEF FInv
<1> QED BY <1>2, <1>3, <1>4, <1>5, <1>6, <1>7 DEF Format


-----------------------------------------------------------------------------
(* Filling, and everything else that happens.                              *)

\* When the menu is written, everything it has to name has been rendered.
LEMMA RenderedAll ==
  ASSUME StickInv, Standing, phase = "run", Step.op = "config"
  PROVE  MenuNames \subseteq rendered
<1>1. DOMAIN script = 1 .. Len(script) /\ Len(script) \in Nat /\ at = Len(script) - 1 /\ at \in 1 .. Len(script)
      /\ job.flow # "direct"
  BY AtEnds DEF StickInv, OnScript, Shaped
<1>2. Names(script)
  BY <1>1 DEF StickInv, Sound
<1>3. script[Len(script)].op = "finalize"
  BY <1>1 DEF StickInv, OnScript, Shaped
<1>4. ASSUME NEW A, NEW n, NEW bad, Ends(script, A, n, bad), \A s \in A : s.op \notin {"config", "finalize"}
      PROVE  Since(A, n, bad)
  <2>1. PICK i \in DOMAIN script : script[i] \in A /\ \A j \in DOMAIN script : j > i => Clear(script[j], n, bad)
    BY <1>4 DEF Ends
  <2>2. i # at /\ i # Len(script)
    BY <1>3, <1>4, <2>1 DEF Step
  <2>3. i \in 1 .. at - 1
    BY <1>1, <2>2
  <2>4. \A j \in i + 1 .. at : j \in DOMAIN script /\ j > i
    BY <1>1, <2>3
  <2> QED BY <2>1, <2>3, <2>4 DEF Since
<1>5. ASSUME NEW n \in MenuNames PROVE n \in rendered
  <2>1. n \in Numbers
    BY DEF MenuNames
  <2>2. Since({S("locate", n)}, n, Spoiling)
    <3>1. \A s \in {S("locate", n)} : s.op \notin {"config", "finalize"}
      BY DEF S
    <3> QED BY <1>2, <1>4, <3>1 DEF Names
  <2>3. Since({S("render", 0)}, 0, Locating)
    <3>1. \A s \in {S("render", 0)} : s.op \notin {"config", "finalize"}
      BY DEF S
    <3> QED BY <1>2, <1>4, <3>1 DEF Names
  <2> QED BY <2>1, <2>2, <2>3 DEF Standing, Stands
<1> QED BY <1>5

\* A partition is mounted when it is filled.
LEMMA MountedForStage ==
  ASSUME StickInv, Standing, phase = "run", Step.op = "stage", ~job.update, Step.n \in Numbers
  PROVE  <<Step.n, "writer">> \in mounts
<1>1. DOMAIN script = 1 .. Len(script) /\ Len(script) \in Nat /\ at \in 1 .. Len(script) /\ script \in Seq(Steps)
      /\ job.flow # "direct"
  BY AtEnds DEF StickInv, OnScript, Shaped
<1>2. Fed(script)
  BY <1>1 DEF StickInv, Sound, Leads
<1>3. PICK j \in 1 .. at - 1 :
        /\ script[j].op = "mount" /\ script[j].n = Step.n
        /\ \A k \in j + 1 .. at - 1 : Clear(script[k], Step.n, Dropping)
  BY <1>1, <1>2 DEF Fed, FedBy, Step
<1>4. Clear(Step, Step.n, Dropping)
  BY DEF Clear, Dropping
<1>5. \A k \in j + 1 .. at : k = at \/ k \in j + 1 .. at - 1
  BY <1>1, <1>3
<1>6. \A k \in j + 1 .. at : Clear(script[k], Step.n, Dropping)
  BY <1>3, <1>4, <1>5 DEF Step
<1>7. script[j] \in Both("mount", Step.n)
  <2>1. j \in DOMAIN script
    BY <1>1
  <2>2. script[j] \in Steps
    BY <1>1, <2>1
  <2> QED BY <2>2, <1>3 DEF Both, S, L, Steps
<1>8. Since(Both("mount", Step.n), Step.n, Dropping)
  BY <1>3, <1>6, <1>7 DEF Since
<1> QED BY <1>8 DEF Standing, Stands

\* The steps that mount, fill and record.
LEMMA FillLeads == ASSUME FInv, Fill PROVE FInv'
<1> USE DEF given, device, host, files, AtStep
<1>0. UNCHANGED <<job, layout, script, content, table>>
  BY DEF Fill, Inspect, Find, Mount, Unmount, Stage, Locate, Render, WriteMenu, Finalize
<1>1. StickInv /\ Standing /\ Step \in Steps /\ phase = "run" /\ DOMAIN content = Numbers /\ DOMAIN content' = Numbers
  <2>1. StickInv /\ Standing
    BY DEF FInv
  <2>2. phase = "run"
    BY DEF Fill, Inspect, Find, Mount, Unmount, Stage, Locate, Render, WriteMenu, Finalize
  <2> QED BY <2>1, <2>2, <1>0, AtEnds DEF StickInv
<1>2. CASE Inspect \/ Find
  <2>1. Step.op \in {"inspect", "find"} /\ UNCHANGED <<mounts, staged, located, rendered, menu>>
        /\ (Advance \/ (UNCHANGED at /\ phase' # "done"))
    BY <1>1, <1>2 DEF Inspect, Find, Die
  <2>2. Gives
    BY <1>1, <2>1, GivesNothing
  <2>3. Keeps
    BY <1>0, <2>1, KeepsAll DEF Ours
  <2> QED BY <1>0, <1>1, <2>1, <2>2, <2>3, Goes, Stays DEF FInv
<1>3. CASE Mount
  <2>1. Step.op = "mount" /\ UNCHANGED <<staged, located, rendered, menu>>
    BY <1>3 DEF Mount
  <2>2. CASE mounts' = mounts \cup {<<Step.n, "writer">>} /\ Advance
    <3>1. Gives
      BY <1>1, <2>1, <2>2, KnownStep DEF Gives
    <3>2. Keeps
      BY <1>0, <2>1, <2>2, KeepsAll DEF Ours
    <3> QED BY <1>0, <1>1, <2>1, <2>2, <3>1, <3>2, Goes DEF FInv
  <2>3. CASE Die /\ UNCHANGED mounts
    <3>1. Keeps
      BY <1>0, <2>1, <2>3, KeepsAll DEF Ours
    <3> QED BY <1>0, <1>1, <2>1, <2>3, <3>1, Stays DEF FInv, Die
  <2> QED BY <1>3, <2>2, <2>3 DEF Mount
<1>4. CASE Unmount
  <2>1. Step.op = "umount" /\ UNCHANGED <<staged, located, rendered, menu>>
        /\ (mounts' = mounts \/ mounts' = mounts \ {<<Step.n, "writer">>})
        /\ (Advance \/ (UNCHANGED at /\ phase' # "done"))
    BY <1>1, <1>4 DEF Unmount, Die
  <2>2. \A n : n = Step.n => ~Clear(Step, n, Dropping)
    BY <2>1 DEF Clear, Dropping
  <2>3. Keeps
    BY <1>0, <2>1, <2>2 DEF Keeps
  <2>4. Gives
    BY <1>1, <2>1, GivesNothing
  <2> QED BY <1>0, <1>1, <2>1, <2>3, <2>4, Goes, Stays DEF FInv
<1>5. CASE Stage
  <2>1. Step.op = "stage" /\ UNCHANGED <<mounts, located, rendered, menu>> /\ Advance /\ staged \subseteq staged'
    BY <1>5 DEF Stage
  <2>2. Keeps
    BY <1>0, <2>1 DEF Keeps
  <2>3. ASSUME ~job.update, Step.n \in Numbers PROVE Step.n \in staged'
    BY <1>1, <1>5, <2>1, <2>3, MountedForStage DEF Stage
  <2>4. Gives
    BY <1>1, <2>1, <2>3, KnownStep DEF Gives
  <2> QED BY <1>0, <1>1, <2>1, <2>2, <2>4, Goes DEF FInv
<1>6. CASE Locate
  <2>1. Step.op = "locate" /\ UNCHANGED <<mounts, staged, rendered, menu>> /\ located \subseteq located'
    BY <1>6 DEF Locate
  <2>2. Keeps
    BY <1>0, <2>1 DEF Keeps
  <2>3. CASE Advance /\ Step.n \in located'
    <3>1. Gives
      BY <1>1, <2>1, <2>3, KnownStep DEF Gives
    <3> QED BY <1>0, <1>1, <2>1, <2>2, <2>3, <3>1, Goes DEF FInv
  <2>4. CASE Die
    BY <1>0, <1>1, <2>1, <2>2, <2>4, Stays DEF FInv, Die
  <2> QED BY <1>6, <2>3, <2>4 DEF Locate
<1>7. CASE Render
  <2>1. Step.op = "render" /\ UNCHANGED <<mounts, staged, located, menu>> /\ rendered' = located /\ Advance
    BY <1>7 DEF Render
  <2>2. Keeps
    BY <1>0, <2>1 DEF Keeps
  <2>3. Gives
    BY <1>1, <2>1, KnownStep DEF Gives
  <2> QED BY <1>0, <1>1, <2>1, <2>2, <2>3, Goes DEF FInv
<1>8. CASE WriteMenu
  <2>1. Step.op = "config" /\ UNCHANGED <<mounts, staged, located, rendered>>
    BY <1>8 DEF WriteMenu
  <2>2. Keeps
    BY <1>0, <2>1 DEF Keeps
  <2>3. Gives
    BY <1>1, <2>1, GivesNothing
  <2>4. CASE Advance
    <3>1. MenuNames \subseteq menu'
      <4>1. menu' = rendered \/ (job.update /\ menu' = menu) \/ Die
        BY <1>8 DEF WriteMenu
      <4>2. ~Die
        BY <1>1, <2>4 DEF Die, Advance
      <4> QED BY <1>1, <2>1, <4>1, <4>2, RenderedAll DEF StickInv
    <3> QED BY <1>0, <1>1, <2>1, <2>2, <2>3, <2>4, <3>1, Goes DEF FInv
  <2>5. CASE ~Advance
    <3>1. Die /\ menu' = menu
      BY <1>8, <2>5 DEF WriteMenu
    <3> QED BY <1>0, <1>1, <2>1, <2>2, <3>1, Stays DEF FInv, Die
  <2> QED BY <2>4, <2>5
<1>9. CASE Finalize
  <2>1. Step.op = "finalize" /\ UNCHANGED <<staged, located, rendered, menu>>
        /\ (Advance \/ (UNCHANGED at /\ phase' # "done"))
    BY <1>1, <1>9 DEF Finalize, Retry, Die
  <2>2. \A n : ~Clear(Step, n, Dropping)
    BY <2>1 DEF Clear, Dropping
  <2>3. Keeps
    BY <1>0, <2>1, <2>2 DEF Keeps
  <2>4. Gives
    BY <1>1, <2>1, GivesNothing
  <2> QED BY <1>0, <1>1, <2>1, <2>3, <2>4, Goes, Stays DEF FInv
<1> QED BY <1>2, <1>3, <1>4, <1>5, <1>6, <1>7, <1>8, <1>9 DEF Fill

\* Outside the run nothing of the stick changes.
LEMMA OutsideLeads ==
  ASSUME FInv, UNCHANGED <<job, layout, script, at, content, table, staged, located, rendered, menu>>,
         phase' = phase \/ phase' \notin {"run", "done"}, Ours \subseteq Ours' \/ phase' \notin {"run", "done"}
  PROVE  FInv'
<1>1. StickInv /\ Standing
  BY DEF FInv
<1>2. OnScript'
  BY <1>1, Waiting DEF StickInv
<1>3. Sound' /\ InPlan'
  BY <1>1, SoundStays DEF StickInv
<1>4. Numbers' = Numbers /\ MenuNames' = MenuNames
  BY DEF Numbers, MenuNames
<1>5. StickInv'
  BY <1>1, <1>2, <1>3, <1>4 DEF StickInv
<1>6. CASE phase' \notin {"run", "done"}
  BY <1>5, <1>6 DEF FInv, Standing
<1>7. CASE phase' = phase /\ Ours \subseteq Ours'
  <2>1. Keeps
    BY <1>7, KeepsAll
  <2>2. phase \in {"run", "done"} => \A n \in Numbers : Stands(n)'
    BY <1>1, <2>1, StayStands DEF StickInv, Standing
  <2> QED BY <1>1, <1>4, <1>5, <1>7, <2>2 DEF FInv, Standing
<1> QED BY <1>6, <1>7

\* Failing, leaving, asking, dying and the desktop session give and undo nothing the script counts on.
LEMMA OthersLead == ASSUME FInv, Fail \/ Exit \/ AskPassphrase \/ Kill \/ Desktop PROVE FInv'
<1> USE DEF given, control, device, host, files, AtStep
<1>1. CASE Fail
  BY <1>1, OutsideLeads DEF Fail, Die
<1>2. CASE Exit
  <2>1. UNCHANGED <<job, layout, script, at, content, table, staged, located, rendered, menu>>
        /\ phase' \notin {"run", "done"}
    BY <1>2 DEF Exit, CleanupLuks, Leave
  <2> QED BY <2>1, OutsideLeads
<1>3. CASE AskPassphrase
  <2>1. StickInv /\ Standing /\ Step \in Steps /\ DOMAIN content = Numbers
    BY AtEnds DEF FInv, StickInv
  <2>2. phase = "run" /\ Step.op = "key" /\ Advance
        /\ UNCHANGED <<job, layout, script, content, table, staged, mounts, located, rendered, menu>>
    BY <1>3 DEF AskPassphrase
  <2>3. Gives
    BY <2>1, <2>2, GivesNothing
  <2>4. Keeps
    BY <2>2, KeepsAll DEF Ours
  <2>5. DOMAIN content' = Numbers
    BY <2>1, <2>2
  <2> QED BY <2>1, <2>2, <2>3, <2>4, <2>5, Goes DEF FInv
<1>4. CASE Kill
  BY <1>4, OutsideLeads DEF Kill
<1>5. CASE Desktop
  <2>1. UNCHANGED <<job, layout, script, at, content, table, staged, located, rendered, menu, phase>>
        /\ Ours \subseteq Ours'
    BY <1>5 DEF Desktop, Automount, Hold, LetGo, Ours
  <2> QED BY <2>1, OutsideLeads
<1> QED BY <1>1, <1>2, <1>3, <1>4, <1>5

\* At the start of a script nothing stands yet.
LEMMA NothingStands ==
  ASSUME OnScript, Sound, at = 1, phase = "run"
  PROVE  Standing
<1>1. \A A, n, bad : ~Since(A, n, bad)
  BY DEF Since
<1>2. ASSUME job.flow # "direct", Len(script) = 1 PROVE FALSE
  <2>1. Ends(script, {S("render", 0)}, 0, Locating)
    BY <1>2 DEF Sound, Names
  <2>2. DOMAIN script = 1 .. 1 /\ script[1].op = "finalize"
    BY <1>2 DEF OnScript, Shaped
  <2>3. 1 .. 1 = {1}
    OBVIOUS
  <2> QED BY <2>1, <2>2, <2>3 DEF Ends, S
<1> QED BY <1>1, <1>2 DEF Standing, Stands

\* So do those of its shape.
LEMMA ShapedStays ==
  ASSUME Shaped, UNCHANGED <<job, layout, script>>
  PROVE  Shaped'
<1>1. Encrypted' = Encrypted
  BY DEF Encrypted, Persistence, Numbers
<1>2. Steps' = Steps
  BY DEF Steps, Targets, MenuPart, Number, Numbers
<1> QED BY <1>1, <1>2 DEF Shaped, After, Closes, KeysFirst, Ops

\* Another run of the same plan starts its script anew.
LEMMA RunAgainLeads == ASSUME FInv, RunAgain PROVE FInv'
<1>1. StickInv /\ at' = 1 /\ phase' = "run" /\ UNCHANGED <<job, layout, script, content, table, staged, menu>>
  BY DEF FInv, RunAgain
<1>2. OnScript'
  <2>1. Shaped'
    BY <1>1, ShapedStays DEF StickInv, OnScript
  <2>2. 1 \in DOMAIN script
    BY <1>1 DEF StickInv, OnScript, Shaped
  <2> QED BY <1>1, <2>1, <2>2 DEF StickInv, OnScript
<1>3. Sound' /\ InPlan'
  BY <1>1, SoundStays DEF StickInv
<1>4. Numbers' = Numbers /\ MenuNames' = MenuNames
  BY <1>1 DEF Numbers, MenuNames
<1>5. StickInv'
  BY <1>1, <1>2, <1>3, <1>4 DEF StickInv
<1>6. Standing'
  <2>1. \A A, n, bad : ~Since(A, n, bad)'
    BY <1>1 DEF Since
  <2>2. ASSUME job.flow # "direct", Len(script) = 1 PROVE FALSE
    <3>1. Ends(script, {S("render", 0)}, 0, Locating)
      BY <1>1, <2>2 DEF StickInv, Sound, Names
    <3>2. DOMAIN script = 1 .. 1 /\ script[1].op = "finalize"
      BY <1>1, <2>2 DEF StickInv, OnScript, Shaped
    <3>3. 1 .. 1 = {1}
      OBVIOUS
    <3> QED BY <3>1, <3>2, <3>3 DEF Ends, S
  <2> QED BY <1>1, <2>1, <2>2 DEF Standing, Stands
<1> QED BY <1>5, <1>6 DEF FInv

\* What has not been undone when the script is over.
LEMMA AtTheEnd ==
  ASSUME StickInv, phase = "done", job.flow # "direct", NEW A, NEW n, NEW bad, Ends(script, A, n, bad),
         \A s \in A : s.op # "finalize"
  PROVE  Since(A, n, bad)
<1>1. DOMAIN script = 1 .. Len(script) /\ Len(script) \in Nat /\ at = Len(script) /\ script[Len(script)].op = "finalize"
  BY DEF StickInv, OnScript, Shaped
<1>2. PICK i \in DOMAIN script : script[i] \in A /\ \A j \in DOMAIN script : j > i => Clear(script[j], n, bad)
  BY DEF Ends
<1>3. i # Len(script)
  BY <1>1, <1>2
<1>4. i \in 1 .. at - 1
  BY <1>1, <1>2, <1>3
<1>5. \A j \in i + 1 .. at : j \in DOMAIN script /\ j > i
  BY <1>1, <1>4
<1> QED BY <1>2, <1>4, <1>5 DEF Since


-----------------------------------------------------------------------------
(* Every role of a layout has one number.                                  *)

\* A sequence with every member of R once.
Spread(s, R) ==
  /\ \A i \in DOMAIN s : s[i] \in R
  /\ \A i, j \in DOMAIN s : s[i] = s[j] => i = j
  /\ \A r \in R : \E i \in DOMAIN s : s[i] = r

\* Two parts of a layout with different roles make a layout with both.
LEMMA SpreadJoined ==
  ASSUME NEW Elems, NEW s \in Seq(Elems), NEW t \in Seq(Elems), NEW R, NEW Q, Spread(s, R), Spread(t, Q), R \cap Q = {}
  PROVE  Spread(s \o t, R \cup Q)
<1> DEFINE u == s \o t
<1>1. /\ u \in Seq(Elems) /\ Len(u) = Len(s) + Len(t)
      /\ \A i \in 1 .. Len(s) + Len(t) : u[i] = IF i <= Len(s) THEN s[i] ELSE t[i - Len(s)]
  BY ConcatProperties
<1>2. /\ Len(s) \in Nat /\ Len(t) \in Nat /\ DOMAIN s = 1 .. Len(s) /\ DOMAIN t = 1 .. Len(t)
      /\ DOMAIN u = 1 .. Len(s) + Len(t)
  BY <1>1
<1> HIDE DEF u
<1>3. ASSUME NEW i \in DOMAIN s PROVE i \in DOMAIN u /\ u[i] = s[i]
  BY <1>1, <1>2
<1>4. ASSUME NEW i \in DOMAIN t PROVE Len(s) + i \in DOMAIN u /\ u[Len(s) + i] = t[i]
  <2>1. i \in 1 .. Len(t) /\ Len(s) + i \in 1 .. Len(s) + Len(t) /\ ~(Len(s) + i <= Len(s))
        /\ (Len(s) + i) - Len(s) = i
    BY <1>2
  <2> QED BY <2>1, <1>1, <1>2
<1>5. ASSUME NEW i \in DOMAIN u
      PROVE  \/ i \in DOMAIN s /\ u[i] = s[i] /\ u[i] \in R
             \/ i - Len(s) \in DOMAIN t /\ u[i] = t[i - Len(s)] /\ u[i] \in Q
  <2>1. CASE i <= Len(s)
    BY <2>1, <1>1, <1>2 DEF Spread
  <2>2. CASE ~(i <= Len(s))
    <3>1. i - Len(s) \in DOMAIN t /\ u[i] = t[i - Len(s)]
      BY <2>2, <1>1, <1>2
    <3> QED BY <3>1 DEF Spread
  <2> QED BY <2>1, <2>2
<1>6. ASSUME NEW i \in DOMAIN u, NEW j \in DOMAIN u, u[i] = u[j] PROVE i = j
  <2>1. CASE i \in DOMAIN s /\ u[i] = s[i] /\ u[i] \in R
    <3>1. j \in DOMAIN s /\ u[j] = s[j]
      BY <2>1, <1>5, <1>6
    <3> QED BY <2>1, <3>1, <1>6 DEF Spread
  <2>2. CASE i - Len(s) \in DOMAIN t /\ u[i] = t[i - Len(s)] /\ u[i] \in Q
    <3>1. j - Len(s) \in DOMAIN t /\ u[j] = t[j - Len(s)]
      BY <2>2, <1>5, <1>6
    <3>2. i - Len(s) = j - Len(s)
      BY <2>2, <3>1, <1>6 DEF Spread
    <3> QED BY <3>2, <1>2
  <2> QED BY <2>1, <2>2, <1>5
<1>7. ASSUME NEW r \in R \cup Q PROVE \E i \in DOMAIN u : u[i] = r
  BY <1>3, <1>4 DEF Spread
<1> QED BY <1>5, <1>6, <1>7 DEF Spread, u

\* The partitions of one class, or with persistence: one for every such system.
LEMMA SpreadTagged ==
  ASSUME NEW N \in Nat, NEW tag, NEW P \in SUBSET (1 .. N), NEW Elems, \A k \in P : <<tag, k>> \in Elems
  PROVE  LET seqs == [k \in 1 .. N |-> IF k \in P THEN <<<<tag, k>>>> ELSE <<>>]
         IN  FlattenSeq(seqs) \in Seq(Elems) /\ Spread(FlattenSeq(seqs), {<<tag, k>> : k \in P})
<1> DEFINE one(k) == <<tag, k>>
           seqs == [k \in 1 .. N |-> IF k \in P THEN <<one(k)>> ELSE <<>>]
           flat == FlattenSeq(seqs)
<1>0. \A k \in P : one(k) \in Elems
  OBVIOUS
<1>1. \A k, m : one(k) = one(m) => k = m
  OBVIOUS
<1> HIDE DEF one
<1>2. seqs \in Seq(Seq(Elems)) /\ Len(seqs) = N /\ DOMAIN seqs = 1 .. N
  BY <1>0
<1>3. flat \in Seq(Elems) /\ \E off \in [DOMAIN seqs -> Nat] : Blocks(flat, seqs, Len(seqs), off)
  <2> HIDE DEF seqs
  <2> QED BY <1>2, FlattenBlocks
<1>4. PICK off \in [1 .. N -> Nat] : Blocks(flat, seqs, N, off)
  BY <1>2, <1>3
<1>5. \A k \in 1 .. N : \A j \in DOMAIN seqs[k] : k \in P /\ j = 1 /\ seqs[k][j] = one(k)
  <2> SUFFICES ASSUME NEW k \in 1 .. N, NEW j \in DOMAIN seqs[k] PROVE k \in P /\ j = 1 /\ seqs[k][j] = one(k)
    OBVIOUS
  <2>1. CASE k \notin P
    BY <2>1
  <2>2. CASE k \in P
    BY <2>2
  <2> QED BY <2>1, <2>2
<1>6. \A k \in P : 1 \in DOMAIN seqs[k]
  OBVIOUS
<1> HIDE DEF seqs
<1>7. ASSUME NEW i \in DOMAIN flat PROVE \E k \in P : i = off[k] + 1 /\ flat[i] = one(k)
  <2>1. PICK k \in 1 .. N : \E j \in DOMAIN seqs[k] : i = off[k] + j
    BY <1>4 DEF Blocks
  <2>2. PICK j \in DOMAIN seqs[k] : i = off[k] + j
    BY <2>1
  <2>3. k \in P /\ j = 1 /\ seqs[k][j] = one(k) /\ flat[off[k] + j] = seqs[k][j]
    BY <1>4, <1>5 DEF Blocks
  <2> QED BY <2>2, <2>3
<1>8. ASSUME NEW k \in P PROVE off[k] + 1 \in DOMAIN flat /\ flat[off[k] + 1] = one(k)
  <2>1. k \in 1 .. N /\ 1 \in DOMAIN seqs[k] /\ seqs[k][1] = one(k)
    BY <1>5, <1>6
  <2> QED BY <1>4, <2>1 DEF Blocks
<1> HIDE DEF flat
<1>9. Spread(flat, {one(k) : k \in P})
  <2>1. ASSUME NEW i \in DOMAIN flat, NEW j \in DOMAIN flat, flat[i] = flat[j] PROVE i = j
    <3>1. PICK k \in P : i = off[k] + 1 /\ flat[i] = one(k)
      BY <1>7
    <3>2. PICK m \in P : j = off[m] + 1 /\ flat[j] = one(m)
      BY <1>7
    <3> QED BY <3>1, <3>2, <2>1, <1>1
  <2>2. ASSUME NEW i \in DOMAIN flat PROVE flat[i] \in {one(k) : k \in P}
    BY <1>7
  <2>3. ASSUME NEW r \in {one(k) : k \in P} PROVE \E i \in DOMAIN flat : flat[i] = r
    <3>1. PICK k \in P : r = one(k)
      OBVIOUS
    <3> QED BY <3>1, <1>8
  <2> QED BY <2>1, <2>2, <2>3 DEF Spread
<1> QED BY <1>3, <1>9 DEF flat, seqs, one

Items == DOMAIN job.items
Imaged == {<<"payload", i>> : i \in Items}
Kept == {<<"persist", i>> : i \in AskedFor}
\* The roles of a plan's partitions.
Has ==
  CASE job.flow = "direct" -> {<<"other", 0>>}
    [] job.flow = "single" -> {Esp, Data, Bios}
    [] job.flow = "managed" -> {Esp, <<"payload", 1>>} \cup Kept
    [] job.flow = "shared" -> {Esp, Data} \cup Kept
    [] job.flow = "raw" -> {Esp} \cup Imaged \cup Kept

\* Every item that asks for persistence has its partition, once.
LEMMA PersistsSpread == ASSUME job \in JobType PROVE Persists \in Seq(Roles) /\ Spread(Persists, Kept)
<1>1. job.items \in Seq(ItemType) /\ DOMAIN job.items = 1 .. Len(job.items) /\ Len(job.items) \in Nat
  BY DEF JobType
<1> DEFINE N == Len(job.items)
           P == AskedFor
           seqs == [k \in 1 .. N |-> IF k \in P THEN <<<<"persist", k>>>> ELSE <<>>]
           Asked0(i) == IF job.items[i].persist = "none" THEN <<>> ELSE <<<<"persist", i>>>>
<1>2. Persists = FlattenSeq([k \in DOMAIN Indices |-> Asked0(Indices[k])])
  BY DEF Persists, Each
<1>3. [k \in DOMAIN Indices |-> Asked0(Indices[k])] = seqs
  <2>1. DOMAIN Indices = 1 .. N /\ \A k \in DOMAIN Indices : Indices[k] = k
    BY <1>1 DEF Indices
  <2>2. \A k \in 1 .. N : k \in AskedFor <=> job.items[k].persist # "none"
    BY <1>1 DEF AskedFor
  <2> QED BY <2>1, <2>2
<1>4. P \in SUBSET (1 .. N) /\ \A k \in P : <<"persist", k>> \in Roles
  BY <1>1 DEF AskedFor, Roles
<1> HIDE DEF P
<1>5. FlattenSeq(seqs) \in Seq(Roles) /\ Spread(FlattenSeq(seqs), {<<"persist", k>> : k \in P})
  BY <1>1, <1>4, SpreadTagged
<1> QED BY <1>2, <1>3, <1>5 DEF P, Kept

\* Every item of a class has its partition, once.
LEMMA PayloadsSpread ==
  ASSUME job \in JobType, NEW class
  PROVE  /\ Payloads(class) \in Seq(Roles)
         /\ Spread(Payloads(class), {<<"payload", i>> : i \in {k \in Items : job.items[k].class = class}})
<1>1. job.items \in Seq(ItemType) /\ DOMAIN job.items = 1 .. Len(job.items) /\ Len(job.items) \in Nat
  BY DEF JobType
<1> DEFINE N == Len(job.items)
           P == {k \in Items : job.items[k].class = class}
           seqs == [k \in 1 .. N |-> IF k \in P THEN <<<<"payload", k>>>> ELSE <<>>]
           In0(i) == IF job.items[i].class = class THEN <<<<"payload", i>>>> ELSE <<>>
<1>2. Payloads(class) = FlattenSeq([k \in DOMAIN Indices |-> In0(Indices[k])])
  BY DEF Payloads, Each
<1>3. [k \in DOMAIN Indices |-> In0(Indices[k])] = seqs
  <2>1. DOMAIN Indices = 1 .. N /\ \A k \in DOMAIN Indices : Indices[k] = k
    BY <1>1 DEF Indices
  <2>2. \A k \in 1 .. N : k \in P <=> job.items[k].class = class
    BY <1>1 DEF Items
  <2> QED BY <2>1, <2>2
<1>4. P \in SUBSET (1 .. N) /\ \A k \in P : <<"payload", k>> \in Roles
  BY <1>1 DEF Items, Roles
<1> HIDE DEF P
<1>5. FlattenSeq(seqs) \in Seq(Roles) /\ Spread(FlattenSeq(seqs), {<<"payload", k>> : k \in P})
  BY <1>1, <1>4, SpreadTagged
<1> QED BY <1>2, <1>3, <1>5 DEF P

\* One role, or two.
LEMMA SpreadTwo ==
  ASSUME NEW a, NEW b
  PROVE  Spread(<<a>>, {a}) /\ (a # b => Spread(<<a, b>>, {a, b}))
<1>1. DOMAIN <<a>> = {1} /\ DOMAIN <<a, b>> = {1, 2}
  OBVIOUS
<1>2. <<a>>[1] = a /\ <<a, b>>[1] = a /\ <<a, b>>[2] = b
  OBVIOUS
<1>3. Spread(<<a>>, {a})
  BY <1>1, <1>2 DEF Spread
<1>4. a # b => Spread(<<a, b>>, {a, b})
  BY <1>1, <1>2 DEF Spread
<1> QED BY <1>3, <1>4

\* Three roles.
LEMMA SpreadThree ==
  ASSUME NEW a, NEW b, NEW c, a # b, a # c, b # c
  PROVE  Spread(<<a, b, c>>, {a, b, c})
<1>1. DOMAIN <<a, b, c>> = {1, 2, 3}
  OBVIOUS
<1>2. <<a, b, c>>[1] = a /\ <<a, b, c>>[2] = b /\ <<a, b, c>>[3] = c
  OBVIOUS
<1> QED BY <1>1, <1>2 DEF Spread

\* A layout has every role of its plan once.
LEMMA LayoutSpread == ASSUME job \in JobType, layout = Layout PROVE layout \in Seq(Roles) /\ Spread(layout, Has)
<1>1. job.flow \in {"direct", "single", "managed", "shared", "raw"}
  BY DEF JobType
<1>2. Persists \in Seq(Roles) /\ Spread(Persists, Kept)
  BY PersistsSpread
<1>3. \A i : Esp # <<"payload", i>> /\ Esp # <<"persist", i>> /\ Data # <<"persist", i>>
  BY DEF Esp, Data
<1>4. \A i, j : <<"payload", i>> # <<"persist", j>>
  OBVIOUS
<1>5. Esp \in Roles /\ Data \in Roles /\ Bios \in Roles /\ <<"other", 0>> \in Roles /\ <<"payload", 1>> \in Roles
  BY DEF Roles
<1>6. Esp # Data /\ Esp # Bios /\ Data # Bios
  BY DEF Esp, Data, Bios
<1> DEFINE e == Esp
           d == Data
           b == Bios
           o == <<"other", 0>>
           p == <<"payload", 1>>
<1>7. e # d /\ e # b /\ d # b /\ e # p /\ e \notin Kept /\ d \notin Kept /\ p \notin Kept /\ e \notin Imaged
      /\ Imaged \cap Kept = {}
      /\ e \in Roles /\ d \in Roles /\ b \in Roles /\ o \in Roles /\ p \in Roles
  BY <1>3, <1>4, <1>5, <1>6 DEF Kept, Imaged
<1>8. /\ job.flow = "direct" => layout = <<o>> /\ Has = {o}
      /\ job.flow = "single" => layout = SingleLayout /\ Has = {e, d, b}
      /\ job.flow = "managed" => layout = ManagedLayout /\ Has = {e, p} \cup Kept
      /\ job.flow = "shared" => layout = SharedLayout /\ Has = {e, d} \cup Kept
      /\ job.flow = "raw" => layout = RawLayout /\ Has = {e} \cup Imaged \cup Kept
  BY DEF Layout, Has
<1>9. /\ SingleLayout = IF job.split THEN <<e, d, b>> ELSE <<b, e, d>>
      /\ ManagedLayout = (IF job.first THEN <<p, e>> ELSE <<e, p>>) \o Persists
      /\ SharedLayout = <<e, d>> \o Persists
  BY DEF SingleLayout, ManagedLayout, SharedLayout
<1> DEFINE images == Payloads("installer") \o Payloads("live")
<1>10. RawLayout = (IF job.first THEN images \o <<e>> ELSE <<e>> \o images) \o Persists
  BY DEF RawLayout
<1>11. images \in Seq(Roles) /\ Spread(images, Imaged)
  <2> DEFINE a == Payloads("installer")
             c == Payloads("live")
             A == {<<"payload", i>> : i \in {k \in Items : job.items[k].class = "installer"}}
             C == {<<"payload", i>> : i \in {k \in Items : job.items[k].class = "live"}}
  <2>1. a \in Seq(Roles) /\ Spread(a, A) /\ c \in Seq(Roles) /\ Spread(c, C)
    BY PayloadsSpread
  <2>2. \A k \in Items : job.items[k].class = "installer" \/ job.items[k].class = "live"
    <3>1. job.items \in Seq(ItemType) /\ DOMAIN job.items = 1 .. Len(job.items)
      BY DEF JobType
    <3>2. \A k \in Items : job.items[k] \in ItemType
      BY <3>1 DEF Items
    <3> QED BY <3>2 DEF ItemType
  <2>3. A \cap C = {} /\ A \cup C = Imaged
    <3> DEFINE img(i) == <<"payload", i>>
    <3>1. \A i, j : img(i) = img(j) => i = j
      OBVIOUS
    <3>2. /\ A = {img(i) : i \in {k \in Items : job.items[k].class = "installer"}}
          /\ C = {img(i) : i \in {k \in Items : job.items[k].class = "live"}}
          /\ Imaged = {img(i) : i \in Items}
      BY DEF Imaged
    <3> HIDE DEF img, A, C
    <3>3. A \cap C = {}
      BY <3>1, <3>2
    <3>4. A \cup C = Imaged
      BY <3>2, <2>2
    <3> QED BY <3>3, <3>4
  <2> HIDE DEF a, c, A, C
  <2>4. Spread(a \o c, A \cup C)
    BY <2>1, <2>3, SpreadJoined
  <2>5. a \o c \in Seq(Roles)
    BY <2>1, ConcatProperties
  <2> QED BY <2>3, <2>4, <2>5 DEF a, c
<1> HIDE DEF e, d, b, o, p, images, Roles
<1>12. CASE job.flow = "direct"
  <2>1. <<o>> \in Seq(Roles) /\ Spread(<<o>>, {o})
    <3>1. <<o>> \in Seq(Roles)
      BY <1>7
    <3>2. Spread(<<o>>, {o})
      BY <1>7, SpreadTwo
    <3> QED BY <3>1, <3>2
  <2> QED BY <1>8, <1>12, <2>1
<1>13. CASE job.flow = "single"
  <2>1. <<e, d, b>> \in Seq(Roles) /\ <<b, e, d>> \in Seq(Roles)
    BY <1>7
  <2>2. Spread(<<e, d, b>>, {e, d, b}) /\ Spread(<<b, e, d>>, {b, e, d})
    BY <1>7, SpreadThree
  <2>3. {b, e, d} = {e, d, b}
    OBVIOUS
  <2> QED BY <1>8, <1>9, <1>13, <2>1, <2>2, <2>3
<1>14. CASE job.flow = "managed"
  <2> DEFINE two == IF job.first THEN <<p, e>> ELSE <<e, p>>
  <2>1. two \in Seq(Roles) /\ Spread(two, {e, p})
    <3>1. {p, e} = {e, p}
      OBVIOUS
    <3>2. <<p, e>> \in Seq(Roles) /\ <<e, p>> \in Seq(Roles)
      BY <1>7
    <3>3. Spread(<<p, e>>, {p, e}) /\ Spread(<<e, p>>, {e, p})
      BY <1>7, SpreadTwo
    <3> QED BY <3>1, <3>2, <3>3
  <2> HIDE DEF two
  <2>2. Spread(two \o Persists, {e, p} \cup Kept) /\ two \o Persists \in Seq(Roles)
    BY <1>2, <1>7, <2>1, SpreadJoined, ConcatProperties
  <2> QED BY <1>8, <1>9, <1>14, <2>2 DEF two
<1>15. CASE job.flow = "shared"
  <2> DEFINE two == <<e, d>>
  <2>1. two \in Seq(Roles) /\ Spread(two, {e, d})
    <3>1. two \in Seq(Roles)
      BY <1>7
    <3>2. Spread(two, {e, d})
      BY <1>7, SpreadTwo
    <3> QED BY <3>1, <3>2
  <2> HIDE DEF two
  <2>2. Spread(two \o Persists, {e, d} \cup Kept) /\ two \o Persists \in Seq(Roles)
    BY <1>2, <1>7, <2>1, SpreadJoined, ConcatProperties
  <2> QED BY <1>8, <1>9, <1>15, <2>2 DEF two
<1>16. CASE job.flow = "raw"
  <2> DEFINE one == <<e>>
             two == IF job.first THEN images \o one ELSE one \o images
  <2>1. one \in Seq(Roles) /\ Spread(one, {e})
    <3>1. one \in Seq(Roles)
      BY <1>7
    <3>2. Spread(one, {e})
      BY <1>7, SpreadTwo
    <3> QED BY <3>1, <3>2
  <2> HIDE DEF one
  <2>2. two \in Seq(Roles) /\ Spread(two, {e} \cup Imaged)
    <3>1. images \o one \in Seq(Roles) /\ one \o images \in Seq(Roles)
      BY <1>11, <2>1, ConcatProperties
    <3>2. Spread(images \o one, Imaged \cup {e}) /\ Spread(one \o images, {e} \cup Imaged)
      BY <1>7, <1>11, <2>1, SpreadJoined
    <3>3. Imaged \cup {e} = {e} \cup Imaged
      OBVIOUS
    <3> QED BY <3>1, <3>2, <3>3
  <2> HIDE DEF two
  <2>3. Spread(two \o Persists, ({e} \cup Imaged) \cup Kept) /\ two \o Persists \in Seq(Roles)
    <3>1. ({e} \cup Imaged) \cap Kept = {}
      BY <1>7
    <3> QED BY <1>2, <2>2, <3>1, SpreadJoined, ConcatProperties
  <2> QED BY <1>8, <1>10, <1>16, <2>3 DEF two, one
<1> QED BY <1>1, <1>12, <1>13, <1>14, <1>15, <1>16

\* Partitions are told apart by their roles.
LEMMA NumberOf ==
  ASSUME job \in JobType, layout = Layout
  PROVE  /\ \A n \in Numbers : Number(layout[n]) = n /\ layout[n] \in Has
         /\ \A r \in Has : Number(r) \in Numbers /\ layout[Number(r)] = r
<1>1. Spread(layout, Has)
  BY LayoutSpread
<1>2. \A n \in Numbers : layout[n] \in Has
  BY <1>1 DEF Spread, Numbers
<1>3. ASSUME NEW r \in Has PROVE Number(r) \in Numbers /\ layout[Number(r)] = r
  <2>1. \E n \in Numbers : layout[n] = r
    BY <1>1 DEF Spread, Numbers
  <2> QED BY <2>1 DEF Number
<1>4. ASSUME NEW n \in Numbers PROVE Number(layout[n]) = n
  <2>1. Number(layout[n]) \in Numbers /\ layout[Number(layout[n])] = layout[n]
    BY <1>2, <1>3
  <2> QED BY <1>1, <2>1 DEF Spread, Numbers
<1> QED BY <1>2, <1>3, <1>4


-----------------------------------------------------------------------------
(* What parts of a script bring about together.                            *)

\* Steps of which none undoes anything of a kind for n ...
Spares(t, n, bad) == \A i \in DOMAIN t : Clear(t[i], n, bad)
\* ... and a body: steps that touch the table no more and format or unmount only in N.
Only(t, N) ==
  \A i \in DOMAIN t :
    /\ t[i].op \notin {"release", "label", "mkpart", "wait", "dddisk", "config", "finalize"}
    /\ t[i].op \in {"vfat", "ext4", "dd", "luks", "umount"} => t[i].n \in N
\* A body spares every partition it does not name.
LEMMA OnlySpares ==
  ASSUME NEW t, NEW N, Only(t, N), NEW n, n \notin N
  PROVE  Spares(t, n, Spoiling) /\ Spares(t, n, Dropping) /\ Spares(t, n, Resetting)
BY DEF Only, Spares, Clear, Spoiling, Dropping, Resetting

\* Two bodies make a body of the partitions of both.
LEMMA OnlyJoined ==
  ASSUME NEW s \in Seq(Steps), NEW t \in Seq(Steps), NEW N, NEW M, Only(s, N), Only(t, M)
  PROVE  Only(s \o t, N \cup M)
<1>1. \A i \in DOMAIN (s \o t) : (i \in DOMAIN s /\ (s \o t)[i] = s[i]) \/ \E j \in DOMAIN t : (s \o t)[i] = t[j]
  BY Joined
<1> QED BY <1>1 DEF Only

\* What a later part brings about, and what an earlier one has and the later one spares.
LEMMA EndsJoined ==
  ASSUME NEW s \in Seq(Steps), NEW t \in Seq(Steps), NEW A, NEW n, NEW bad,
         Ends(t, A, n, bad) \/ (Ends(s, A, n, bad) /\ Spares(t, n, bad))
  PROVE  Ends(s \o t, A, n, bad)
<1> DEFINE u == s \o t
<1>1. /\ \A i \in DOMAIN s : i \in DOMAIN u /\ u[i] = s[i]
      /\ \A i \in DOMAIN t : Len(s) + i \in DOMAIN u /\ u[Len(s) + i] = t[i]
      /\ \A k \in DOMAIN u : k \in DOMAIN s \/ \E i \in DOMAIN t : k = Len(s) + i
  BY Joined
<1>2. Len(s) \in Nat /\ DOMAIN s = 1 .. Len(s) /\ Len(t) \in Nat /\ DOMAIN t = 1 .. Len(t)
  OBVIOUS
<1> HIDE DEF u
<1>3. CASE Ends(t, A, n, bad)
  <2>1. PICK i \in DOMAIN t : t[i] \in A /\ \A j \in DOMAIN t : j > i => Clear(t[j], n, bad)
    BY <1>3 DEF Ends
  <2>2. ASSUME NEW k \in DOMAIN u, k > Len(s) + i PROVE Clear(u[k], n, bad)
    <3>1. k \notin DOMAIN s
      BY <1>2, <2>2
    <3>2. PICK j \in DOMAIN t : k = Len(s) + j
      BY <1>1, <3>1
    <3>3. j > i
      BY <1>2, <2>2, <3>2
    <3> QED BY <1>1, <2>1, <3>2, <3>3
  <2> QED BY <1>1, <2>1, <2>2 DEF Ends, u
<1>4. CASE Ends(s, A, n, bad) /\ Spares(t, n, bad)
  <2>1. PICK i \in DOMAIN s : s[i] \in A /\ \A j \in DOMAIN s : j > i => Clear(s[j], n, bad)
    BY <1>4 DEF Ends
  <2>2. \A k \in DOMAIN u : k > i => Clear(u[k], n, bad)
    BY <1>1, <1>4, <2>1 DEF Spares
  <2> QED BY <1>1, <2>1, <2>2 DEF Ends, u
<1> QED BY <1>3, <1>4

\* What the second part fills, it or the first part has mounted.
LEMMA FedJoined ==
  ASSUME NEW s \in Seq(Steps), NEW t \in Seq(Steps), Fed(s),
         FedBy(t, {n \in Targets : Ends(s, Both("mount", n), n, Dropping)})
  PROVE  Fed(s \o t)
<1> DEFINE u == s \o t
<1>1. /\ \A i \in DOMAIN s : i \in DOMAIN u /\ u[i] = s[i]
      /\ \A i \in DOMAIN t : Len(s) + i \in DOMAIN u /\ u[Len(s) + i] = t[i]
      /\ \A k \in DOMAIN u : k \in DOMAIN s \/ \E i \in DOMAIN t : k = Len(s) + i
  BY Joined
<1>2. Len(s) \in Nat /\ DOMAIN s = 1 .. Len(s) /\ Len(t) \in Nat /\ DOMAIN t = 1 .. Len(t)
  OBVIOUS
<1> HIDE DEF u
<1> SUFFICES ASSUME NEW i \in DOMAIN u, u[i].op = "stage"
             PROVE  \E j \in 1 .. i - 1 : /\ u[j].op = "mount" /\ u[j].n = u[i].n
                                          /\ \A k \in j + 1 .. i - 1 : Clear(u[k], u[i].n, Dropping)
  BY DEF Fed, FedBy, u
<1>3. CASE i \in DOMAIN s
  <2>1. PICK j \in 1 .. i - 1 : /\ s[j].op = "mount" /\ s[j].n = s[i].n
                                /\ \A k \in j + 1 .. i - 1 : Clear(s[k], s[i].n, Dropping)
    BY <1>1, <1>3 DEF Fed, FedBy
  <2>2. j \in DOMAIN s /\ \A k \in j + 1 .. i - 1 : k \in DOMAIN s
    BY <1>2, <1>3
  <2> QED BY <1>1, <1>3, <2>1, <2>2
<1>4. ASSUME NEW h \in DOMAIN t, i = Len(s) + h
      PROVE  \E j \in 1 .. i - 1 : /\ u[j].op = "mount" /\ u[j].n = u[i].n
                                   /\ \A k \in j + 1 .. i - 1 : Clear(u[k], u[i].n, Dropping)
  <2>1. u[i] = t[h] /\ t[h].op = "stage"
    BY <1>1, <1>4
  <2>2. \A k \in DOMAIN u : k > Len(s) /\ k < i => \E m \in DOMAIN t : k = Len(s) + m /\ u[k] = t[m] /\ m \in 1 .. h - 1
    <3> SUFFICES ASSUME NEW k \in DOMAIN u, k > Len(s), k < i
                 PROVE  \E m \in DOMAIN t : k = Len(s) + m /\ u[k] = t[m] /\ m \in 1 .. h - 1
      OBVIOUS
    <3>1. k \notin DOMAIN s
      BY <1>2
    <3>2. PICK m \in DOMAIN t : k = Len(s) + m
      BY <1>1, <3>1
    <3>3. m \in 1 .. h - 1
      BY <1>2, <1>4, <3>2
    <3> QED BY <1>1, <3>2, <3>3
  <2>0. \A k \in 1 .. i - 1 : k \in DOMAIN u
    <3>1. u \in Seq(Steps)
      BY Joined DEF u
    <3>2. DOMAIN u = 1 .. Len(u) /\ Len(u) \in Nat
      BY <3>1
    <3> QED BY <3>2
  <2>3. CASE \E j \in 1 .. h - 1 : /\ t[j].op = "mount" /\ t[j].n = t[h].n
                                   /\ \A k \in j + 1 .. h - 1 : Clear(t[k], t[h].n, Dropping)
    <3>1. PICK j \in 1 .. h - 1 : /\ t[j].op = "mount" /\ t[j].n = t[h].n
                                  /\ \A k \in j + 1 .. h - 1 : Clear(t[k], t[h].n, Dropping)
      BY <2>3
    <3>2. j \in DOMAIN t /\ Len(s) + j \in 1 .. i - 1
      BY <1>2, <1>4
    <3>3. ASSUME NEW k \in (Len(s) + j) + 1 .. i - 1 PROVE Clear(u[k], t[h].n, Dropping)
      <4>1. k \in 1 .. i - 1 /\ k > Len(s) /\ k < i
        BY <1>2, <1>4
      <4>2. PICK m \in DOMAIN t : k = Len(s) + m /\ u[k] = t[m] /\ m \in 1 .. h - 1
        BY <2>0, <2>2, <4>1
      <4>3. m \in j + 1 .. h - 1
        BY <1>2, <4>2
      <4> QED BY <3>1, <4>2, <4>3
    <3> QED BY <1>1, <2>1, <3>1, <3>2, <3>3
  <2>4. CASE /\ t[h].n \in {n \in Targets : Ends(s, Both("mount", n), n, Dropping)}
             /\ \A k \in 1 .. h - 1 : Clear(t[k], t[h].n, Dropping)
    <3> DEFINE n == t[h].n
    <3>1. Ends(s, Both("mount", n), n, Dropping) /\ \A k \in 1 .. h - 1 : Clear(t[k], n, Dropping)
      BY <2>4
    <3> HIDE DEF n
    <3>2. PICK j \in DOMAIN s : s[j] \in Both("mount", n) /\ \A k \in DOMAIN s : k > j => Clear(s[k], n, Dropping)
      BY <3>1 DEF Ends
    <3>3. s[j].op = "mount" /\ s[j].n = n
      BY <3>2 DEF Both, S, L
    <3>4. j \in 1 .. i - 1
      BY <1>2, <1>4
    <3>5. ASSUME NEW k \in j + 1 .. i - 1 PROVE Clear(u[k], n, Dropping)
      <4>1. k \in 1 .. i - 1 /\ k > j /\ k < i
        BY <1>2, <1>4
      <4>2. CASE k \in DOMAIN s
        BY <1>1, <3>2, <4>1, <4>2
      <4>3. CASE k \notin DOMAIN s
        <5>1. k > Len(s)
          BY <1>2, <4>1, <4>3
        <5> QED BY <2>0, <2>2, <3>1, <4>1, <5>1
      <4> QED BY <4>2, <4>3
    <3> QED BY <1>1, <2>1, <3>2, <3>3, <3>4, <3>5 DEF n
  <2> QED BY <2>1, <2>3, <2>4 DEF Fed, FedBy
<1> QED BY <1>1, <1>3, <1>4

\* The same of a concatenation of many.
LEMMA FlatEnds ==
  ASSUME NEW seqs \in Seq(Seq(Steps)), NEW k \in DOMAIN seqs, NEW A, NEW n, NEW bad, Ends(seqs[k], A, n, bad),
         \A m \in DOMAIN seqs : m # k => Spares(seqs[m], n, bad)
  PROVE  Ends(FlattenSeq(seqs), A, n, bad)
<1> DEFINE flat == FlattenSeq(seqs)
<1>1. PICK off \in [DOMAIN seqs -> Nat] : Blocks(flat, seqs, Len(seqs), off)
  BY FlattenBlocks
<1>2. DOMAIN seqs = 1 .. Len(seqs) /\ \A m \in DOMAIN seqs : DOMAIN seqs[m] = 1 .. Len(seqs[m])
  OBVIOUS
<1> HIDE DEF flat
<1>3. PICK i \in DOMAIN seqs[k] : seqs[k][i] \in A /\ \A j \in DOMAIN seqs[k] : j > i => Clear(seqs[k][j], n, bad)
  BY DEF Ends
<1>4. off[k] + i \in DOMAIN flat /\ flat[off[k] + i] \in A
  BY <1>1, <1>2, <1>3 DEF Blocks
<1>5. ASSUME NEW h \in DOMAIN flat, h > off[k] + i PROVE Clear(flat[h], n, bad)
  <2>1. PICK m \in 1 .. Len(seqs) : \E j \in DOMAIN seqs[m] : h = off[m] + j
    BY <1>1 DEF Blocks
  <2>2. PICK j \in DOMAIN seqs[m] : h = off[m] + j
    BY <2>1
  <2>3. flat[h] = seqs[m][j]
    BY <1>1, <2>2 DEF Blocks
  <2>4. CASE m = k
    <3>1. off[k] \in Nat /\ i \in Nat /\ j \in Nat
      BY <1>2
    <3>2. j > i
      BY <1>5, <2>2, <2>4, <3>1
    <3> QED BY <1>3, <2>3, <2>4, <3>2
  <2>5. CASE m # k
    BY <1>2, <2>3, <2>5 DEF Spares
  <2> QED BY <2>4, <2>5
<1> QED BY <1>4, <1>5 DEF Ends, flat

\* The same for any number of parts that mount what they fill.
LEMMA FlatFed ==
  ASSUME NEW seqs \in Seq(Seq(Steps)), \A k \in DOMAIN seqs : Fed(seqs[k])
  PROVE  Fed(FlattenSeq(seqs))
<1> DEFINE flat == FlattenSeq(seqs)
<1>1. PICK off \in [DOMAIN seqs -> Nat] : Blocks(flat, seqs, Len(seqs), off)
  BY FlattenBlocks
<1>2. DOMAIN seqs = 1 .. Len(seqs) /\ \A m \in DOMAIN seqs : DOMAIN seqs[m] = 1 .. Len(seqs[m]) /\ Len(seqs[m]) \in Nat
  OBVIOUS
<1> HIDE DEF flat
<1> SUFFICES ASSUME NEW i \in DOMAIN flat, flat[i].op = "stage"
             PROVE  \E j \in 1 .. i - 1 : /\ flat[j].op = "mount" /\ flat[j].n = flat[i].n
                                          /\ \A k \in j + 1 .. i - 1 : Clear(flat[k], flat[i].n, Dropping)
  BY DEF Fed, FedBy, flat
<1>3. PICK m \in DOMAIN seqs : \E h \in DOMAIN seqs[m] : i = off[m] + h
  BY <1>1, <1>2 DEF Blocks
<1>4. PICK h \in DOMAIN seqs[m] : i = off[m] + h
  BY <1>3
<1>5. \A x \in DOMAIN seqs[m] : off[m] + x \in DOMAIN flat /\ flat[off[m] + x] = seqs[m][x]
  BY <1>1, <1>2 DEF Blocks
<1> DEFINE t == seqs[m]
           o == off[m]
<1>6. o \in Nat /\ DOMAIN t = 1 .. Len(t) /\ Len(t) \in Nat /\ h \in DOMAIN t /\ i = o + h /\ Fed(t)
      /\ \A x \in DOMAIN t : flat[o + x] = t[x]
  BY <1>2, <1>4, <1>5
<1> HIDE DEF t, o
<1>7. PICK j \in 1 .. h - 1 : /\ t[j].op = "mount" /\ t[j].n = t[h].n
                              /\ \A k \in j + 1 .. h - 1 : Clear(t[k], t[h].n, Dropping)
  BY <1>6 DEF Fed, FedBy
<1>8. j \in DOMAIN t /\ o + j \in 1 .. i - 1
  BY <1>6
<1>9. ASSUME NEW k \in (o + j) + 1 .. i - 1 PROVE Clear(flat[k], flat[i].n, Dropping)
  <2>1. k - o \in j + 1 .. h - 1 /\ k - o \in DOMAIN t /\ o + (k - o) = k
    BY <1>6
  <2>2. flat[k] = t[k - o]
    BY <1>6, <2>1
  <2> QED BY <1>6, <1>7, <2>1, <2>2
<1> QED BY <1>6, <1>7, <1>8, <1>9

\* The same for any number of bodies.
LEMMA FlatOnly ==
  ASSUME NEW seqs \in Seq(Seq(Steps)), NEW N, \A k \in DOMAIN seqs : Only(seqs[k], N)
  PROVE  Only(FlattenSeq(seqs), N)
<1> DEFINE flat == FlattenSeq(seqs)
<1>1. PICK off \in [DOMAIN seqs -> Nat] : Blocks(flat, seqs, Len(seqs), off)
  BY FlattenBlocks
<1>2. DOMAIN seqs = 1 .. Len(seqs)
  OBVIOUS
<1> HIDE DEF flat
<1>3. ASSUME NEW i \in DOMAIN flat PROVE \E k \in DOMAIN seqs : \E j \in DOMAIN seqs[k] : flat[i] = seqs[k][j]
  <2>1. PICK k \in 1 .. Len(seqs) : \E j \in DOMAIN seqs[k] : i = off[k] + j
    BY <1>1 DEF Blocks
  <2>2. PICK j \in DOMAIN seqs[k] : i = off[k] + j
    BY <2>1
  <2>3. flat[off[k] + j] = seqs[k][j]
    BY <1>1, <1>2 DEF Blocks
  <2> QED BY <1>2, <2>2, <2>3
<1> QED BY <1>3 DEF Only, flat


-----------------------------------------------------------------------------
(* The prelude and the persistence partitions.                             *)

\* A script without the steps that undo a kind spares it.
LEMMA OpsSpare ==
  ASSUME NEW t, NEW n, NEW bad, Ops(t) \cap (bad.any \cup bad.own) = {}
  PROVE  Spares(t, n, bad)
BY DEF Ops, Spares, Clear

\* The operations of two scripts are those of both.
LEMMA OpsJoined ==
  ASSUME NEW s \in Seq(Steps), NEW t \in Seq(Steps)
  PROVE  s \o t \in Seq(Steps) /\ Ops(s \o t) = Ops(s) \cup Ops(t)
BY Joined

\* A prelude makes every partition after its last release.
LEMMA PreludeLeads ==
  ASSUME job \in JobType, layout = Layout
  PROVE  /\ Prelude \in Seq(Steps) /\ Ops(Prelude) \cap {"config", "stage"} = {}
         /\ \A n \in Numbers : Ends(Prelude, {S("mkpart", n)}, n, Resetting)
<1> DEFINE a == <<S("inspect", 0)>>
           b == <<S("release", 0), S("label", 0)>>
           s == (a \o Keys) \o b
<1>1. Prelude = (s \o Makes) \o Waits
  BY DEF Prelude, Keys, Makes, Waits
<1>2. \A op \in OpNames : S(op, 0) \in Steps /\ S(op, 0).op = op
  BY StepTyped, TargetsHold
<1>3. a \in Seq(Steps) /\ Ops(a) = {"inspect"} /\ b \in Seq(Steps) /\ Ops(b) = {"release", "label"}
  <2> DEFINE i == S("inspect", 0)
             r == S("release", 0)
             l == S("label", 0)
  <2>1. i \in Steps /\ i.op = "inspect" /\ r \in Steps /\ r.op = "release" /\ l \in Steps /\ l.op = "label"
    BY <1>2 DEF OpNames
  <2>2. a = <<i>> /\ b = <<r, l>>
    OBVIOUS
  <2> HIDE DEF i, r, l, a, b
  <2>3. <<i>> \in Seq(Steps) /\ Ops(<<i>>) = {i.op} /\ <<r, l>> \in Seq(Steps) /\ Ops(<<r, l>>) = {r.op, l.op}
    BY <2>1, ShortPiece
  <2> QED BY <2>1, <2>2, <2>3
<1>4. Keys \in Seq(Steps) /\ Ops(Keys) \subseteq {"key"} /\ Makes \in Seq(Steps) /\ Ops(Makes) \subseteq {"mkpart"}
      /\ Waits \in Seq(Steps) /\ Ops(Waits) \subseteq {"wait"}
  BY KeysPiece, MakesPiece, WaitsPiece
<1> HIDE DEF a, b
<1>5. a \o Keys \in Seq(Steps) /\ Ops(a \o Keys) \subseteq {"inspect", "key"}
  <2>1. a \o Keys \in Seq(Steps) /\ Ops(a \o Keys) = Ops(a) \cup Ops(Keys)
    BY <1>3, <1>4, OpsJoined
  <2> QED BY <1>3, <1>4, <2>1
<1>6. s \in Seq(Steps) /\ Ops(s) \subseteq {"inspect", "key", "release", "label"}
  <2>1. s \in Seq(Steps) /\ Ops(s) = Ops(a \o Keys) \cup Ops(b)
    BY <1>3, <1>5, OpsJoined
  <2> QED BY <1>3, <1>5, <2>1
<1> HIDE DEF s
<1>7. s \o Makes \in Seq(Steps) /\ Ops(s \o Makes) \subseteq {"inspect", "key", "release", "label", "mkpart"}
  <2>1. s \o Makes \in Seq(Steps) /\ Ops(s \o Makes) = Ops(s) \cup Ops(Makes)
    BY <1>4, <1>6, OpsJoined
  <2> QED BY <1>4, <1>6, <2>1
<1>8. Prelude \in Seq(Steps) /\ Ops(Prelude) \cap {"config", "stage"} = {}
  <2>1. (s \o Makes) \o Waits \in Seq(Steps) /\ Ops((s \o Makes) \o Waits) = Ops(s \o Makes) \cup Ops(Waits)
    BY <1>4, <1>7, OpsJoined
  <2> QED BY <1>1, <1>4, <1>7, <2>1
<1>9. ASSUME NEW n \in Numbers PROVE Ends(Prelude, {S("mkpart", n)}, n, Resetting)
  <2> DEFINE f == [m \in Numbers |-> <<S("mkpart", m)>>]
             seqs == [k \in DOMAIN InOrder |-> f[InOrder[k]]]
  <2>1. ASSUME NEW m \in Numbers
        PROVE /\ <<S("mkpart", m)>> \in Seq(Steps) /\ DOMAIN <<S("mkpart", m)>> = {1}
              /\ <<S("mkpart", m)>>[1] = S("mkpart", m) /\ S("mkpart", m).op = "mkpart"
    <3> DEFINE x == S("mkpart", m)
    <3>1. x \in Steps /\ x.op = "mkpart"
      BY StepTyped, TargetsHold DEF OpNames
    <3> HIDE DEF x
    <3>2. <<x>> \in Seq(Steps) /\ DOMAIN <<x>> = {1} /\ <<x>>[1] = x
      BY <3>1, ShortPiece
    <3> QED BY <3>1, <3>2 DEF x
  <2>2. \A m \in Numbers : f[m] \in Seq(Steps)
    BY <2>1
  <2>3. seqs \in Seq(Seq(Steps)) /\ DOMAIN seqs = Numbers /\ \A m \in Numbers : seqs[m] = f[m]
    BY <2>2, PerPartition
  <2>4. Makes = FlattenSeq(seqs)
    <3>1. \A k \in DOMAIN InOrder : InOrder[k] \in Numbers
      BY DEF InOrder
    <3>2. seqs = [k \in DOMAIN InOrder |-> <<S("mkpart", InOrder[k])>>]
      BY <3>1
    <3> QED BY <3>2 DEF Makes, Each
  <2>5. ASSUME NEW m \in Numbers
        PROVE DOMAIN seqs[m] = {1} /\ seqs[m][1] = S("mkpart", m) /\ seqs[m][1].op = "mkpart"
    <3>1. seqs[m] = <<S("mkpart", m)>>
      BY <2>3
    <3> QED BY <2>1, <3>1
  <2> HIDE DEF seqs
  <2>6. Ends(seqs[n], {S("mkpart", n)}, n, Resetting)
    BY <2>5 DEF Ends
  <2>7. \A m \in DOMAIN seqs : Spares(seqs[m], n, Resetting)
    BY <2>3, <2>5 DEF Spares, Clear, Resetting
  <2>8. Ends(Makes, {S("mkpart", n)}, n, Resetting)
    BY <2>3, <2>4, <2>6, <2>7, FlatEnds
  <2>9. Ends(s \o Makes, {S("mkpart", n)}, n, Resetting)
    BY <1>4, <1>6, <2>8, EndsJoined
  <2>10. Spares(Waits, n, Resetting)
    BY <1>4, OpsSpare DEF Resetting
  <2> QED BY <1>1, <1>4, <1>7, <2>9, <2>10, EndsJoined
<1> QED BY <1>8, <1>9

\* The persistence of one partition ...
Lasting == {"ext4", "mount", "stage", "umount", "stale", "luks", "open", "close"}
\* The steps of a persistence partition make it, fill it and mount it first.
LEMMA PersistLeads ==
  ASSUME job \in JobType, layout = Layout, NEW n \in Numbers, layout[n][1] = "persist"
  PROVE  /\ Ends(Persist(n), Making(n, Result(n)), n, Spoiling)
         /\ Fills(n) => Ends(Persist(n), Both("stage", n), n, Spoiling)
         /\ Fed(Persist(n)) /\ Only(Persist(n), {n}) /\ Ops(Persist(n)) \subseteq Lasting
<1>1. Persistence(n) \in {"bare", "plain", "encrypted"}
  BY LayoutFacts
<1>2. Result(n) = IF Persistence(n) = "encrypted" THEN "cryptext4" ELSE "ext4"
  BY DEF Result
<1>3. Fills(n) <=> Persistence(n) # "bare"
  BY DEF Fills
<1>4. CASE Persistence(n) = "bare"
  <2> DEFINE t == <<S("ext4", n)>>
  <2>1. Persist(n) = t
    BY <1>4 DEF Persist
  <2>2. DOMAIN t = {1} /\ t[1] = S("ext4", n) /\ t[1].op = "ext4" /\ t[1].n = n
    BY DEF S
  <2>3. S("ext4", n) \in Making(n, "ext4")
    BY DEF Making, Both, S, MadeBy
  <2> HIDE DEF t
  <2>4. Ends(t, Making(n, "ext4"), n, Spoiling)
    BY <2>2, <2>3 DEF Ends
  <2>5. Fed(t) /\ Only(t, {n}) /\ Ops(t) \subseteq Lasting
    BY <2>2 DEF Fed, FedBy, Only, Ops, Lasting
  <2> QED BY <1>2, <1>3, <1>4, <2>1, <2>4, <2>5
<1>5. CASE Persistence(n) = "plain"
  <2> DEFINE t == <<S("ext4", n), S("mount", n), S("stage", n), S("umount", n)>>
  <2>1. Persist(n) = t
    BY <1>5 DEF Persist
  <2>2. DOMAIN t = 1 .. 4 /\ t[1] = S("ext4", n) /\ t[3] = S("stage", n)
        /\ t[1].op = "ext4" /\ t[2].op = "mount" /\ t[3].op = "stage" /\ t[4].op = "umount"
        /\ t[1].n = n /\ t[2].n = n /\ t[3].n = n /\ t[4].n = n
    BY DEF S
  <2>3. S("ext4", n) \in Making(n, "ext4") /\ S("stage", n) \in Both("stage", n)
    BY DEF Making, Both, S, MadeBy
  <2> HIDE DEF t
  <2>4. Ends(t, Making(n, "ext4"), n, Spoiling) /\ Ends(t, Both("stage", n), n, Spoiling)
    <3>1. \A j \in DOMAIN t : j > 1 => Clear(t[j], n, Spoiling)
      BY <2>2 DEF Clear, Spoiling
    <3>2. \A j \in DOMAIN t : j > 3 => Clear(t[j], n, Spoiling)
      BY <2>2, <3>1
    <3>3. 1 \in DOMAIN t /\ 3 \in DOMAIN t
      BY <2>2
    <3> QED BY <2>2, <2>3, <3>1, <3>2, <3>3 DEF Ends
  <2>5. Only(t, {n}) /\ Ops(t) \subseteq Lasting
    BY <2>2 DEF Only, Ops, Lasting
  <2>6. Fed(t)
    <3>1. ASSUME NEW i \in DOMAIN t, t[i].op = "stage"
          PROVE  2 \in 1 .. i - 1 /\ t[i].n = n /\ \A k \in 3 .. i - 1 : FALSE
      <4>1. i = 3
        BY <2>2, <3>1
      <4> QED BY <2>2, <4>1
    <3>2. 2 + 1 = 3
      OBVIOUS
    <3> QED BY <2>2, <3>1, <3>2 DEF Fed, FedBy
  <2> QED BY <1>2, <1>3, <1>5, <2>1, <2>4, <2>5, <2>6
<1>6. CASE Persistence(n) = "encrypted"
  <2> DEFINE t == <<L("stale", n), L("luks", n), L("open", n), L("ext4", n), L("mount", n), L("stage", n),
                    L("umount", n), L("close", n)>>
  <2>1. Persist(n) = t
    BY <1>6 DEF Persist
  <2>2. DOMAIN t = 1 .. 8 /\ t[4] = L("ext4", n) /\ t[6] = L("stage", n)
        /\ t[1].op = "stale" /\ t[2].op = "luks" /\ t[3].op = "open" /\ t[4].op = "ext4"
        /\ t[5].op = "mount" /\ t[6].op = "stage" /\ t[7].op = "umount" /\ t[8].op = "close"
        /\ t[2].n = n /\ t[4].n = n /\ t[5].n = n /\ t[6].n = n /\ t[7].n = n
    BY DEF L
  <2>3. L("ext4", n) \in Making(n, "cryptext4") /\ L("stage", n) \in Both("stage", n)
    BY DEF Making, Both, L, MadeBy
  <2> HIDE DEF t
  <2>4. Ends(t, Making(n, "cryptext4"), n, Spoiling) /\ Ends(t, Both("stage", n), n, Spoiling)
    <3>1. \A j \in DOMAIN t : j > 4 => Clear(t[j], n, Spoiling)
      BY <2>2 DEF Clear, Spoiling
    <3>2. \A j \in DOMAIN t : j > 6 => Clear(t[j], n, Spoiling)
      BY <2>2, <3>1
    <3>3. 4 \in DOMAIN t /\ 6 \in DOMAIN t
      BY <2>2
    <3> QED BY <2>2, <2>3, <3>1, <3>2, <3>3 DEF Ends
  <2>5. Only(t, {n}) /\ Ops(t) \subseteq Lasting
    BY <2>2 DEF Only, Ops, Lasting
  <2>6. Fed(t)
    <3>1. ASSUME NEW i \in DOMAIN t, t[i].op = "stage"
          PROVE  5 \in 1 .. i - 1 /\ t[i].n = n /\ \A k \in 6 .. i - 1 : FALSE
      <4>1. i = 6
        BY <2>2, <3>1
      <4> QED BY <2>2, <4>1
    <3>2. 5 + 1 = 6
      OBVIOUS
    <3> QED BY <2>2, <3>1, <3>2 DEF Fed, FedBy
  <2> QED BY <1>2, <1>3, <1>6, <2>1, <2>4, <2>5, <2>6
<1> QED BY <1>1, <1>4, <1>5, <1>6

\* ... and of all of them.
LEMMA PersistAllLeads ==
  ASSUME job \in JobType, layout = Layout
  PROVE  /\ PersistAll \in Seq(Steps) /\ Ops(PersistAll) \subseteq Lasting /\ Fed(PersistAll)
         /\ Only(PersistAll, {n \in Numbers : layout[n][1] = "persist"})
         /\ \A n \in Numbers : layout[n][1] = "persist" =>
              /\ Ends(PersistAll, Making(n, Result(n)), n, Spoiling)
              /\ Fills(n) => Ends(PersistAll, Both("stage", n), n, Spoiling)
<1> DEFINE P == {n \in Numbers : layout[n][1] = "persist"}
           f == [n \in Numbers |-> IF layout[n][1] = "persist" THEN Persist(n) ELSE <<>>]
           seqs == [k \in DOMAIN InOrder |-> f[InOrder[k]]]
<1>1. PersistAll \in Seq(Steps)
  BY PersistAllPiece DEF Piece
<1>2. \A n \in Numbers : f[n] \in Seq(Steps)
  BY PersistPiece DEF Piece
<1>3. seqs \in Seq(Seq(Steps)) /\ DOMAIN seqs = Numbers /\ \A n \in Numbers : seqs[n] = f[n]
  BY <1>2, PerPartition
<1>4. PersistAll = FlattenSeq(seqs)
  <2>1. \A k \in DOMAIN InOrder : InOrder[k] \in Numbers
    BY DEF InOrder
  <2>2. seqs = [k \in DOMAIN InOrder |->
                  IF layout[InOrder[k]][1] = "persist" THEN Persist(InOrder[k]) ELSE <<>>]
    BY <2>1
  <2> QED BY <2>2 DEF PersistAll, Each
<1>5. \A n \in P : seqs[n] = Persist(n)
  BY <1>3
<1>6. \A n \in Numbers \ P : DOMAIN seqs[n] = {}
  <2>1. \A n \in Numbers \ P : seqs[n] = <<>>
    BY <1>3
  <2>2. DOMAIN <<>> = {}
    OBVIOUS
  <2> QED BY <2>1, <2>2
<1> HIDE DEF seqs, f
<1>7. ASSUME NEW n \in Numbers PROVE Fed(seqs[n]) /\ Only(seqs[n], P) /\ Ops(seqs[n]) \subseteq Lasting
  <2>1. CASE n \in P
    <3>1. Fed(Persist(n)) /\ Only(Persist(n), {n}) /\ Ops(Persist(n)) \subseteq Lasting
      BY <2>1, PersistLeads
    <3>2. Only(Persist(n), P)
      BY <2>1, <3>1 DEF Only
    <3> QED BY <1>5, <2>1, <3>1, <3>2
  <2>2. CASE n \notin P
    BY <1>6, <2>2 DEF Fed, FedBy, Only, Ops
  <2> QED BY <2>1, <2>2
<1>8. ASSUME NEW n \in P, NEW m \in Numbers, m # n PROVE Spares(seqs[m], n, Spoiling)
  <2>1. CASE m \in P
    <3>1. Only(seqs[m], {m})
      BY <1>5, <2>1, PersistLeads
    <3> QED BY <1>8, <3>1, OnlySpares
  <2>2. CASE m \notin P
    BY <1>6, <2>2 DEF Spares
  <2> QED BY <2>1, <2>2
<1>9. ASSUME NEW n \in P
      PROVE  /\ Ends(PersistAll, Making(n, Result(n)), n, Spoiling)
             /\ Fills(n) => Ends(PersistAll, Both("stage", n), n, Spoiling)
  <2>1. /\ Ends(seqs[n], Making(n, Result(n)), n, Spoiling)
        /\ Fills(n) => Ends(seqs[n], Both("stage", n), n, Spoiling)
    BY <1>5, PersistLeads
  <2>2. n \in DOMAIN seqs
    BY <1>3
  <2> QED BY <1>3, <1>4, <1>8, <2>1, <2>2, FlatEnds
<1>10. Fed(PersistAll) /\ Only(PersistAll, P) /\ Ops(PersistAll) \subseteq Lasting
  BY <1>3, <1>4, <1>7, FlatFed, FlatOnly, FlatPiece
<1> QED BY <1>1, <1>9, <1>10


-----------------------------------------------------------------------------
(* The work of a body: what it makes, fills, names and touches.            *)

\* What the partitions of a plan can be.
LEMMA Parts ==
  ASSUME job \in JobType, layout = Layout, job.flow # "direct"
  PROVE  /\ \A n \in Numbers :
              \/ n = Number(Esp) /\ layout[n] = Esp
              \/ n = Number(Data) /\ layout[n] = Data /\ job.flow \in {"single", "shared"}
              \/ layout[n] = Bios /\ job.flow = "single"
              \/ layout[n][1] = "persist" /\ job.flow # "single"
              \/ \E i \in Nat : /\ layout[n] = <<"payload", i>> /\ n = Number(<<"payload", i>>)
                                /\ (job.flow = "managed" /\ i = 1) \/ (job.flow = "raw" /\ i \in Items)
         /\ Number(Esp) \in Numbers /\ layout[Number(Esp)] = Esp
         /\ job.flow \in {"single", "shared"} => Number(Data) \in Numbers /\ layout[Number(Data)] = Data
         /\ job.flow = "managed" =>
              Number(<<"payload", 1>>) \in Numbers /\ layout[Number(<<"payload", 1>>)] = <<"payload", 1>>
         /\ job.flow = "raw" => \A i \in Items :
              Number(<<"payload", i>>) \in Numbers /\ layout[Number(<<"payload", i>>)] = <<"payload", i>>
<1>1. /\ \A n \in Numbers : Number(layout[n]) = n /\ layout[n] \in Has
      /\ \A r \in Has : Number(r) \in Numbers /\ layout[Number(r)] = r
  BY NumberOf
<1>2. job.flow \in {"single", "managed", "shared", "raw"} /\ \A i \in Items : i \in Nat
  BY DEF JobType, Items
<1>3. \A r \in Kept : r[1] = "persist"
  BY DEF Kept
<1>4. Esp \in Has /\ (job.flow \in {"single", "shared"} => Data \in Has)
      /\ (job.flow = "managed" => <<"payload", 1>> \in Has)
      /\ (job.flow = "raw" => \A i \in Items : <<"payload", i>> \in Has)
  BY <1>2 DEF Has, Imaged
<1>5. ASSUME NEW r \in Has
      PROVE  \/ r = Esp
             \/ r = Data /\ job.flow \in {"single", "shared"}
             \/ r = Bios /\ job.flow = "single"
             \/ r[1] = "persist" /\ job.flow # "single"
             \/ \E i \in Nat : /\ r = <<"payload", i>>
                               /\ (job.flow = "managed" /\ i = 1) \/ (job.flow = "raw" /\ i \in Items)
  <2>1. CASE job.flow = "single"
    BY <2>1 DEF Has
  <2>2. CASE job.flow = "shared"
    BY <1>3, <2>2 DEF Has
  <2>3. CASE job.flow = "managed"
    BY <1>3, <2>3 DEF Has
  <2>4. CASE job.flow = "raw"
    BY <1>2, <1>3, <2>4 DEF Has, Imaged
  <2> QED BY <1>2, <2>1, <2>2, <2>3, <2>4
<1>6. ASSUME NEW n \in Numbers
      PROVE  \/ n = Number(Esp) /\ layout[n] = Esp
             \/ n = Number(Data) /\ layout[n] = Data /\ job.flow \in {"single", "shared"}
             \/ layout[n] = Bios /\ job.flow = "single"
             \/ layout[n][1] = "persist" /\ job.flow # "single"
             \/ \E i \in Nat : /\ layout[n] = <<"payload", i>> /\ n = Number(<<"payload", i>>)
                               /\ (job.flow = "managed" /\ i = 1) \/ (job.flow = "raw" /\ i \in Items)
  <2> DEFINE r == layout[n]
  <2>1. r \in Has /\ n = Number(r)
    BY <1>1
  <2> HIDE DEF r
  <2>2. \/ n = Number(Esp) /\ r = Esp
        \/ n = Number(Data) /\ r = Data /\ job.flow \in {"single", "shared"}
        \/ r = Bios /\ job.flow = "single"
        \/ r[1] = "persist" /\ job.flow # "single"
        \/ \E i \in Nat : /\ r = <<"payload", i>> /\ n = Number(<<"payload", i>>)
                          /\ (job.flow = "managed" /\ i = 1) \/ (job.flow = "raw" /\ i \in Items)
    BY <1>5, <2>1
  <2> QED BY <2>2 DEF r
<1> QED BY <1>1, <1>4, <1>6

\* Steps that make the partitions of M, fill those of F, locate those of Q and
\* format or unmount only in N.
Work(t, M, F, Q, N) ==
  /\ t \in Seq(Steps) /\ Only(t, N)
  /\ \A n \in M : Ends(t, Making(n, Result(n)), n, Spoiling)
  /\ \A n \in F : Ends(t, Both("stage", n), n, Spoiling)
  /\ \A n \in Q : Ends(t, {S("locate", n)}, n, Spoiling)

\* The work of two parts, when the second spares what the first has done.
LEMMA WorkJoined ==
  ASSUME NEW s, NEW M1, NEW F1, NEW Q1, NEW N1, Work(s, M1, F1, Q1, N1),
         NEW t, NEW M2, NEW F2, NEW Q2, NEW N2, Work(t, M2, F2, Q2, N2), N2 \cap (M1 \cup F1 \cup Q1) = {}
  PROVE  Work(s \o t, M1 \cup M2, F1 \cup F2, Q1 \cup Q2, N1 \cup N2)
<1>1. s \in Seq(Steps) /\ t \in Seq(Steps) /\ Only(s, N1) /\ Only(t, N2)
  BY DEF Work
<1>2. s \o t \in Seq(Steps) /\ Only(s \o t, N1 \cup N2)
  BY <1>1, OnlyJoined, OpsJoined
<1>3. ASSUME NEW n \in M1 \cup F1 \cup Q1 PROVE Spares(t, n, Spoiling)
  BY <1>1, OnlySpares
<1>4. ASSUME NEW A, NEW n, Ends(t, A, n, Spoiling) \/ (Ends(s, A, n, Spoiling) /\ n \in M1 \cup F1 \cup Q1)
      PROVE  Ends(s \o t, A, n, Spoiling)
  BY <1>1, <1>3, <1>4, EndsJoined
<1> QED BY <1>2, <1>4 DEF Work

\* The boot partition of a plan with payloads.
EspSteps == LET e == Number(Esp) IN <<S("vfat", e), S("locate", e), S("mount", e), S("stage", e)>>
\* The steps of the boot partition.
LEMMA EspWork ==
  ASSUME job \in JobType, layout = Layout, job.flow # "direct"
  PROVE  LET e == Number(Esp) IN Work(EspSteps, {e}, {e}, {e}, {e}) /\ Fed(EspSteps) /\ "render" \notin Ops(EspSteps)
<1> DEFINE e == Number(Esp)
           t == <<S("vfat", e), S("locate", e), S("mount", e), S("stage", e)>>
<1>1. \A op \in OpNames : S(op, e) \in Steps
  BY StepTyped, TargetsHold
<1>2. t \in Seq(Steps)
  BY <1>1 DEF OpNames
<1>3. DOMAIN t = 1 .. 4 /\ t[1] = S("vfat", e) /\ t[2] = S("locate", e) /\ t[4] = S("stage", e)
      /\ t[1].op = "vfat" /\ t[2].op = "locate" /\ t[3].op = "mount" /\ t[4].op = "stage"
      /\ t[1].n = e /\ t[3].n = e /\ t[4].n = e
  BY DEF S
<1>4. layout[e] = Esp
  BY Parts
<1>5. Result(e) = "vfat"
  BY <1>4 DEF Result, Esp
<1>6. EspSteps = t
  BY DEF EspSteps
<1> HIDE DEF t, e
<1>7. S("vfat", e) \in Making(e, Result(e)) /\ S("stage", e) \in Both("stage", e)
  BY <1>5 DEF Making, Both, S, MadeBy
<1>8. \A j \in DOMAIN t : j > 1 => Clear(t[j], e, Spoiling)
  BY <1>3 DEF Clear, Spoiling
<1>9. Ends(t, Making(e, Result(e)), e, Spoiling) /\ Ends(t, Both("stage", e), e, Spoiling)
      /\ Ends(t, {S("locate", e)}, e, Spoiling)
  <2>1. 1 \in DOMAIN t /\ 2 \in DOMAIN t /\ 4 \in DOMAIN t
    BY <1>3
  <2>2. \A j \in DOMAIN t : (j > 2 \/ j > 4) => j > 1
    BY <1>3
  <2> QED BY <1>3, <1>7, <1>8, <2>1, <2>2 DEF Ends
<1>10. Only(t, {e}) /\ "render" \notin Ops(t)
  BY <1>3 DEF Only, Ops
<1>11. Fed(t)
  <2>1. ASSUME NEW i \in DOMAIN t, t[i].op = "stage"
        PROVE  3 \in 1 .. i - 1 /\ t[i].n = e /\ \A k \in 4 .. i - 1 : FALSE
    <3>1. i = 4
      BY <1>3, <2>1
    <3> QED BY <1>3, <3>1
  <2>2. 3 + 1 = 4
    OBVIOUS
  <2> QED BY <1>3, <2>1, <2>2 DEF Fed, FedBy
<1> QED BY <1>2, <1>6, <1>9, <1>10, <1>11 DEF Work, e

Paid == {n \in Numbers : layout[n][1] = "payload"}
PaidFor(i) == Number(<<"payload", i>>)

\* The partitions with payloads of a plan of raw images.
LEMMA PaidParts ==
  ASSUME job \in JobType, layout = Layout, job.flow = "raw"
  PROVE  /\ \A i \in Items : PaidFor(i) \in Paid /\ i \in Nat
         /\ \A n \in Paid : \E i \in Items : n = PaidFor(i)
         /\ \A i, j \in Items : PaidFor(i) = PaidFor(j) => i = j
         /\ \A n \in Paid : Result(n) = IF job.payload = "raw-iso" THEN "iso" ELSE "ext4"
         /\ \A n \in Paid : Fills(n) <=> job.payload # "raw-iso"
<1>1. \A i \in Items : PaidFor(i) \in Numbers /\ layout[PaidFor(i)] = <<"payload", i>> /\ i \in Nat
  <2>1. \A i \in Items : i \in Nat
    BY DEF JobType, Items
  <2> QED BY <2>1, Parts DEF PaidFor
<1>2. \A i \in Items : PaidFor(i) \in Paid
  BY <1>1 DEF Paid
<1>3. ASSUME NEW n \in Paid PROVE \E i \in Items : n = PaidFor(i)
  <2>1. n \in Numbers /\ layout[n][1] = "payload"
    BY DEF Paid
  <2>2. layout[n] # Esp /\ layout[n] # Data /\ layout[n] # Bios
    BY <2>1 DEF Esp, Data, Bios
  <2> QED BY <2>1, <2>2, Parts DEF PaidFor
<1>4. ASSUME NEW i \in Items, NEW j \in Items, PaidFor(i) = PaidFor(j) PROVE i = j
  <2>1. <<"payload", i>> = <<"payload", j>>
    BY <1>1, <1>4
  <2> QED BY <2>1
<1>5. \A n \in Paid : Result(n) = IF job.payload = "raw-iso" THEN "iso" ELSE "ext4"
  BY DEF Paid, Result
<1>6. \A n \in Paid : Fills(n) <=> job.payload # "raw-iso"
  BY DEF Paid, Fills
<1> QED BY <1>1, <1>2, <1>3, <1>4, <1>5, <1>6


-----------------------------------------------------------------------------
(* The three ways a payload gets to its partition.                         *)

\* The payloads are written and located ...
LEMMA WritesWork ==
  ASSUME job \in JobType, layout = Layout, job.flow = "raw"
  PROVE  Work(Writes, Paid, {}, Paid, Paid) /\ Fed(Writes) /\ "render" \notin Ops(Writes)
<1> DEFINE how == IF job.payload = "raw-iso" THEN "dd" ELSE "ext4"
           q(i) == <<S(how, PaidFor(i)), S("locate", PaidFor(i))>>
           f == [i \in Items |-> q(i)]
           seqs == [k \in DOMAIN Indices |-> f[Indices[k]]]
<1>1. ASSUME NEW i \in Items
      PROVE  /\ q(i) \in Seq(Steps) /\ DOMAIN q(i) = {1, 2} /\ q(i)[1] \in Making(PaidFor(i), Result(PaidFor(i)))
             /\ q(i)[1].op \in {"dd", "ext4"} /\ q(i)[1].n = PaidFor(i)
             /\ q(i)[2] = S("locate", PaidFor(i)) /\ q(i)[2].op = "locate"
  <2> DEFINE p == PaidFor(i)
             a == S(how, p)
             b == S("locate", p)
  <2>1. p \in Targets
    BY PaidParts, TargetsHold DEF Paid
  <2>2. a \in Steps /\ a.op \in {"dd", "ext4"} /\ a.n = p /\ b \in Steps /\ b.op = "locate"
    BY <2>1, StepTyped DEF OpNames
  <2>3. q(i) = <<a, b>> /\ b = S("locate", p)
    OBVIOUS
  <2>4. Result(p) = IF job.payload = "raw-iso" THEN "iso" ELSE "ext4"
    BY PaidParts
  <2>5. a \in Making(p, Result(p))
    BY <2>4 DEF Making, Both, S, MadeBy
  <2> HIDE DEF a, b, q
  <2>6. <<a, b>> \in Seq(Steps)
    BY <2>2
  <2>7. DOMAIN <<a, b>> = {1, 2} /\ <<a, b>>[1] = a /\ <<a, b>>[2] = b
    OBVIOUS
  <2> QED BY <2>2, <2>3, <2>5, <2>6, <2>7
<1> HIDE DEF q
<1>2. /\ seqs \in Seq(Seq(Steps)) /\ DOMAIN seqs = Items /\ \A i \in Items : seqs[i] = f[i]
      /\ \A k \in DOMAIN Indices : Indices[k] \in Items
  <2>1. DOMAIN f = DOMAIN job.items /\ \A i \in DOMAIN job.items : f[i] \in Seq(Steps)
    BY <1>1 DEF Items
  <2> HIDE DEF f
  <2> QED BY <2>1, PerItem DEF Items
<1>3. Writes = FlattenSeq(seqs)
  <2>1. seqs = [k \in DOMAIN Indices |-> q(Indices[k])]
    BY <1>2
  <2> QED BY <2>1 DEF Writes, Each, q, PaidFor
<1>4. \A i \in Items : seqs[i] = q(i)
  BY <1>2
<1> HIDE DEF seqs, f
<1>5. ASSUME NEW i \in Items
      PROVE  /\ Only(seqs[i], {PaidFor(i)}) /\ Only(seqs[i], Paid) /\ Fed(seqs[i])
             /\ Ops(seqs[i]) \subseteq {"dd", "ext4", "locate"}
             /\ Ends(seqs[i], Making(PaidFor(i), Result(PaidFor(i))), PaidFor(i), Spoiling)
             /\ Ends(seqs[i], {S("locate", PaidFor(i))}, PaidFor(i), Spoiling)
  <2> DEFINE t == seqs[i]
             p == PaidFor(i)
  <2>1. /\ DOMAIN t = {1, 2} /\ t[1] \in Making(p, Result(p)) /\ t[1].op \in {"dd", "ext4"} /\ t[1].n = p
        /\ t[2] = S("locate", p) /\ t[2].op = "locate" /\ p \in Paid
    BY <1>1, <1>4, PaidParts
  <2> HIDE DEF t, p
  <2>2. Only(t, {p}) /\ Only(t, Paid) /\ Fed(t) /\ Ops(t) \subseteq {"dd", "ext4", "locate"}
    BY <2>1 DEF Only, Fed, FedBy, Ops
  <2>3. \A j \in DOMAIN t : j > 1 => Clear(t[j], p, Spoiling)
    BY <2>1 DEF Clear, Spoiling
  <2>4. Ends(t, Making(p, Result(p)), p, Spoiling) /\ Ends(t, {S("locate", p)}, p, Spoiling)
    BY <2>1, <2>3 DEF Ends
  <2> QED BY <2>2, <2>4 DEF t, p
<1>6. ASSUME NEW i \in Items, NEW j \in Items, j # i PROVE Spares(seqs[j], PaidFor(i), Spoiling)
  <2>1. PaidFor(i) \notin {PaidFor(j)}
    BY <1>6, PaidParts
  <2> QED BY <1>5, <2>1, OnlySpares
<1>7. ASSUME NEW n \in Paid
      PROVE  Ends(Writes, Making(n, Result(n)), n, Spoiling) /\ Ends(Writes, {S("locate", n)}, n, Spoiling)
  <2>1. PICK i \in Items : n = PaidFor(i)
    BY PaidParts
  <2>2. i \in DOMAIN seqs /\ \A m \in DOMAIN seqs : m # i => Spares(seqs[m], n, Spoiling)
    BY <1>2, <1>6, <2>1
  <2> QED BY <1>2, <1>3, <1>5, <2>1, <2>2, FlatEnds
<1>8. Writes \in Seq(Steps) /\ Fed(Writes) /\ Only(Writes, Paid) /\ Ops(Writes) \subseteq {"dd", "ext4", "locate"}
  BY <1>2, <1>3, <1>5, FlatFed, FlatOnly, FlatPiece
<1> QED BY <1>7, <1>8 DEF Work

\* ... and filled, ...
LEMMA CopiesWork ==
  ASSUME job \in JobType, layout = Layout, job.flow = "raw"
  PROVE  /\ Work(Copies, {}, {n \in Paid : Fills(n)}, {}, {}) /\ Fed(Copies)
         /\ Ops(Copies) \subseteq {"mount", "stage"}
<1> DEFINE q(i) == IF job.payload = "store" THEN <<S("mount", PaidFor(i)), S("stage", PaidFor(i))>> ELSE <<>>
           f == [i \in Items |-> q(i)]
           seqs == [k \in DOMAIN Indices |-> f[Indices[k]]]
<1>1. ASSUME NEW i \in Items
      PROVE  /\ q(i) \in Seq(Steps)
             /\ job.payload # "store" => DOMAIN q(i) = {}
             /\ job.payload = "store" => /\ DOMAIN q(i) = {1, 2} /\ q(i)[1].op = "mount" /\ q(i)[1].n = PaidFor(i)
                                         /\ q(i)[2] \in Both("stage", PaidFor(i)) /\ q(i)[2].op = "stage"
                                         /\ q(i)[2].n = PaidFor(i)
  <2> DEFINE p == PaidFor(i)
             a == S("mount", p)
             b == S("stage", p)
  <2>1. p \in Targets
    BY PaidParts, TargetsHold DEF Paid
  <2>2. a \in Steps /\ a.op = "mount" /\ a.n = p /\ b \in Steps /\ b.op = "stage" /\ b.n = p /\ b \in Both("stage", p)
    BY <2>1, StepTyped DEF OpNames, Both
  <2>3. q(i) = IF job.payload = "store" THEN <<a, b>> ELSE <<>>
    OBVIOUS
  <2> HIDE DEF a, b, q
  <2>6. <<a, b>> \in Seq(Steps) /\ <<>> \in Seq(Steps)
    BY <2>2
  <2>7. DOMAIN <<a, b>> = {1, 2} /\ <<a, b>>[1] = a /\ <<a, b>>[2] = b /\ DOMAIN <<>> = {}
    OBVIOUS
  <2> QED BY <2>2, <2>3, <2>6, <2>7
<1> HIDE DEF q
<1>2. /\ seqs \in Seq(Seq(Steps)) /\ DOMAIN seqs = Items /\ \A i \in Items : seqs[i] = f[i]
      /\ \A k \in DOMAIN Indices : Indices[k] \in Items
  <2>1. DOMAIN f = DOMAIN job.items /\ \A i \in DOMAIN job.items : f[i] \in Seq(Steps)
    BY <1>1 DEF Items
  <2> HIDE DEF f
  <2> QED BY <2>1, PerItem DEF Items
<1>3. Copies = FlattenSeq(seqs)
  <2>1. seqs = [k \in DOMAIN Indices |-> q(Indices[k])]
    BY <1>2
  <2> QED BY <2>1 DEF Copies, Each, q, PaidFor
<1>4. \A i \in Items : seqs[i] = q(i)
  BY <1>2
<1> HIDE DEF seqs, f
<1>5. ASSUME NEW i \in Items
      PROVE  /\ Only(seqs[i], {}) /\ Fed(seqs[i]) /\ Ops(seqs[i]) \subseteq {"mount", "stage"}
             /\ job.payload = "store" => Ends(seqs[i], Both("stage", PaidFor(i)), PaidFor(i), Spoiling)
  <2> DEFINE t == seqs[i]
             p == PaidFor(i)
  <2>1. /\ job.payload # "store" => DOMAIN t = {}
        /\ job.payload = "store" => /\ DOMAIN t = {1, 2} /\ t[1].op = "mount" /\ t[1].n = p
                                    /\ t[2] \in Both("stage", p) /\ t[2].op = "stage" /\ t[2].n = p
    BY <1>1, <1>4
  <2> HIDE DEF t, p
  <2>2. CASE job.payload # "store"
    BY <2>1, <2>2 DEF t, p, Only, Fed, FedBy, Ops
  <2>3. CASE job.payload = "store"
    <3>1. Only(t, {}) /\ Ops(t) \subseteq {"mount", "stage"}
      BY <2>1, <2>3 DEF Only, Ops
    <3>2. Ends(t, Both("stage", p), p, Spoiling)
      BY <2>1, <2>3 DEF Ends
    <3>3. Fed(t)
      <4>1. ASSUME NEW k \in DOMAIN t, t[k].op = "stage"
            PROVE  1 \in 1 .. k - 1 /\ t[k].n = p /\ \A m \in 2 .. k - 1 : FALSE
        <5>1. k = 2
          BY <2>1, <2>3, <4>1
        <5> QED BY <2>1, <2>3, <5>1
      <4>2. 1 + 1 = 2
        OBVIOUS
      <4> QED BY <2>1, <2>3, <4>1, <4>2 DEF Fed, FedBy
    <3> QED BY <3>1, <3>2, <3>3 DEF t, p
  <2> QED BY <2>2, <2>3
<1>6. ASSUME NEW n \in Paid, Fills(n) PROVE Ends(Copies, Both("stage", n), n, Spoiling)
  <2>1. PICK i \in Items : n = PaidFor(i)
    BY PaidParts
  <2>2. job.payload = "store"
    BY <1>6, PaidParts DEF JobType
  <2>3. i \in DOMAIN seqs /\ \A m \in DOMAIN seqs : m # i => Spares(seqs[m], n, Spoiling)
    BY <1>2, <1>5, OnlySpares
  <2> QED BY <1>2, <1>3, <1>5, <2>1, <2>2, <2>3, FlatEnds
<1>7. Copies \in Seq(Steps) /\ Fed(Copies) /\ Only(Copies, {}) /\ Ops(Copies) \subseteq {"mount", "stage"}
  BY <1>2, <1>3, <1>5, FlatFed, FlatOnly, FlatPiece
<1> QED BY <1>6, <1>7 DEF Work

\* ... and an update locates them.
LEMMA LooksWork ==
  ASSUME job \in JobType, layout = Layout, job.flow = "raw"
  PROVE  Work(Looks, {}, {}, Paid, {})
<1> DEFINE q(i) == <<S("find", PaidFor(i)), S("locate", PaidFor(i))>>
           f == [i \in Items |-> q(i)]
           seqs == [k \in DOMAIN Indices |-> f[Indices[k]]]
<1>1. ASSUME NEW i \in Items
      PROVE  /\ q(i) \in Seq(Steps) /\ DOMAIN q(i) = {1, 2} /\ q(i)[1].op = "find"
             /\ q(i)[2] = S("locate", PaidFor(i)) /\ q(i)[2].op = "locate"
  <2> DEFINE p == PaidFor(i)
             a == S("find", p)
             b == S("locate", p)
  <2>1. p \in Targets
    BY PaidParts, TargetsHold DEF Paid
  <2>2. a \in Steps /\ a.op = "find" /\ b \in Steps /\ b.op = "locate"
    BY <2>1, StepTyped DEF OpNames
  <2>3. q(i) = <<a, b>> /\ b = S("locate", p)
    OBVIOUS
  <2> HIDE DEF a, b, q
  <2>6. <<a, b>> \in Seq(Steps)
    BY <2>2
  <2>7. DOMAIN <<a, b>> = {1, 2} /\ <<a, b>>[1] = a /\ <<a, b>>[2] = b
    OBVIOUS
  <2> QED BY <2>2, <2>3, <2>6, <2>7
<1> HIDE DEF q
<1>2. /\ seqs \in Seq(Seq(Steps)) /\ DOMAIN seqs = Items /\ \A i \in Items : seqs[i] = f[i]
      /\ \A k \in DOMAIN Indices : Indices[k] \in Items
  <2>1. DOMAIN f = DOMAIN job.items /\ \A i \in DOMAIN job.items : f[i] \in Seq(Steps)
    BY <1>1 DEF Items
  <2> HIDE DEF f
  <2> QED BY <2>1, PerItem DEF Items
<1>3. Looks = FlattenSeq(seqs)
  <2>1. seqs = [k \in DOMAIN Indices |-> q(Indices[k])]
    BY <1>2
  <2> QED BY <2>1 DEF Looks, Each, q, PaidFor
<1>4. \A i \in Items : seqs[i] = q(i)
  BY <1>2
<1> HIDE DEF seqs, f
<1>5. ASSUME NEW i \in Items
      PROVE  Only(seqs[i], {}) /\ Ends(seqs[i], {S("locate", PaidFor(i))}, PaidFor(i), Spoiling)
  <2>1. DOMAIN seqs[i] = {1, 2} /\ seqs[i][1].op = "find" /\ seqs[i][2] = S("locate", PaidFor(i))
        /\ seqs[i][2].op = "locate"
    BY <1>1, <1>4
  <2>2. Only(seqs[i], {})
    BY <2>1 DEF Only
  <2>3. Ends(seqs[i], {S("locate", PaidFor(i))}, PaidFor(i), Spoiling)
    BY <2>1 DEF Ends
  <2> QED BY <2>2, <2>3
<1>6. ASSUME NEW n \in Paid PROVE Ends(Looks, {S("locate", n)}, n, Spoiling)
  <2>1. PICK i \in Items : n = PaidFor(i)
    BY PaidParts
  <2>2. i \in DOMAIN seqs /\ \A m \in DOMAIN seqs : m # i => Spares(seqs[m], n, Spoiling)
    <3>1. i \in DOMAIN seqs /\ (\A m \in DOMAIN seqs : Only(seqs[m], {})) /\ n \notin {}
      BY <1>2, <1>5
    <3> QED BY <3>1, OnlySpares
  <2> QED BY <1>2, <1>3, <1>5, <2>1, <2>2, FlatEnds
<1>7. Looks \in Seq(Steps) /\ Only(Looks, {})
  BY <1>2, <1>3, <1>5, FlatOnly, FlatPiece
<1> QED BY <1>6, <1>7 DEF Work


-----------------------------------------------------------------------------
(* The bodies of one system and of a shared store.                         *)

\* What stands between the prelude of a build, or the start of an update, and
\* the last two steps.
Named(b) == Work(b, {}, {}, MenuNames, Numbers) /\ Ends(b, {S("render", 0)}, 0, Locating)
Body(b) ==
  /\ Work(b, {n \in Numbers : layout[n] # Bios}, {n \in Numbers : Fills(n)}, MenuNames, Numbers)
  /\ Fed(b) /\ Ends(b, {S("render", 0)}, 0, Locating)

\* Work on more partitions is work on fewer.
LEMMA WorkOf ==
  ASSUME NEW t, NEW M, NEW F, NEW Q, NEW N, Work(t, M, F, Q, N),
         NEW M2 \in SUBSET M, NEW F2 \in SUBSET F, NEW Q2 \in SUBSET Q, NEW N2, N \subseteq N2
  PROVE  Work(t, M2, F2, Q2, N2)
BY DEF Work, Only

\* One system whose files are on a partition of their own: ...
LEMMA SingleBody ==
  ASSUME job \in JobType, layout = Layout, job.flow = "single"
  PROVE  \E b : SingleScript = (Prelude \o b) \o Ending /\ Body(b)
<1> DEFINE e == Number(Esp)
           d == Number(Data)
           t == <<S("vfat", e), S("ext4", d), S("locate", e), S("locate", d), S("mount", d), S("mount", e),
                  S("stage", e), S("render", 0), S("stage", d)>>
<1>1. \A op \in OpNames : \A n \in {0, e, d} : S(op, n) \in Steps
  BY StepTyped, TargetsHold
<1>2. SingleScript = (Prelude \o t) \o Ending
  BY DEF SingleScript
<1>3. t \in Seq(Steps)
  BY <1>1 DEF OpNames
<1>4. e \in Numbers /\ layout[e] = Esp /\ d \in Numbers /\ layout[d] = Data
      /\ \A n \in Numbers : layout[n] = Bios \/ n = e \/ n = d
  BY Parts
<1>5. /\ DOMAIN t = 1 .. 9 /\ t[1] = S("vfat", e) /\ t[2] = S("ext4", d) /\ t[3] = S("locate", e) /\ t[4] = S("locate", d)
      /\ t[5] = S("mount", d) /\ t[6] = S("mount", e) /\ t[7] = S("stage", e) /\ t[8] = S("render", 0)
      /\ t[9] = S("stage", d)
  OBVIOUS
<1>6. /\ t[1].op = "vfat" /\ t[2].op = "ext4" /\ t[3].op = "locate" /\ t[4].op = "locate" /\ t[5].op = "mount"
      /\ t[6].op = "mount" /\ t[7].op = "stage" /\ t[8].op = "render" /\ t[9].op = "stage"
      /\ t[1].n = e /\ t[2].n = d /\ t[5].n = d /\ t[6].n = e /\ t[7].n = e /\ t[9].n = d
  BY DEF S
<1> HIDE DEF t, e, d
<1>7. e # d
  BY <1>4 DEF Esp, Data
<1>8. /\ \A j \in DOMAIN t : j > 1 => Clear(t[j], e, Spoiling)
      /\ \A j \in DOMAIN t : j > 2 => Clear(t[j], d, Spoiling)
      /\ \A j \in DOMAIN t : j > 8 => Clear(t[j], 0, Locating)
      /\ \A j \in DOMAIN t : j > 2 => Clear(t[j], e, Dropping) /\ Clear(t[j], d, Dropping)
  BY <1>5, <1>6, <1>7 DEF Clear, Spoiling, Locating, Dropping
<1>9. Result(e) = "vfat" /\ Result(d) = "ext4" /\ Only(t, Numbers)
  BY <1>4, <1>5, <1>6 DEF Result, Esp, Data, Only
<1>10. S("vfat", e) \in Making(e, Result(e)) /\ S("ext4", d) \in Making(d, Result(d))
       /\ S("stage", e) \in Both("stage", e) /\ S("stage", d) \in Both("stage", d)
  BY <1>9 DEF Making, Both, S, MadeBy
<1>11. /\ Ends(t, Making(e, Result(e)), e, Spoiling) /\ Ends(t, Making(d, Result(d)), d, Spoiling)
       /\ Ends(t, {S("locate", e)}, e, Spoiling) /\ Ends(t, {S("locate", d)}, d, Spoiling)
  <2>1. 1 \in DOMAIN t /\ 2 \in DOMAIN t /\ 3 \in DOMAIN t /\ 4 \in DOMAIN t
    BY <1>5
  <2>2. \A j \in DOMAIN t : (j > 3 => j > 1) /\ (j > 4 => j > 2)
    BY <1>5
  <2> QED BY <1>5, <1>8, <1>10, <2>1, <2>2 DEF Ends
<1>12. /\ Ends(t, Both("stage", e), e, Spoiling) /\ Ends(t, Both("stage", d), d, Spoiling)
       /\ Ends(t, {S("render", 0)}, 0, Locating)
  <2>1. 7 \in DOMAIN t /\ 8 \in DOMAIN t /\ 9 \in DOMAIN t
    BY <1>5
  <2>2. \A j \in DOMAIN t : (j > 7 => j > 1) /\ (j > 9 => j > 2)
    BY <1>5
  <2> QED BY <1>5, <1>8, <1>10, <2>1, <2>2 DEF Ends
<1>13. Fed(t)
  <2>1. ASSUME NEW i \in DOMAIN t, t[i].op = "stage"
        PROVE  \E j \in 1 .. i - 1 : /\ t[j].op = "mount" /\ t[j].n = t[i].n
                                     /\ \A k \in j + 1 .. i - 1 : Clear(t[k], t[i].n, Dropping)
    <3>1. i = 7 \/ i = 9
      BY <1>5, <1>6, <2>1
    <3>2. CASE i = 7
      <4>1. 6 \in 1 .. i - 1 /\ \A k \in 6 + 1 .. i - 1 : FALSE
        BY <3>2
      <4> QED BY <1>6, <3>2, <4>1
    <3>3. CASE i = 9
      <4>1. 5 \in 1 .. i - 1 /\ \A k \in 5 + 1 .. i - 1 : k \in DOMAIN t /\ k > 2
        BY <1>5, <3>3
      <4> QED BY <1>6, <1>8, <3>3, <4>1
    <3> QED BY <3>1, <3>2, <3>3
  <2> QED BY <2>1 DEF Fed, FedBy
<1>14. MenuNames \subseteq {e, d} /\ {n \in Numbers : layout[n] # Bios} \subseteq {e, d}
       /\ {n \in Numbers : Fills(n)} \subseteq {e, d}
  BY <1>4 DEF MenuNames, Fills, Bios
<1>15. Work(t, {n \in Numbers : layout[n] # Bios}, {n \in Numbers : Fills(n)}, MenuNames, Numbers)
  BY <1>3, <1>9, <1>11, <1>12, <1>14 DEF Work
<1> QED BY <1>2, <1>12, <1>13, <1>15 DEF Body

\* ... a store that several share, ...
LEMMA SharedBody ==
  ASSUME job \in JobType, layout = Layout, job.flow = "shared"
  PROVE  \E b : SharedScript = (Prelude \o b) \o Ending /\ Body(b)
<1> DEFINE e == Number(Esp)
           d == Number(Data)
           t == <<S("vfat", e), S("ext4", d), S("locate", e), S("locate", d), S("mount", d), S("mount", e),
                  S("stage", e)>>
           r == <<S("render", 0), S("stage", d)>>
           P == {n \in Numbers : layout[n][1] = "persist"}
           b == (t \o PersistAll) \o r
<1>1. \A op \in OpNames : \A n \in {0, e, d} : S(op, n) \in Steps
  BY StepTyped, TargetsHold
<1>3. t \in Seq(Steps) /\ r \in Seq(Steps)
  BY <1>1 DEF OpNames
<1>4. e \in Numbers /\ layout[e] = Esp /\ d \in Numbers /\ layout[d] = Data
      /\ \A n \in Numbers : n = e \/ n = d \/ n \in P
  BY Parts
<1>5. /\ DOMAIN t = 1 .. 7 /\ t[1] = S("vfat", e) /\ t[2] = S("ext4", d) /\ t[3] = S("locate", e) /\ t[4] = S("locate", d)
      /\ t[5] = S("mount", d) /\ t[6] = S("mount", e) /\ t[7] = S("stage", e)
      /\ DOMAIN r = {1, 2} /\ r[1] = S("render", 0) /\ r[2] = S("stage", d)
  OBVIOUS
<1>6. /\ t[1].op = "vfat" /\ t[2].op = "ext4" /\ t[3].op = "locate" /\ t[4].op = "locate" /\ t[5].op = "mount"
      /\ t[6].op = "mount" /\ t[7].op = "stage" /\ r[1].op = "render" /\ r[2].op = "stage"
      /\ t[1].n = e /\ t[2].n = d /\ t[5].n = d /\ t[6].n = e /\ t[7].n = e /\ r[2].n = d
  BY DEF S
<1>20. SharedScript = (Prelude \o b) \o Ending
  BY DEF SharedScript
<1> HIDE DEF t, e, d, r, P
<1>7. e # d /\ e \notin P /\ d \notin P
  BY <1>4 DEF Esp, Data, P
<1>8. /\ \A j \in DOMAIN t : j > 1 => Clear(t[j], e, Spoiling)
      /\ \A j \in DOMAIN t : j > 2 => Clear(t[j], d, Spoiling)
      /\ \A j \in DOMAIN t : j > 2 => Clear(t[j], e, Dropping) /\ Clear(t[j], d, Dropping)
  BY <1>5, <1>6, <1>7 DEF Clear, Spoiling, Dropping
<1>9. Result(e) = "vfat" /\ Result(d) = "ext4" /\ Only(t, {e, d}) /\ Only(r, {})
  BY <1>4, <1>5, <1>6 DEF Result, Esp, Data, Only
<1>10. S("vfat", e) \in Making(e, Result(e)) /\ S("ext4", d) \in Making(d, Result(d))
       /\ S("stage", e) \in Both("stage", e) /\ S("stage", d) \in Both("stage", d)
       /\ S("mount", d) \in Both("mount", d)
  BY <1>9 DEF Making, Both, S, MadeBy
<1>11. /\ Ends(t, Making(e, Result(e)), e, Spoiling) /\ Ends(t, Making(d, Result(d)), d, Spoiling)
       /\ Ends(t, {S("locate", e)}, e, Spoiling) /\ Ends(t, {S("locate", d)}, d, Spoiling)
  <2>1. 1 \in DOMAIN t /\ 2 \in DOMAIN t /\ 3 \in DOMAIN t /\ 4 \in DOMAIN t
    BY <1>5
  <2>2. \A j \in DOMAIN t : (j > 3 => j > 1) /\ (j > 4 => j > 2)
    BY <1>5
  <2> QED BY <1>5, <1>8, <1>10, <2>1, <2>2 DEF Ends
<1>12. Ends(t, Both("stage", e), e, Spoiling) /\ Ends(t, Both("mount", d), d, Dropping)
  <2>1. 5 \in DOMAIN t /\ 7 \in DOMAIN t
    BY <1>5
  <2>2. \A j \in DOMAIN t : (j > 7 => j > 1) /\ (j > 5 => j > 2)
    BY <1>5
  <2> QED BY <1>5, <1>8, <1>10, <2>1, <2>2 DEF Ends
<1>13. Fed(t)
  <2>1. ASSUME NEW i \in DOMAIN t, t[i].op = "stage"
        PROVE  \E j \in 1 .. i - 1 : /\ t[j].op = "mount" /\ t[j].n = t[i].n
                                     /\ \A k \in j + 1 .. i - 1 : Clear(t[k], t[i].n, Dropping)
    <3>1. i = 7
      BY <1>5, <1>6, <2>1
    <3>2. 6 \in 1 .. i - 1 /\ \A k \in 6 + 1 .. i - 1 : FALSE
      BY <3>1
    <3> QED BY <1>6, <3>1, <3>2
  <2> QED BY <2>1 DEF Fed, FedBy
<1>14. Ends(r, {S("render", 0)}, 0, Locating) /\ Ends(r, Both("stage", d), d, Spoiling)
  <2>1. Clear(r[2], 0, Locating)
    BY <1>6 DEF Clear, Locating
  <2> QED BY <1>5, <1>10, <2>1 DEF Ends
<1>15. /\ PersistAll \in Seq(Steps) /\ Ops(PersistAll) \subseteq Lasting /\ Fed(PersistAll) /\ Only(PersistAll, P)
       /\ \A n \in P : /\ Ends(PersistAll, Making(n, Result(n)), n, Spoiling)
                       /\ Fills(n) => Ends(PersistAll, Both("stage", n), n, Spoiling)
  BY PersistAllLeads DEF P
<1>16. Work(t, {e, d}, {e}, {e, d}, {e, d}) /\ Work(PersistAll, P, {n \in P : Fills(n)}, {}, P) /\ Work(r, {}, {d}, {}, {})
  BY <1>3, <1>9, <1>11, <1>12, <1>14, <1>15 DEF Work
<1>17. Work(t \o PersistAll, {e, d} \cup P, {e} \cup {n \in P : Fills(n)}, {e, d} \cup {}, {e, d} \cup P)
  BY <1>7, <1>16, WorkJoined
<1>18. Work(b, ({e, d} \cup P) \cup {}, ({e} \cup {n \in P : Fills(n)}) \cup {d}, ({e, d} \cup {}) \cup {},
            ({e, d} \cup P) \cup {})
  BY <1>16, <1>17, WorkJoined
<1>19. Fed(b) /\ Ends(b, {S("render", 0)}, 0, Locating)
  <2>1. t \o PersistAll \in Seq(Steps)
    BY <1>17 DEF Work
  <2>2. Fed(t \o PersistAll)
    <3>1. FedBy(PersistAll, {n \in Targets : Ends(t, Both("mount", n), n, Dropping)})
      BY <1>15 DEF Fed, FedBy
    <3> QED BY <1>3, <1>13, <1>15, <3>1, FedJoined
  <2>3. Ends(t \o PersistAll, Both("mount", d), d, Dropping)
    <3>1. Spares(PersistAll, d, Dropping)
      BY <1>7, <1>15, OnlySpares
    <3> QED BY <1>3, <1>12, <1>15, <3>1, EndsJoined
  <2>4. FedBy(r, {n \in Targets : Ends(t \o PersistAll, Both("mount", n), n, Dropping)})
    <3>1. d \in Targets
      BY TargetsHold DEF d
    <3>2. Clear(r[1], d, Dropping)
      BY <1>6 DEF Clear, Dropping
    <3>3. ASSUME NEW i \in DOMAIN r, r[i].op = "stage"
          PROVE  r[i].n = d /\ \A k \in 1 .. i - 1 : k = 1
      BY <1>5, <1>6, <3>3
    <3> QED BY <2>3, <3>1, <3>2, <3>3 DEF FedBy
  <2>5. Ends(b, {S("render", 0)}, 0, Locating)
    BY <1>3, <1>14, <2>1, EndsJoined
  <2> QED BY <1>3, <2>1, <2>2, <2>4, <2>5, FedJoined
<1>21. /\ {n \in Numbers : layout[n] # Bios} \subseteq ({e, d} \cup P) \cup {}
       /\ {n \in Numbers : Fills(n)} \subseteq ({e} \cup {n \in P : Fills(n)}) \cup {d}
       /\ MenuNames \subseteq ({e, d} \cup {}) \cup {}
       /\ ({e, d} \cup P) \cup {} \subseteq Numbers
  <2>1. P \subseteq Numbers /\ \A n \in P : layout[n][1] = "persist"
    BY DEF P
  <2>2. MenuNames \cap P = {}
    BY <2>1 DEF MenuNames
  <2>3. MenuNames \subseteq Numbers
    BY DEF MenuNames
  <2> QED BY <1>4, <2>1, <2>2, <2>3
<1> HIDE DEF b
<1>22. Work(b, {n \in Numbers : layout[n] # Bios}, {n \in Numbers : Fills(n)}, MenuNames, Numbers)
  BY <1>18, <1>21, WorkOf
<1> QED BY <1>19, <1>20, <1>22 DEF Body


-----------------------------------------------------------------------------
(* The bodies of a managed stick and of several raw images.                *)

\* The same steps, the first ones apart ...
FirstApart(s, t, u, v, w, x) == ((((s \o t) \o u) \o v) \o w) \o x = s \o ((((t \o u) \o v) \o w) \o x)
InTheMiddle(h, w, r, g) == ((h \o w) \o r) \o g = h \o ((w \o r) \o g)
InOne(a, b, c, d, e) == (<<a, b>> \o <<c, d>>) \o <<e>> = <<a, b, c, d, e>>
\* Concatenation is associative: five parts after the first ...
LEMMA Apart ==
  ASSUME NEW s, NEW t, NEW u, NEW v, NEW w, NEW x
  PROVE  {s, t, u, v, w, x} \subseteq Seq(Steps) => FirstApart(s, t, u, v, w, x)
<1> DEFINE p == (t \o u) \o v
           q == p \o w
<1>1. ASSUME s \in Seq(Steps), t \in Seq(Steps), u \in Seq(Steps), v \in Seq(Steps)
      PROVE  ((s \o t) \o u) \o v = s \o ((t \o u) \o v) /\ (t \o u) \o v \in Seq(Steps)
  BY <1>1
<1> HIDE DEF p
<1>2. ASSUME s \in Seq(Steps), p \in Seq(Steps), w \in Seq(Steps)
      PROVE  (s \o p) \o w = s \o (p \o w) /\ p \o w \in Seq(Steps)
  BY <1>2
<1> HIDE DEF q
<1>3. ASSUME s \in Seq(Steps), q \in Seq(Steps), x \in Seq(Steps)
      PROVE  (s \o q) \o x = s \o (q \o x)
  BY <1>3
<1> SUFFICES ASSUME {s, t, u, v, w, x} \subseteq Seq(Steps)
             PROVE  FirstApart(s, t, u, v, w, x)
  OBVIOUS
<1>4. ((s \o t) \o u) \o v = s \o p /\ p \in Seq(Steps)
  BY <1>1, Zenon DEF p
<1>5. (s \o p) \o w = s \o q /\ q \in Seq(Steps)
  BY <1>2, <1>4, Zenon DEF q
<1>6. (s \o q) \o x = s \o (q \o x)
  BY <1>3, <1>5, Zenon
<1>7. ((((s \o t) \o u) \o v) \o w) \o x = s \o (q \o x)
  BY <1>4, <1>5, <1>6, Zenon
<1> QED BY <1>7, Zenon DEF FirstApart, p, q
\* A sequence that begins with the one and goes on with the other.
LEMMA Same ==
  ASSUME NEW s \in Seq(Steps), NEW t \in Seq(Steps), NEW x \in Seq(Steps),
         Len(x) = Len(s) + Len(t), \A i \in 1 .. Len(s) : x[i] = s[i], \A i \in 1 .. Len(t) : x[Len(s) + i] = t[i]
  PROVE  s \o t = x
<1> DEFINE u == s \o t
<1>1. u \in Seq(Steps) /\ Len(u) = Len(s) + Len(t)
      /\ \A i \in 1 .. Len(s) + Len(t) : u[i] = IF i <= Len(s) THEN s[i] ELSE t[i - Len(s)]
  BY ConcatProperties
<1>2. Len(s) \in Nat /\ Len(t) \in Nat
  OBVIOUS
<1> HIDE DEF u
<1>3. ASSUME NEW i \in 1 .. Len(u) PROVE u[i] = x[i]
  <2>1. CASE i <= Len(s)
    BY <1>1, <1>2, <2>1
  <2>2. CASE i > Len(s)
    <3>1. i - Len(s) \in 1 .. Len(t) /\ Len(s) + (i - Len(s)) = i
      BY <1>1, <1>2, <2>2
    <3>2. x[i] = t[i - Len(s)]
      BY <3>1
    <3> QED BY <1>1, <1>2, <2>2, <3>2
  <2> QED BY <1>1, <1>2, <2>1, <2>2
<1>4. u = x
  BY <1>1, <1>3, SeqEqual
<1> QED BY <1>4 DEF u
\* ... or the middle ones together.
LEMMA Grouped ==
  ASSUME NEW h, NEW w, NEW r, NEW g
  PROVE  {h, w, r, g} \subseteq Seq(Steps) => InTheMiddle(h, w, r, g)
<1>1. ASSUME h \in Seq(Steps), w \in Seq(Steps), r \in Seq(Steps), g \in Seq(Steps)
      PROVE  ((h \o w) \o r) \o g = h \o ((w \o r) \o g)
  BY <1>1
<1> QED BY <1>1, Zenon DEF InTheMiddle

\* No more steps.
LEMMA NoMore ==
  ASSUME NEW s \in Seq(Steps) PROVE s \o <<>> = s
OBVIOUS

\* Three steps, and five.
LEMMA Few ==
  ASSUME NEW a \in Steps, NEW b \in Steps, NEW c \in Steps, NEW d \in Steps, NEW e \in Steps
  PROVE  /\ <<a>> \o <<b, c>> = <<a, b, c>>
         /\ InOne(a, b, c, d, e)
<1> DEFINE p == <<a>>
           q == <<b, c>>
           r == <<a, b, c>>
           s == <<a, b>>
           t == <<c, d>>
           u == <<a, b, c, d>>
           v == <<e>>
           w == <<a, b, c, d, e>>
<1>1. p \in Seq(Steps) /\ q \in Seq(Steps) /\ r \in Seq(Steps) /\ s \in Seq(Steps) /\ t \in Seq(Steps)
      /\ u \in Seq(Steps) /\ v \in Seq(Steps) /\ w \in Seq(Steps)
  OBVIOUS
<1>2. /\ Len(p) = 1 /\ p[1] = a /\ Len(q) = 2 /\ q[1] = b /\ q[2] = c
      /\ Len(r) = 3 /\ r[1] = a /\ r[2] = b /\ r[3] = c
  OBVIOUS
<1>3. /\ Len(s) = 2 /\ s[1] = a /\ s[2] = b /\ Len(t) = 2 /\ t[1] = c /\ t[2] = d
      /\ Len(u) = 4 /\ u[1] = a /\ u[2] = b /\ u[3] = c /\ u[4] = d
  OBVIOUS
<1>4. /\ Len(v) = 1 /\ v[1] = e
      /\ Len(w) = 5 /\ w[1] = a /\ w[2] = b /\ w[3] = c /\ w[4] = d /\ w[5] = e
  OBVIOUS
<1> HIDE DEF p, q, r, s, t, u, v, w
<1>5. p \o q = r
  <2>1. (\A i \in 1 .. Len(p) : r[i] = p[i]) /\ (\A i \in 1 .. Len(q) : r[Len(p) + i] = q[i])
    BY <1>2
  <2>2. p \in Seq(Steps) /\ q \in Seq(Steps) /\ r \in Seq(Steps)
    BY <1>1
  <2>3. Len(r) = Len(p) + Len(q)
    BY <1>2
  <2> QED BY <2>1, <2>2, <2>3, Same, Zenon
<1>6. s \o t = u
  <2>1. (\A i \in 1 .. Len(s) : u[i] = s[i]) /\ (\A i \in 1 .. Len(t) : u[Len(s) + i] = t[i])
    BY <1>3
  <2>2. s \in Seq(Steps) /\ t \in Seq(Steps) /\ u \in Seq(Steps)
    BY <1>1
  <2>3. Len(u) = Len(s) + Len(t)
    BY <1>3
  <2> QED BY <2>1, <2>2, <2>3, Same, Zenon
<1>7. u \o v = w
  <2>1. (\A i \in 1 .. Len(u) : w[i] = u[i]) /\ (\A i \in 1 .. Len(v) : w[Len(u) + i] = v[i])
    BY <1>3, <1>4
  <2>2. u \in Seq(Steps) /\ v \in Seq(Steps) /\ w \in Seq(Steps)
    BY <1>1
  <2>3. Len(w) = Len(u) + Len(v)
    BY <1>3, <1>4
  <2> QED BY <2>1, <2>2, <2>3, Same, Zenon
<1> QED BY <1>5, <1>6, <1>7 DEF InOne, p, q, r, s, t, u, v, w

\* The boot partition and the persistence of a plan with payloads.
LEMMA HeadWork ==
  ASSUME job \in JobType, layout = Layout, job.flow \in {"managed", "raw"}
  PROVE  LET e == Number(Esp)
             P == {n \in Numbers : layout[n][1] = "persist"}
             h == EspSteps \o PersistAll
         IN  Work(h, {e} \cup P, {e} \cup {n \in P : Fills(n)}, {e}, {e} \cup P) /\ Fed(h) /\ "render" \notin Ops(h)
<1> DEFINE e == Number(Esp)
           P == {n \in Numbers : layout[n][1] = "persist"}
           h == EspSteps \o PersistAll
<1>1. Work(EspSteps, {e}, {e}, {e}, {e}) /\ Fed(EspSteps) /\ "render" \notin Ops(EspSteps)
  BY EspWork
<1>2. /\ PersistAll \in Seq(Steps) /\ Ops(PersistAll) \subseteq Lasting /\ Fed(PersistAll) /\ Only(PersistAll, P)
      /\ \A n \in P : /\ Ends(PersistAll, Making(n, Result(n)), n, Spoiling)
                      /\ Fills(n) => Ends(PersistAll, Both("stage", n), n, Spoiling)
  BY PersistAllLeads
<1>3. layout[e] = Esp
  BY Parts
<1>4. e \notin P
  BY <1>3 DEF Esp
<1> HIDE DEF e, P
<1>5. Work(PersistAll, P, {n \in P : Fills(n)}, {}, P)
  BY <1>2 DEF Work
<1>6. Work(h, {e} \cup P, {e} \cup {n \in P : Fills(n)}, {e} \cup {}, {e} \cup P)
  BY <1>1, <1>4, <1>5, WorkJoined
<1>7. Fed(h)
  <2>1. FedBy(PersistAll, {n \in Targets : Ends(EspSteps, Both("mount", n), n, Dropping)})
    BY <1>2 DEF Fed, FedBy
  <2> QED BY <1>1, <1>2, <2>1, FedJoined DEF Work
<1>8. "render" \notin Ops(h)
  <2>1. Ops(h) = Ops(EspSteps) \cup Ops(PersistAll)
    BY <1>1, <1>2, OpsJoined DEF Work
  <2> QED BY <1>1, <1>2, <2>1 DEF Lasting
<1>9. {e} \cup {} = {e}
  OBVIOUS
<1> QED BY <1>6, <1>7, <1>8, <1>9 DEF e, P

\* ... one system with its own payload partition, ...
LEMMA ManagedBody ==
  ASSUME job \in JobType, layout = Layout, job.flow = "managed"
  PROVE  \E b : ManagedScript = (Prelude \o b) \o Ending /\ Body(b)
<1> DEFINE e == Number(Esp)
           p == Number(<<"payload", 1>>)
           P == {n \in Numbers : layout[n][1] = "persist"}
           h == EspSteps \o PersistAll
           w == IF job.payload = "raw-iso" THEN <<S("dd", p)>> ELSE <<S("ext4", p), S("mount", p)>>
           r == <<S("locate", p), S("render", 0)>>
           g == IF job.payload = "store" THEN <<S("stage", p)>> ELSE <<>>
           q == (w \o r) \o g
           b == h \o q
           F == IF job.payload = "raw-iso" THEN {} ELSE {p}
<1>1. \A op \in OpNames : \A n \in {0, e, p} : S(op, n) \in Steps
  BY StepTyped, TargetsHold
<1>0. /\ Prelude \in Seq(Steps) /\ EspSteps \in Seq(Steps) /\ PersistAll \in Seq(Steps)
      /\ w \in Seq(Steps) /\ r \in Seq(Steps) /\ g \in Seq(Steps) /\ Ending \in Seq(Steps)
  <2>1. Prelude \in Seq(Steps) /\ EspSteps \in Seq(Steps) /\ PersistAll \in Seq(Steps)
    BY PreludeLeads, EspWork, PersistAllLeads DEF Work
  <2>2. S("config", MenuPart) \in Steps /\ S("finalize", 0) \in Steps
    BY StepTyped, TargetsHold DEF OpNames
  <2>3. Ending \in Seq(Steps)
    BY <2>2 DEF Ending
  <2>4. w \in Seq(Steps) /\ r \in Seq(Steps) /\ g \in Seq(Steps)
    BY <1>1 DEF OpNames
  <2> QED BY <2>1, <2>3, <2>4
<1>2. ManagedScript = (Prelude \o b) \o Ending
  <2> DEFINE x == Prelude
             y == EspSteps
             z == PersistAll
  <2>1. ManagedScript = (((((x \o y) \o z) \o w) \o r) \o g) \o Ending
    BY DEF ManagedScript, EspSteps
  <2>2. {x, y, z, w, r, g} \subseteq Seq(Steps)
    BY <1>0
  <2>3. h \in Seq(Steps)
    BY <1>0, OpsJoined
  <2>4. h = y \o z /\ b = h \o ((w \o r) \o g)
    OBVIOUS
  <2> HIDE DEF x, y, z, w, r, g, b, h
  <2>5. FirstApart(x, y, z, w, r, g)
    BY <2>2, Apart, Zenon
  <2>6. {h, w, r, g} \subseteq Seq(Steps)
    BY <2>2, <2>3
  <2>7. InTheMiddle(h, w, r, g)
    BY <2>6, Grouped, Zenon
  <2> QED BY <2>1, <2>4, <2>5, <2>7, Zenon DEF x, FirstApart, InTheMiddle
<1>3. e \in Numbers /\ layout[e] = Esp /\ p \in Numbers /\ layout[p] = <<"payload", 1>>
      /\ \A n \in Numbers : n = e \/ n = p \/ n \in P
  BY Parts
<1>4. p # e /\ p \notin P
  BY <1>3 DEF Esp
<1>5. Result(p) = (IF job.payload = "raw-iso" THEN "iso" ELSE "ext4") /\ (Fills(p) <=> job.payload # "raw-iso")
      /\ job.payload \in {"raw-iso", "store"}
  BY <1>3 DEF Result, Fills, JobType
<1>6. Work(q, {p}, F, {p}, {p}) /\ Ends(q, {S("render", 0)}, 0, Locating) /\ Fed(q)
  <2>1. CASE job.payload = "raw-iso"
    <3> DEFINE t == <<S("dd", p), S("locate", p), S("render", 0)>>
    <3>1. q = t
      <4> DEFINE a == S("dd", p)
                 l == S("locate", p)
                 m == S("render", 0)
      <4>1. a \in Steps /\ l \in Steps /\ m \in Steps
        BY <1>1 DEF OpNames
      <4>2. q = (<<a>> \o <<l, m>>) \o <<>> /\ t = <<a, l, m>>
        BY <2>1
      <4> HIDE DEF a, l, m, q, t
      <4>3. <<a>> \o <<l, m>> = <<a, l, m>>
        BY <4>1, Few
      <4>4. t \in Seq(Steps)
        BY <4>1, <4>2
      <4>5. t \o <<>> = t
        BY <4>4, NoMore
      <4> QED BY <4>2, <4>3, <4>5
    <3>2. t \in Seq(Steps)
      BY <1>1 DEF OpNames
    <3>3. DOMAIN t = {1, 2, 3} /\ t[1] = S("dd", p) /\ t[2] = S("locate", p) /\ t[3] = S("render", 0)
          /\ t[1].op = "dd" /\ t[1].n = p /\ t[2].op = "locate" /\ t[3].op = "render"
      BY DEF S
    <3>4. S("dd", p) \in Making(p, Result(p))
      BY <1>5, <2>1 DEF Making, Both, S, MadeBy
    <3> HIDE DEF t, q, p
    <3>5. \A j \in DOMAIN t : j > 1 => Clear(t[j], p, Spoiling)
      BY <3>3 DEF Clear, Spoiling
    <3>6. Ends(t, Making(p, Result(p)), p, Spoiling) /\ Ends(t, {S("locate", p)}, p, Spoiling)
          /\ Ends(t, {S("render", 0)}, 0, Locating)
      BY <3>3, <3>4, <3>5 DEF Ends
    <3>7. Only(t, {p}) /\ Fed(t)
      BY <3>3 DEF Only, Fed, FedBy
    <3> QED BY <2>1, <3>1, <3>2, <3>6, <3>7 DEF Work
  <2>2. CASE job.payload = "store"
    <3> DEFINE t == <<S("ext4", p), S("mount", p), S("locate", p), S("render", 0), S("stage", p)>>
    <3>1. q = t
      <4> DEFINE a == S("ext4", p)
                 c == S("mount", p)
                 l == S("locate", p)
                 m == S("render", 0)
                 n == S("stage", p)
      <4>1. a \in Steps /\ c \in Steps /\ l \in Steps /\ m \in Steps /\ n \in Steps
        BY <1>1 DEF OpNames
      <4>2. q = (<<a, c>> \o <<l, m>>) \o <<n>> /\ t = <<a, c, l, m, n>>
        BY <2>2
      <4> HIDE DEF a, c, l, m, n, q, t
      <4>3. InOne(a, c, l, m, n)
        BY <4>1, Few, Zenon
      <4> QED BY <4>2, <4>3, Zenon DEF InOne
    <3>2. t \in Seq(Steps)
      BY <1>1 DEF OpNames
    <3>3. /\ DOMAIN t = 1 .. 5 /\ t[1] = S("ext4", p) /\ t[3] = S("locate", p) /\ t[4] = S("render", 0)
          /\ t[5] = S("stage", p)
          /\ t[1].op = "ext4" /\ t[2].op = "mount" /\ t[3].op = "locate" /\ t[4].op = "render" /\ t[5].op = "stage"
          /\ t[1].n = p /\ t[2].n = p /\ t[5].n = p
      BY DEF S
    <3>4. S("ext4", p) \in Making(p, Result(p)) /\ S("stage", p) \in Both("stage", p)
      BY <1>5, <2>2 DEF Making, Both, S, MadeBy
    <3> HIDE DEF t, q, p
    <3>5. /\ \A j \in DOMAIN t : j > 1 => Clear(t[j], p, Spoiling)
          /\ \A j \in DOMAIN t : j > 4 => Clear(t[j], 0, Locating)
          /\ Clear(t[3], p, Dropping) /\ Clear(t[4], p, Dropping)
      BY <3>3 DEF Clear, Spoiling, Locating, Dropping
    <3>6. /\ Ends(t, Making(p, Result(p)), p, Spoiling) /\ Ends(t, {S("locate", p)}, p, Spoiling)
          /\ Ends(t, {S("render", 0)}, 0, Locating) /\ Ends(t, Both("stage", p), p, Spoiling)
      <4>1. 1 \in DOMAIN t /\ 3 \in DOMAIN t /\ 4 \in DOMAIN t /\ 5 \in DOMAIN t
        BY <3>3
      <4>2. \A j \in DOMAIN t : (j > 3 => j > 1) /\ (j > 5 => j > 1)
        BY <3>3
      <4> QED BY <3>3, <3>4, <3>5, <4>1, <4>2 DEF Ends
    <3>7. Only(t, {p})
      BY <3>3 DEF Only
    <3>8. Fed(t)
      <4>1. ASSUME NEW i \in DOMAIN t, t[i].op = "stage"
            PROVE  \E j \in 1 .. i - 1 : /\ t[j].op = "mount" /\ t[j].n = t[i].n
                                         /\ \A k \in j + 1 .. i - 1 : Clear(t[k], t[i].n, Dropping)
        <5>1. i = 5
          BY <3>3, <4>1
        <5>2. 2 \in 1 .. i - 1 /\ \A k \in 2 + 1 .. i - 1 : k = 3 \/ k = 4
          BY <5>1
        <5> QED BY <3>3, <3>5, <5>1, <5>2
      <4> QED BY <4>1 DEF Fed, FedBy
    <3> QED BY <2>2, <3>1, <3>2, <3>6, <3>7, <3>8 DEF Work
  <2> QED BY <1>5, <2>1, <2>2
<1>7. Work(h, {e} \cup P, {e} \cup {n \in P : Fills(n)}, {e}, {e} \cup P) /\ Fed(h) /\ "render" \notin Ops(h)
  BY HeadWork
<1>8. P \subseteq Numbers /\ \A n \in P : layout[n][1] = "persist"
  OBVIOUS
<1> HIDE DEF e, p, P, h, q, F
<1>9. Work(b, ({e} \cup P) \cup {p}, ({e} \cup {n \in P : Fills(n)}) \cup F, {e} \cup {p}, ({e} \cup P) \cup {p})
  BY <1>4, <1>6, <1>7, WorkJoined
<1>10. /\ {n \in Numbers : layout[n] # Bios} \subseteq ({e} \cup P) \cup {p}
       /\ {n \in Numbers : Fills(n)} \subseteq ({e} \cup {n \in P : Fills(n)}) \cup F
       /\ MenuNames \subseteq {e} \cup {p} /\ ({e} \cup P) \cup {p} \subseteq Numbers
  <2>1. MenuNames \cap P = {} /\ MenuNames \subseteq Numbers
    BY <1>8 DEF MenuNames
  <2>2. Fills(p) => p \in F
    BY <1>5 DEF F
  <2> QED BY <1>3, <1>8, <2>1, <2>2
<1>11. Fed(b) /\ Ends(b, {S("render", 0)}, 0, Locating)
  <2>1. h \in Seq(Steps) /\ q \in Seq(Steps)
    BY <1>6, <1>7 DEF Work
  <2>2. FedBy(q, {n \in Targets : Ends(h, Both("mount", n), n, Dropping)})
    BY <1>6 DEF Fed, FedBy
  <2> QED BY <1>6, <1>7, <2>1, <2>2, FedJoined, EndsJoined
<1> HIDE DEF b
<1>12. Work(b, {n \in Numbers : layout[n] # Bios}, {n \in Numbers : Fills(n)}, MenuNames, Numbers)
  BY <1>9, <1>10, WorkOf
<1> QED BY <1>2, <1>11, <1>12 DEF Body

\* ... and several raw images.
LEMMA RawBody ==
  ASSUME job \in JobType, layout = Layout, job.flow = "raw"
  PROVE  \E b : RawScript = (Prelude \o b) \o Ending /\ Body(b)
<1> DEFINE e == Number(Esp)
           P == {n \in Numbers : layout[n][1] = "persist"}
           F == {n \in Paid : Fills(n)}
           h == EspSteps \o PersistAll
           r == <<S("render", 0)>>
           b == ((h \o Writes) \o r) \o Copies
<1>1. RawScript = (Prelude \o b) \o Ending
  <2> DEFINE x == Prelude
             y == EspSteps
             z == PersistAll
             w == Writes
             g == Copies
  <2>1. RawScript = (((((x \o y) \o z) \o w) \o r) \o g) \o Ending
    BY DEF RawScript, EspSteps, Writes, Copies
  <2>2. {x, y, z, w, r, g} \subseteq Seq(Steps)
    <3>1. S("render", 0) \in Steps
      BY StepTyped, TargetsHold DEF OpNames
    <3>2. r \in Seq(Steps)
      BY <3>1
    <3> QED BY <3>2, PreludeLeads, EspWork, PersistAllLeads, WritesWork, CopiesWork DEF Work
  <2>3. b = (((y \o z) \o w) \o r) \o g
    OBVIOUS
  <2> HIDE DEF x, y, z, w, r, g, b
  <2>4. FirstApart(x, y, z, w, r, g)
    BY <2>2, Apart, Zenon
  <2> QED BY <2>1, <2>3, <2>4, Zenon DEF x, FirstApart
<1>2. e \in Numbers /\ layout[e] = Esp /\ \A n \in Numbers : n = e \/ n \in P \/ n \in Paid
  <2>1. e \in Numbers /\ layout[e] = Esp
    BY Parts
  <2>2. ASSUME NEW n \in Numbers PROVE n = e \/ n \in P \/ n \in Paid
    <3>1. n = e \/ n \in P \/ \E i \in Nat : layout[n] = <<"payload", i>>
      BY Parts
    <3>2. (\E i \in Nat : layout[n] = <<"payload", i>>) => layout[n][1] = "payload"
      OBVIOUS
    <3> QED BY <3>1, <3>2 DEF Paid
  <2> QED BY <2>1, <2>2
<1>3. e \notin Paid /\ P \cap Paid = {} /\ P \subseteq Numbers /\ Paid \subseteq Numbers
      /\ \A n \in P : layout[n][1] = "persist"
  BY <1>2 DEF Esp, Paid
<1>4. Work(h, {e} \cup P, {e} \cup {n \in P : Fills(n)}, {e}, {e} \cup P) /\ Fed(h) /\ "render" \notin Ops(h)
  BY HeadWork
<1>5. Work(Writes, Paid, {}, Paid, Paid) /\ Fed(Writes) /\ Work(Copies, {}, F, {}, {}) /\ Fed(Copies)
      /\ Ops(Copies) \subseteq {"mount", "stage"}
  BY WritesWork, CopiesWork
<1>6. Work(r, {}, {}, {}, {}) /\ Fed(r) /\ Ends(r, {S("render", 0)}, 0, Locating)
  <2>1. S("render", 0) \in Steps
    BY StepTyped, TargetsHold DEF OpNames
  <2>2. r \in Seq(Steps)
    BY <2>1
  <2>3. DOMAIN r = {1} /\ r[1] = S("render", 0) /\ r[1].op = "render"
    BY DEF S
  <2> HIDE DEF r
  <2>4. Only(r, {}) /\ Fed(r) /\ Ends(r, {S("render", 0)}, 0, Locating)
    BY <2>3 DEF Only, Fed, FedBy, Ends
  <2> QED BY <2>2, <2>4 DEF Work
<1> HIDE DEF e, P, F, h, r
<1>7. Work(h \o Writes, ({e} \cup P) \cup Paid, ({e} \cup {n \in P : Fills(n)}) \cup {}, {e} \cup Paid, ({e} \cup P) \cup Paid)
  BY <1>3, <1>4, <1>5, WorkJoined
<1>8. Work((h \o Writes) \o r, (({e} \cup P) \cup Paid) \cup {}, (({e} \cup {n \in P : Fills(n)}) \cup {}) \cup {},
           ({e} \cup Paid) \cup {}, (({e} \cup P) \cup Paid) \cup {})
  BY <1>6, <1>7, WorkJoined
<1>9. Work(b, ((({e} \cup P) \cup Paid) \cup {}) \cup {}, ((({e} \cup {n \in P : Fills(n)}) \cup {}) \cup {}) \cup F,
           (({e} \cup Paid) \cup {}) \cup {}, ((({e} \cup P) \cup Paid) \cup {}) \cup {})
  BY <1>5, <1>8, WorkJoined
<1>10. Fed(b) /\ Ends(b, {S("render", 0)}, 0, Locating)
  <2>1. /\ h \in Seq(Steps) /\ Writes \in Seq(Steps) /\ r \in Seq(Steps) /\ Copies \in Seq(Steps)
        /\ h \o Writes \in Seq(Steps) /\ (h \o Writes) \o r \in Seq(Steps)
    BY <1>4, <1>5, <1>6, <1>7, <1>8 DEF Work
  <2>2. ASSUME NEW t, Fed(t), NEW M PROVE FedBy(t, M)
    BY <2>2 DEF Fed, FedBy
  <2>3. Fed(h \o Writes)
    BY <1>4, <1>5, <2>1, <2>2, FedJoined
  <2>4. Fed((h \o Writes) \o r)
    BY <1>6, <2>1, <2>2, <2>3, FedJoined
  <2>5. Fed(b)
    BY <1>5, <2>1, <2>2, <2>4, FedJoined
  <2>6. Ends((h \o Writes) \o r, {S("render", 0)}, 0, Locating)
    BY <1>6, <2>1, EndsJoined
  <2>7. Spares(Copies, 0, Locating)
    BY <1>5, OpsSpare DEF Locating
  <2> QED BY <2>1, <2>5, <2>6, <2>7, EndsJoined
<1>11. /\ {n \in Numbers : layout[n] # Bios} \subseteq ((({e} \cup P) \cup Paid) \cup {}) \cup {}
       /\ {n \in Numbers : Fills(n)} \subseteq ((({e} \cup {n \in P : Fills(n)}) \cup {}) \cup {}) \cup F
       /\ MenuNames \subseteq (({e} \cup Paid) \cup {}) \cup {}
       /\ ((({e} \cup P) \cup Paid) \cup {}) \cup {} \subseteq Numbers
  <2>1. MenuNames \cap P = {} /\ MenuNames \subseteq Numbers
    BY <1>3 DEF MenuNames
  <2>2. \A n \in Paid : Fills(n) => n \in F
    BY DEF F
  <2> QED BY <1>2, <1>3, <2>1, <2>2
<1> HIDE DEF b
<1>12. Work(b, {n \in Numbers : layout[n] # Bios}, {n \in Numbers : Fills(n)}, MenuNames, Numbers)
  BY <1>9, <1>11, WorkOf
<1> QED BY <1>1, <1>10, <1>12 DEF Body

\* The update of raw images names everything, and writes no partition.
LEMMA UpdateRawNamed ==
  ASSUME job \in JobType, layout = Layout, job.flow = "raw"
  PROVE  \E b : /\ UpdateRawScript = b \o Ending /\ Named(b)
                /\ Ops(b) \subseteq {"inspect", "find", "mount", "stage", "locate", "render"}
<1> DEFINE e == Number(Esp)
           t == <<S("inspect", 0), S("find", e), S("mount", e), S("stage", e), S("locate", e)>>
           r == <<S("render", 0)>>
           b == (t \o Looks) \o r
<1>1. \A op \in OpNames : \A n \in {0, e} : S(op, n) \in Steps
  BY StepTyped, TargetsHold
<1>2. UpdateRawScript = b \o Ending
  BY DEF UpdateRawScript, Looks
<1>3. Work(t, {}, {}, {e}, {}) /\ Ops(t) \subseteq {"inspect", "find", "mount", "stage", "locate"}
  <2>1. t \in Seq(Steps)
    BY <1>1 DEF OpNames
  <2>2. DOMAIN t = 1 .. 5 /\ t[5] = S("locate", e) /\ t[1].op = "inspect" /\ t[2].op = "find" /\ t[3].op = "mount"
        /\ t[4].op = "stage" /\ t[5].op = "locate"
    BY DEF S
  <2> HIDE DEF t
  <2>3. Only(t, {}) /\ Ops(t) \subseteq {"inspect", "find", "mount", "stage", "locate"}
    BY <2>2 DEF Only, Ops
  <2>4. Ends(t, {S("locate", e)}, e, Spoiling)
    BY <2>2 DEF Ends
  <2> QED BY <2>1, <2>3, <2>4 DEF Work
<1>4. Work(Looks, {}, {}, Paid, {}) /\ Ops(Looks) \subseteq {"find", "locate"}
  BY LooksWork, LooksPiece
<1>5. Work(r, {}, {}, {}, {}) /\ Ends(r, {S("render", 0)}, 0, Locating) /\ Ops(r) = {"render"}
  <2>1. S("render", 0) \in Steps
    BY <1>1 DEF OpNames
  <2>2. r \in Seq(Steps)
    BY <2>1
  <2>3. DOMAIN r = {1} /\ r[1] = S("render", 0) /\ r[1].op = "render"
    BY DEF S
  <2> HIDE DEF r
  <2>4. Only(r, {}) /\ Ends(r, {S("render", 0)}, 0, Locating) /\ Ops(r) = {"render"}
    BY <2>3 DEF Only, Ends, Ops
  <2> QED BY <2>2, <2>4 DEF Work
<1>6. \A n \in Numbers : n \in MenuNames => n = e \/ n \in Paid
  <2> SUFFICES ASSUME NEW n \in Numbers, n \in MenuNames PROVE n = e \/ n \in Paid
    OBVIOUS
  <2>1. n = e \/ layout[n][1] = "persist" \/ \E i \in Nat : layout[n] = <<"payload", i>>
    BY Parts
  <2>2. (\E i \in Nat : layout[n] = <<"payload", i>>) => layout[n][1] = "payload"
    OBVIOUS
  <2>3. layout[n][1] # "persist"
    BY DEF MenuNames
  <2> QED BY <2>1, <2>2, <2>3 DEF Paid
<1> HIDE DEF t, e, r
<1>7. Work(t \o Looks, {} \cup {}, {} \cup {}, {e} \cup Paid, {} \cup {})
  BY <1>3, <1>4, WorkJoined
<1>8. Work(b, ({} \cup {}) \cup {}, ({} \cup {}) \cup {}, ({e} \cup Paid) \cup {}, ({} \cup {}) \cup {})
  BY <1>5, <1>7, WorkJoined
<1>9. MenuNames \subseteq ({e} \cup Paid) \cup {}
  BY <1>6 DEF MenuNames
<1>10. /\ t \in Seq(Steps) /\ Looks \in Seq(Steps) /\ t \o Looks \in Seq(Steps) /\ r \in Seq(Steps)
  BY <1>3, <1>4, <1>5, <1>7 DEF Work
<1>11. Ends(b, {S("render", 0)}, 0, Locating)
  BY <1>5, <1>10, EndsJoined
<1>12. Ops(b) \subseteq {"inspect", "find", "mount", "stage", "locate", "render"}
  <2>1. Ops(b) = (Ops(t) \cup Ops(Looks)) \cup Ops(r)
    BY <1>10, OpsJoined
  <2> QED BY <1>3, <1>4, <1>5, <2>1
<1> HIDE DEF b
<1>13. Work(b, {}, {}, MenuNames, Numbers)
  BY <1>8, <1>9, WorkOf
<1> QED BY <1>2, <1>11, <1>12, <1>13 DEF Named


-----------------------------------------------------------------------------
(* The end of a script, and the scripts of every write mode.               *)

\* The last two steps are the menu and the end.
LEMMA EndingIs ==
  /\ Ending \in Seq(Steps) /\ Len(Ending) = 2 /\ DOMAIN Ending = {1, 2}
  /\ Ending[1].op = "config" /\ Ending[2].op = "finalize" /\ Ops(Ending) = {"config", "finalize"}
<1> DEFINE a == S("config", MenuPart)
           b == S("finalize", 0)
<1>1. a \in Steps /\ a.op = "config" /\ b \in Steps /\ b.op = "finalize"
  BY StepTyped, TargetsHold DEF OpNames
<1>2. Ending = <<a, b>>
  BY DEF Ending
<1> HIDE DEF a, b
<1>3. <<a, b>> \in Seq(Steps) /\ Len(<<a, b>>) = 2 /\ DOMAIN <<a, b>> = {1, 2} /\ <<a, b>>[1] = a /\ <<a, b>>[2] = b
  BY <1>1
<1>4. Ops(<<a, b>>) = {a.op, b.op}
  BY <1>1, ShortPiece
<1> QED BY <1>1, <1>2, <1>3, <1>4

\* They undo nothing.
LEMMA EndingSpares ==
  ASSUME NEW t \in Seq(Steps), NEW A, NEW n, NEW bad, bad \in {Spoiling, Resetting, Locating}, Ends(t, A, n, bad)
  PROVE  Ends(t \o Ending, A, n, bad)
<1>1. Ops(Ending) \cap (bad.any \cup bad.own) = {}
  BY EndingIs DEF Spoiling, Resetting, Locating
<1>2. Spares(Ending, n, bad)
  BY <1>1, OpsSpare
<1> QED BY <1>2, EndingIs, EndsJoined

\* A script whose menu comes last but one, after all the identifiers were read.
LEMMA EndingNames ==
  ASSUME NEW t \in Seq(Steps), "config" \notin Ops(t),
         \A n \in MenuNames : Ends(t, {S("locate", n)}, n, Spoiling), Ends(t, {S("render", 0)}, 0, Locating)
  PROVE  Names(t \o Ending)
<1> DEFINE s == t \o Ending
<1>1. /\ s \in Seq(Steps) /\ \A i \in DOMAIN t : i \in DOMAIN s /\ s[i] = t[i]
      /\ \A i \in DOMAIN Ending : Len(t) + i \in DOMAIN s /\ s[Len(t) + i] = Ending[i]
      /\ \A k \in DOMAIN s : k \in DOMAIN t \/ \E i \in DOMAIN Ending : k = Len(t) + i
  BY EndingIs, Joined
<1>2. Len(s) = Len(t) + 2 /\ Len(t) \in Nat /\ DOMAIN t = 1 .. Len(t)
  <2>1. Ending \in Seq(Steps) /\ Len(Ending) = 2
    BY EndingIs
  <2>2. Len(s) = Len(t) + Len(Ending)
    BY <2>1, ConcatProperties
  <2>3. Len(t) \in Nat /\ DOMAIN t = 1 .. Len(t)
    OBVIOUS
  <2> HIDE DEF s
  <2> QED BY <2>1, <2>2, <2>3
<1>3. \A n \in MenuNames : Ends(s, {S("locate", n)}, n, Spoiling)
  BY EndingSpares
<1>4. Ends(s, {S("render", 0)}, 0, Locating)
  BY EndingSpares
<1> HIDE DEF s
<1>5. ASSUME NEW k \in DOMAIN s PROVE s[k].op = "config" <=> k = Len(s) - 1
  <2>1. CASE k \in DOMAIN t
    <3>1. t[k].op # "config" /\ k # Len(t) + 1
      BY <1>2, <2>1 DEF Ops
    <3> QED BY <1>1, <1>2, <2>1, <3>1
  <2>2. CASE k \notin DOMAIN t
    <3>1. k = Len(t) + 1 \/ k = Len(t) + 2
      BY <1>1, <2>2, EndingIs
    <3>2. s[Len(t) + 1].op = "config" /\ s[Len(t) + 2].op = "finalize"
      BY <1>1, EndingIs
    <3> QED BY <1>2, <3>1, <3>2
  <2> QED BY <2>1, <2>2
<1> QED BY <1>3, <1>4, <1>5 DEF Names, s

\* A build: the table, its body, the menu.
LEMMA BodyLeads ==
  ASSUME job \in JobType, layout = Layout, NEW b, Body(b)
  PROVE  Leads((Prelude \o b) \o Ending) /\ Names((Prelude \o b) \o Ending)
<1> DEFINE p == Prelude
           t == p \o b
           s == t \o Ending
<1>1. /\ p \in Seq(Steps) /\ Ops(p) \cap {"config", "stage"} = {}
      /\ \A n \in Numbers : Ends(p, {S("mkpart", n)}, n, Resetting)
  BY PreludeLeads
<1> HIDE DEF p
<1>2. /\ b \in Seq(Steps) /\ Only(b, Numbers) /\ Fed(b)
      /\ \A n \in Numbers : layout[n] # Bios => Ends(b, Making(n, Result(n)), n, Spoiling)
      /\ \A n \in Numbers : Fills(n) => Ends(b, Both("stage", n), n, Spoiling)
      /\ \A n \in MenuNames : Ends(b, {S("locate", n)}, n, Spoiling)
      /\ Ends(b, {S("render", 0)}, 0, Locating)
  BY DEF Body, Work
<1>3. t \in Seq(Steps) /\ Ops(t) = Ops(p) \cup Ops(b)
  BY <1>1, <1>2, OpsJoined
<1>4. "config" \notin Ops(t)
  <2>1. "config" \notin Ops(b)
    BY <1>2 DEF Only, Ops
  <2> QED BY <1>1, <1>3, <2>1
<1>5. ASSUME NEW A, NEW n, NEW bad, Ends(b, A, n, bad) PROVE Ends(t, A, n, bad)
  BY <1>1, <1>2, <1>5, EndsJoined
<1>6. ASSUME NEW n \in Numbers PROVE Ends(t, {S("mkpart", n)}, n, Resetting)
  <2>1. Spares(b, n, Resetting)
    BY <1>2 DEF Only, Spares, Clear, Resetting
  <2> QED BY <1>1, <1>2, <2>1, EndsJoined
<1>7. Fed(t)
  <2>1. Fed(p)
    BY <1>1 DEF Fed, FedBy, Ops
  <2>2. FedBy(b, {n \in Targets : Ends(p, Both("mount", n), n, Dropping)})
    BY <1>2 DEF Fed, FedBy
  <2> QED BY <1>1, <1>2, <2>1, <2>2, FedJoined
<1> HIDE DEF t
<1>8. Fed(s)
  <2>1. FedBy(Ending, {n \in Targets : Ends(t, Both("mount", n), n, Dropping)})
    BY EndingIs DEF FedBy
  <2> QED BY <1>3, <1>7, <2>1, EndingIs, FedJoined
<1>9. ASSUME NEW n \in Numbers
      PROVE  /\ Ends(s, {S("mkpart", n)}, n, Resetting)
             /\ layout[n] # Bios => Ends(s, Making(n, Result(n)), n, Spoiling)
             /\ Fills(n) => Ends(s, Both("stage", n), n, Spoiling)
  <2>1. Ends(s, {S("mkpart", n)}, n, Resetting)
    BY <1>3, <1>6, EndingSpares
  <2>2. layout[n] # Bios => Ends(s, Making(n, Result(n)), n, Spoiling)
    BY <1>2, <1>3, <1>5, EndingSpares
  <2>3. Fills(n) => Ends(s, Both("stage", n), n, Spoiling)
    BY <1>2, <1>3, <1>5, EndingSpares
  <2> QED BY <2>1, <2>2, <2>3
<1>10. Leads(s)
  BY <1>8, <1>9 DEF Leads
<1>11. Names(s)
  BY <1>2, <1>3, <1>4, <1>5, EndingNames
<1> QED BY <1>10, <1>11 DEF s, t, p

\* The script of every plan leads to what the plan asks for.
LEMMA ScriptSound ==
  ASSUME job \in JobType, layout = Layout, script = Script, InPlan
  PROVE  Sound
<1>0. Roled
  <2>1. CASE job.flow = "direct"
    <3>1. layout = <<<<"other", 0>>>>
      BY <2>1 DEF Layout
    <3>2. \A n \in Numbers : layout[n][1] = "other"
      BY <3>1 DEF Numbers
    <3> QED BY <2>1, <3>2 DEF Roled
  <2>2. CASE job.flow # "direct"
    <3>1. ASSUME NEW n \in Numbers PROVE layout[n] = Bios \/ layout[n][1] \in {"esp", "data", "payload", "persist"}
      <4>1. \/ layout[n] = Esp \/ layout[n] = Data \/ layout[n] = Bios \/ layout[n][1] = "persist"
            \/ \E i \in Nat : layout[n] = <<"payload", i>>
        BY <2>2, Parts
      <4>2. (\E i \in Nat : layout[n] = <<"payload", i>>) => layout[n][1] = "payload"
        OBVIOUS
      <4> QED BY <4>1, <4>2 DEF Esp, Data
    <3> QED BY <2>2, <3>1 DEF Roled
  <2> QED BY <2>1, <2>2
<1>1. CASE job.flow = "direct"
  <2>1. script = DirectScript /\ ~job.update
    BY <1>1 DEF Script, InPlan
  <2>2. script[Len(script)].op = "dddisk"
    <3> DEFINE a == S("inspect", 0)
               b == S("release", 0)
               c == S("dddisk", 0)
    <3>1. c.op = "dddisk" /\ script = <<a, b, c>>
      BY <2>1 DEF DirectScript, S
    <3> HIDE DEF a, b, c
    <3>2. Len(<<a, b, c>>) = 3 /\ <<a, b, c>>[3] = c
      OBVIOUS
    <3> QED BY <3>1, <3>2
  <2>3. Ops(script) \subseteq {"inspect", "release", "dddisk"}
    BY <2>1, DirectShaped
  <2> QED BY <1>0, <1>1, <2>1, <2>2, <2>3 DEF Sound
<1>2. CASE job.flow # "direct" /\ ~job.update
  <2>1. job.flow \in {"single", "managed", "shared", "raw"}
    BY <1>2 DEF JobType
  <2>2. \E b : script = (Prelude \o b) \o Ending /\ Body(b)
    <3>1. CASE job.flow = "single"
      <4>1. script = SingleScript
        BY <1>2, <3>1 DEF Script
      <4> QED BY <3>1, <4>1, SingleBody
    <3>2. CASE job.flow = "managed"
      <4>1. script = ManagedScript
        BY <1>2, <3>2 DEF Script
      <4> QED BY <3>2, <4>1, ManagedBody
    <3>3. CASE job.flow = "shared"
      <4>1. script = SharedScript
        BY <1>2, <3>3 DEF Script
      <4> QED BY <3>3, <4>1, SharedBody
    <3>4. CASE job.flow = "raw"
      <4>1. script = RawScript
        BY <1>2, <3>4 DEF Script
      <4> QED BY <3>4, <4>1, RawBody
    <3> QED BY <2>1, <3>1, <3>2, <3>3, <3>4
  <2>3. PICK b : script = (Prelude \o b) \o Ending /\ Body(b)
    BY <2>2
  <2>4. Leads(script) /\ Names(script)
    BY <2>3, BodyLeads
  <2> QED BY <1>2, <1>0, <2>4 DEF Sound
<1>3. CASE job.flow # "direct" /\ job.update
  <2>1. job.flow = "raw" /\ script = UpdateRawScript
    BY <1>3 DEF InPlan, Script
  <2>2. PICK b : /\ script = b \o Ending /\ Named(b)
                 /\ Ops(b) \subseteq {"inspect", "find", "mount", "stage", "locate", "render"}
    BY <2>1, UpdateRawNamed
  <2>3. b \in Seq(Steps) /\ (\A n \in MenuNames : Ends(b, {S("locate", n)}, n, Spoiling))
        /\ Ends(b, {S("render", 0)}, 0, Locating)
    BY <2>2 DEF Named, Work
  <2>4. Names(script)
    BY <2>2, <2>3, EndingNames
  <2>5. Touches(script)
    <3>1. Ops(script) = Ops(b) \cup Ops(Ending)
      BY <2>2, <2>3, EndingIs, OpsJoined
    <3> QED BY <2>2, <3>1, EndingIs DEF Touches
  <2> QED BY <1>3, <1>0, <2>4, <2>5 DEF Sound
<1> QED BY <1>1, <1>2, <1>3


-----------------------------------------------------------------------------
(* What stands at the end of the script is the finished stick.             *)

\* A run starts with a sound script, and with nothing done.
LEMMA InitLeads == ASSUME Init, InPlan PROVE FInv
<1>1. job \in Jobs /\ job \in JobType /\ layout = Layout /\ script = Script /\ at = 1 /\ phase = "run"
  BY BoundsAssumption DEF Init
<1>2. OnScript
  BY InitKept DEF IInv
<1>4. Sound
  BY <1>1, ScriptSound
<1>5. StickInv
  BY <1>1, <1>2, <1>4 DEF Init, StickInv, MenuNames
<1>6. Standing
  BY <1>1, <1>2, <1>4, NothingStands
<1> QED BY <1>5, <1>6 DEF FInv

\* Every step keeps what the script has led to.
LEMMA StepLeads == ASSUME FInv, [Next]_vars PROVE FInv'
<1>1. CASE Next
  <2>1. CASE Unattended
    BY <2>1, ReleaseLeads, PartitionLeads, FormatLeads, FillLeads, OthersLead DEF Unattended
  <2>2. CASE AskPassphrase \/ Kill \/ Desktop
    BY <2>2, OthersLead
  <2>3. CASE RunAgain
    BY <2>3, RunAgainLeads
  <2> QED BY <1>1, <2>1, <2>2, <2>3 DEF Next
<1>2. CASE UNCHANGED vars
  BY <1>2, OutsideLeads DEF vars, Ours
<1> QED BY <1>1, <1>2

\* What a partition is to hold is what a build makes of it.
LEMMA WantedIs ==
  ASSUME job \in JobType, Roled, job.flow # "direct", ~job.update, NEW n \in Numbers
  PROVE  /\ layout[n] = Bios => Wanted(n) = content[n] /\ ~Filled(n)
         /\ layout[n] # Bios => /\ Result(n) \in Results /\ Wanted(n) = Result(n)
                                /\ Filled(n) => Fills(n)
<1>1. layout[n][1] \in {"esp", "data", "payload", "persist"} \/ layout[n] = Bios
  BY DEF Roled
<1>2. layout[n] = Bios => layout[n][1] = "bios"
  BY DEF Bios
<1>3. CASE layout[n] = Bios
  BY <1>2, <1>3 DEF Wanted, Filled
<1>4. CASE layout[n][1] \in {"esp", "data", "payload", "persist"}
  <2>1. job.payload \in {"raw-iso", "store"}
    BY DEF JobType
  <2>2. Result(n) \in Results /\ Wanted(n) = Result(n)
    BY <1>4 DEF Result, Results, Wanted
  <2>3. Filled(n) => Fills(n)
    BY <1>4, <2>1 DEF Wanted, Filled, Fills
  <2> QED BY <1>2, <1>4, <2>2, <2>3
<1> QED BY <1>1, <1>3, <1>4

\* When the script is over, everything it led to stands.
LEMMA StickFinished == ASSUME FInv PROVE FinishedStick
<1> SUFFICES ASSUME phase = "done"
             PROVE  /\ \A n \in Numbers : content[n] = Wanted(n)
                    /\ job.flow # "direct" =>
                         /\ Numbers \subseteq table
                         /\ {n \in Numbers : Filled(n)} \subseteq staged
                         /\ MenuNames \subseteq menu
  BY DEF FinishedStick
<1>1. /\ StickInv /\ job \in JobType /\ Roled /\ Sound /\ at = Len(script)
      /\ (\A n \in Numbers : Stands(n)) /\ (job.flow # "direct" => MenuNames \subseteq menu)
  BY BoundsAssumption DEF FInv, StickInv, Standing, OnScript, Sound
<1>2. CASE job.update
  BY <1>1, <1>2 DEF StickInv, Wanted
<1>3. CASE ~job.update /\ job.flow = "direct"
  <2>2. \A n \in Numbers : layout[n][1] = "other"
    BY <1>1, <1>3 DEF Roled
  <2> QED BY <1>1, <1>3, <2>2 DEF StickInv, Wanted
<1>4. CASE ~job.update /\ job.flow # "direct"
  <2>1. ASSUME NEW n \in Numbers
        PROVE  content[n] = Wanted(n) /\ n \in table /\ (Filled(n) => n \in staged)
    <3>1. /\ Ends(script, {S("mkpart", n)}, n, Resetting)
          /\ layout[n] # Bios => Ends(script, Making(n, Result(n)), n, Spoiling)
          /\ Fills(n) => Ends(script, Both("stage", n), n, Spoiling)
      BY <1>1, <1>4 DEF Sound, Leads
    <3>2. /\ \A s \in {S("mkpart", n)} : s.op # "finalize"
          /\ \A s \in Making(n, Result(n)) : s.op # "finalize"
          /\ \A s \in Both("stage", n) : s.op # "finalize"
      BY DEF Making, Both, S, L
    <3>3. Since({S("mkpart", n)}, n, Resetting)
      BY <1>1, <1>4, <3>1, <3>2, AtTheEnd
    <3>4. layout[n] # Bios => Since(Making(n, Result(n)), n, Spoiling)
      BY <1>1, <1>4, <3>1, <3>2, AtTheEnd
    <3>5. Fills(n) => Since(Both("stage", n), n, Spoiling)
      BY <1>1, <1>4, <3>1, <3>2, AtTheEnd
    <3>6. /\ layout[n] = Bios => Wanted(n) = content[n] /\ ~Filled(n)
          /\ layout[n] # Bios => Result(n) \in Results /\ Wanted(n) = Result(n) /\ (Filled(n) => Fills(n))
      BY <1>1, <1>4, WantedIs
    <3>7. Stands(n)
      BY <1>1
    <3>8. n \in table
      BY <3>3, <3>7 DEF Stands
    <3>9. Filled(n) => n \in staged
      BY <1>4, <3>5, <3>6, <3>7 DEF Stands
    <3>10. content[n] = Wanted(n)
      BY <3>4, <3>6, <3>7 DEF Stands
    <3> QED BY <3>8, <3>9, <3>10
  <2> QED BY <1>1, <1>4, <2>1
<1> QED BY <1>2, <1>3, <1>4


-----------------------------------------------------------------------------
(* Every run that succeeds has a finished stick.                           *)

\* Every build, and every update of several raw images, starts on a plan that leads to its end.
\* What such a run leads to stays so whatever happens; a run keeps its plan.
LEMMA StickInvariance == Spec => [](FInv \/ ~InPlan)
<1> DEFINE Inv == FInv \/ ~InPlan
<1>1. Init => Inv
  BY InitLeads
<1>2. ~InPlan /\ [Next]_vars => ~InPlan'
  <2> SUFFICES ASSUME [Next]_vars PROVE job' = job
    BY DEF InPlan
  <2> QED
    BY DEF Next, vars, Unattended, Release, ReleaseMounts, CheckUse, Scrub, ResetTable, RecheckUse, MakeLabel,
           Partition, MakePartition, WaitForPartition, Format, Prepare, Wipe, Make, WriteDisk, LuksFormat,
           CloseMapping, OpenMapping, Fill, Inspect, Find, Mount, Unmount, Stage, Locate, Render, WriteMenu,
           Finalize, Fail, Exit, CleanupLuks, Leave, AskPassphrase, Kill, RunAgain, Desktop, Automount, Hold,
           LetGo, given, control, device, host, files
<1>3. Inv /\ [Next]_vars => Inv'
  BY <1>2, StepLeads
<1> QED BY <1>1, <1>3, PTL DEF Spec

\* A build that succeeds, or an update of several raw images, leaves the stick the
\* plan describes: every partition there and holding what its role asks for,
\* everything to be filled filled after it was last made, and a menu that names
\* every partition the systems boot from.
THEOREM FinishedSticks == Spec => []FinishedStick
<1>1. FInv \/ ~InPlan => FinishedStick
  BY StickFinished DEF InPlan, FinishedStick
<1> QED BY <1>1, StickInvariance, PTL
==============================================================================
