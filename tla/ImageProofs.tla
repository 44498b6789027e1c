----------------------------- MODULE ImageProofs ----------------------------
(***************************************************************************)
(* The source images: the download cache, for any number of processes,     *)
(* URLs, file names, publications and faults, and what a finished rebuild  *)
(* of an installer or live image is, for every image and plan.             *)
(***************************************************************************)
EXTENDS DownloadCache, IsoRebuild, WellFoundedInduction, SequenceTheorems, FiniteSetTheorems, TLAPS

(* The download cache. *)

\* No payload is ever partial: only its own temporary file is.
Files == [state : {"none", "empty", "whole"}, from : Urls \cup {NoUrl}, version : Nat]
Resolving == {"lookup", "resolve"}
Deciding == {"compare", "reuse"}
Fetching == {"fetch", "replace", "check", "truncate", "record"}
Labels == {"idle", "config", "returned"} \cup Resolving \cup Deciding \cup Fetching
Calls ==
  [pc : Labels,
   expected : Configs \cup {NoUrl}, since : Nat, configured : Configs \cup {NoUrl},
   cached : Names \cup {NoName}, url : Urls \cup {NoUrl}, byManifest : BOOLEAN,
   temp : Files, result : Files, resultUrl : Urls \cup Configs \cup {NoUrl}]

TypeOK ==
  /\ config \in Configs
  /\ version \in Versions
  /\ payload \in [Names -> Files]
  /\ sidecar \in [Names -> Urls \cup {NoUrl}]
  /\ order \in Seq(Names)
  /\ call \in [Procs -> Calls]
  /\ faults \in Nat

\* Every file of the directory has its place in the order of modification.
Listed ==
  \A n \in Names : payload[n].state # "none" => \E i \in DOMAIN order : order[i] = n

\* What a call knows at each place.  A reviewed call goes on with the URL it was
\* reviewed with, and never reuses the payload of an unresolved moving alias.
Placed(c, now) ==
  /\ c.pc \in Resolving \cup Deciding \cup Fetching \cup {"returned"} =>
       c.configured \in Configs /\ c.expected \in {NoUrl, c.configured}
  /\ c.pc \in Deciding => c.cached \in Names
  /\ c.pc \in {"compare"} \cup Fetching \/ (c.pc = "reuse" /\ c.expected # NoUrl) =>
       c.url \in Urls /\ (c.configured # Alias => c.url = c.configured /\ ~c.byManifest)
  /\ c.pc = "reuse" /\ c.expected # NoUrl => c.configured \notin Moving
  /\ c.since <= now

CallsPlaced == \A p \in Procs : Placed(call[p], version)

\* While calls follow one another at most one is under way, ...
OneAtATime == ~overlapped => \A p, q \in Procs : Running(p) /\ Running(q) => p = q

\* ... and nothing changes between what it does and what it sees: file f is what
\* call c has fetched from its URL, after it began.
Fetched(c, f) ==
  f.state = "whole" /\ f.from = c.url /\ (c.url \in Moving => f.version >= c.since)

Undisturbed(c) ==
  /\ c.pc \in {"resolve"} \cup Deciding /\ c.cached # NoName => payload[c.cached].state = "whole"
  /\ c.pc = "reuse" /\ c.expected # NoUrl => sidecar[c.cached] = c.url
  /\ c.pc = "replace" => c.temp.state = "empty" \/ Fetched(c, c.temp)
  /\ c.pc = "check" => payload[NameOf[c.url]].state = "empty" \/ Fetched(c, payload[NameOf[c.url]])
  /\ c.pc \in {"truncate", "record"} => Fetched(c, payload[NameOf[c.url]])

CallsUndisturbed == ~overlapped => \A p \in Procs : Undisturbed(call[p])

\* Between a rename and the end of the old sidecar, and only then, a payload may
\* stand beside the URL of another.
Pairing(c, n) == c.pc \in {"check", "truncate"} /\ NameOf[c.url] = n
Paired ==
  ~overlapped /\ faults = 0 => \A n \in Names :
    payload[n].state = "whole" /\ sidecar[n] # NoUrl /\ (\A p \in Procs : ~Pairing(call[p], n))
    => payload[n].from = sidecar[n]

CacheInv == TypeOK /\ Listed /\ CallsPlaced /\ OneAtATime /\ CallsUndisturbed /\ Paired
        /\ ReviewedCallsHonoured

-----------------------------------------------------------------------------
\* Sets of positions have a first one.
LEMMA Least ==
  ASSUME NEW T \in SUBSET Nat, T # {}
  PROVE  \E x \in T : \A y \in T : x <= y
<1> DEFINE Less == {p \in Nat \X Nat : p[1] < p[2]}
<1>1. IsWellFoundedOn(Less, Nat)
  BY NatLessThanWellFounded DEF OpToRel
<1>2. PICK x \in T : \A y \in T : ~(<<y, x>> \in Less)
  BY <1>1, WFMin
<1>3. ASSUME NEW y \in T PROVE x <= y
  <2>1. x \in Nat /\ y \in Nat /\ (y < x => <<y, x>> \in Less)
    OBVIOUS
  <2> QED BY <1>2, <2>1
<1> QED BY <1>3

\* Moving a name to the front of a sequence loses no other name.
LEMMA MovedToFront ==
  ASSUME NEW S, NEW s \in Seq(S), NEW n \in S
  PROVE  LET t == <<n>> \o RemoveFirst(s, n)
         IN  /\ t \in Seq(S)
             /\ t[1] = n /\ 1 \in DOMAIN t
             /\ \A j \in DOMAIN s : \E k \in DOMAIN t : t[k] = s[j]
<1> DEFINE r == RemoveFirst(s, n)
<1>1. r \in Seq(S) /\ \A j \in DOMAIN s : s[j] # n => \E k \in DOMAIN r : r[k] = s[j]
  <2>1. CASE ~\E i \in 1 .. Len(s) : s[i] = n
    BY <2>1 DEF RemoveFirst
  <2>2. CASE \E i \in 1 .. Len(s) : s[i] = n
    <3> DEFINE I == {i \in 1 .. Len(s) : s[i] = n}
    <3> DEFINE i == SelectInSeq(s, LAMBDA v : v = n)
    <3>1. I # {} /\ I \in SUBSET Nat
      BY <2>2
    <3>2. \E x \in I : \A y \in I : x <= y
      BY <3>1, Least
    <3>3. i = CHOOSE x \in I : \A y \in I : x <= y
      BY <3>1 DEF SelectInSeq, Min
    <3>4. i \in 1 .. Len(s) /\ s[i] = n
      BY <3>2, <3>3
    <3> DEFINE a == SubSeq(s, 1, i - 1)
               b == SubSeq(s, i + 1, Len(s))
    <3>5. r = a \o b
      BY <2>2 DEF RemoveFirst, RemoveAt
    <3> HIDE DEF i
    <3>6. Len(s) \in Nat /\ \A k \in 1 .. Len(s) : s[k] \in S
      OBVIOUS
    <3>7. a \in Seq(S) /\ Len(a) = i - 1 /\ \A k \in 1 .. i - 1 : a[k] = s[k]
      <4>1. \A k \in 1 .. i - 1 : s[k] \in S
        BY <3>4, <3>6
      <4>2. 1 \in Int /\ i - 1 \in Int
        BY <3>4, <3>6
      <4>3. a \in Seq(S) /\ Len(a) = (IF 1 <= i - 1 THEN (i - 1) - 1 + 1 ELSE 0)
            /\ \A k \in 1 .. (i - 1) - 1 + 1 : a[k] = s[1 + k - 1]
        BY <4>1, <4>2, SubSeqProperties
      <4> HIDE DEF a
      <4> QED BY <4>3, <3>4, <3>6
    <3>8. b \in Seq(S) /\ Len(b) = Len(s) - i /\ \A k \in 1 .. Len(s) - i : b[k] = s[i + k]
      <4>1. \A k \in i + 1 .. Len(s) : s[k] \in S
        BY <3>4, <3>6
      <4>2. i + 1 \in Int /\ Len(s) \in Int
        BY <3>4, <3>6
      <4>3. b \in Seq(S) /\ Len(b) = (IF i + 1 <= Len(s) THEN Len(s) - (i + 1) + 1 ELSE 0)
            /\ \A k \in 1 .. Len(s) - (i + 1) + 1 : b[k] = s[i + 1 + k - 1]
        BY <4>1, <4>2, SubSeqProperties
      <4> HIDE DEF b
      <4>4. \A k \in 1 .. Len(s) - i : i + 1 + k - 1 = i + k
        BY <3>4, <3>6
      <4>5. Len(s) - (i + 1) + 1 = Len(s) - i
        BY <3>4, <3>6
      <4>6. \A k \in 1 .. Len(s) - i : b[k] = s[i + k]
        BY <4>3, <4>4, <4>5
      <4> QED BY <4>3, <4>6, <3>4, <3>6
    <3> HIDE DEF a, b, r
    <3>9. r \in Seq(S) /\ Len(r) = Len(a) + Len(b)
          /\ \A k \in 1 .. Len(a) + Len(b) : r[k] = IF k <= Len(a) THEN a[k] ELSE b[k - Len(a)]
      <4>1. /\ a \o b \in Seq(S) /\ Len(a \o b) = Len(a) + Len(b)
            /\ \A k \in 1 .. Len(a) + Len(b) :
                 (a \o b)[k] = IF k <= Len(a) THEN a[k] ELSE b[k - Len(a)]
        BY <3>7, <3>8, ConcatProperties
      <4> QED BY <4>1, <3>5
    <3>10. ASSUME NEW j \in DOMAIN s, s[j] # n PROVE \E k \in DOMAIN r : r[k] = s[j]
      <4>1. CASE j < i
        <5>1. j \in DOMAIN r /\ j <= Len(a) /\ j \in 1 .. i - 1 /\ j \in 1 .. Len(a) + Len(b)
          BY <4>1, <3>4, <3>6, <3>7, <3>8, <3>9
        <5>2. r[j] = s[j]
          BY <5>1, <3>7, <3>9
        <5> QED BY <5>1, <5>2
      <4>2. CASE j > i
        <5>1. j - 1 \in DOMAIN r /\ ~(j - 1 <= Len(a))
          BY <4>2, <3>4, <3>6, <3>7, <3>8, <3>9
        <5>2. r[j - 1] = b[(j - 1) - Len(a)]
          BY <5>1, <3>9
        <5>3. (j - 1) - Len(a) = j - i /\ j - i \in 1 .. Len(s) - i /\ i + (j - i) = j
          BY <4>2, <3>4, <3>6, <3>7
        <5>4. r[j - 1] = s[j]
          BY <5>2, <5>3, <3>8
        <5> QED BY <5>1, <5>4
      <4> QED BY <4>1, <4>2, <3>4, <3>6, <3>10
    <3> QED BY <3>9, <3>10
  <2> QED BY <2>1, <2>2
<1> HIDE DEF r
<1> DEFINE t == <<n>> \o r
<1>2. <<n>> \in Seq(S) /\ Len(<<n>>) = 1 /\ <<n>>[1] = n
  OBVIOUS
<1>3. t \in Seq(S) /\ Len(t) = 1 + Len(r)
      /\ \A k \in 1 .. 1 + Len(r) : t[k] = IF k <= 1 THEN <<n>>[k] ELSE r[k - 1]
  BY <1>1, <1>2, ConcatProperties
<1> HIDE DEF t
<1>4. ASSUME NEW j \in DOMAIN s PROVE \E k \in DOMAIN t : t[k] = s[j]
  <2>1. CASE s[j] = n
    BY <2>1, <1>1, <1>2, <1>3
  <2>2. CASE s[j] # n
    <3>1. PICK k \in DOMAIN r : r[k] = s[j]
      BY <2>2, <1>1
    <3>2. k + 1 \in 1 .. 1 + Len(r) /\ ~(k + 1 <= 1) /\ (k + 1) - 1 = k
      BY <3>1, <1>1
    <3> QED BY <3>1, <3>2, <1>1, <1>3
  <2> QED BY <2>1, <2>2
<1>5. t[1] = n /\ 1 \in DOMAIN t
  BY <1>1, <1>2, <1>3
<1> QED BY <1>3, <1>4, <1>5 DEF t, r

-----------------------------------------------------------------------------
\* The newest payload, when there is one, is one.
LEMMA NewestStands ==
  ASSUME TypeOK, Listed, Newest # NoName
  PROVE  Newest \in Candidates
<1> DEFINE I == {i \in DOMAIN order : order[i] \in Candidates}
<1>1. Candidates # {}
  BY DEF Newest
<1>2. I # {} /\ I \in SUBSET Nat
  BY <1>1 DEF Candidates, Listed, TypeOK
<1>3. PICK i \in I : \A j \in I : i <= j
  BY <1>2, Least
<1>4. \A j \in 1 .. i - 1 : j \in DOMAIN order /\ j \notin I
  BY <1>3, <1>2 DEF TypeOK
<1>5. \E k \in DOMAIN order : order[k] \in Candidates /\ \A j \in 1 .. k - 1 : order[j] \notin Candidates
  BY <1>3, <1>4
<1> QED BY <1>1, <1>5 DEF Newest

\* A call may only answer with a whole file.
LEMMA CandidatesWhole ==
  ASSUME TypeOK, NEW n \in Candidates
  PROVE  n \in Names /\ payload[n].state = "whole"
BY DEF TypeOK, Candidates, Files

\* One call changes at a time.
LEMMA OneCallSet ==
  ASSUME TypeOK, NEW p \in Procs, NEW new, Set(p, new)
  PROVE  /\ call'[p] = new
         /\ \A q \in Procs : q # p => call'[q] = call[q]
         /\ new \in Calls => call' \in [Procs -> Calls]
BY DEF Set, TypeOK

\* The absence of a call and of a file have their types, and that of a call its place.
LEMMA NoCallPlaced ==
  /\ NoCall \in Calls /\ NoFile \in Files
  /\ version \in Nat => Placed(NoCall, version)
<1>1. NoFile \in Files
  BY DEF NoFile, Files
<1>2. NoCall \in Calls
  BY <1>1 DEF NoCall, Calls, Labels
<1>3. version \in Nat => Placed(NoCall, version)
  BY DEF NoCall, Placed, Resolving, Deciding, Fetching
<1> QED BY <1>1, <1>2, <1>3

\* Every step of a call leads to a place whose knowledge it has.
LEMMA CallSteps ==
  ASSUME TypeOK, Listed, CallsPlaced, NEW p \in Procs, Step(p) \/ Begin(p) \/ Die(p)
  PROVE  \E new \in Calls : Set(p, new) /\ Placed(new, version)
<1> DEFINE c == call[p]
<1>1. c \in Calls /\ Placed(c, version) /\ version \in Nat /\ config \in Configs
  BY UrlsAssumption DEF TypeOK, CallsPlaced, Versions
<1>2. Fail(p) => \E new \in Calls : Set(p, new) /\ Placed(new, version)
  BY <1>1, NoCallPlaced DEF Fail
<1> USE DEF At, Resolving, Deciding, Fetching
<1>3. CASE Begin(p)
  <2>1. PICK e \in Configs \cup {NoUrl} :
          Set(p, [NoCall EXCEPT !.pc = "config", !.expected = e,
                                !.since = IF e \in Moving THEN version ELSE 0])
    BY <1>3 DEF Begin
  <2> DEFINE new == [NoCall EXCEPT !.pc = "config", !.expected = e,
                                   !.since = IF e \in Moving THEN version ELSE 0]
  <2>2. new \in Calls
    <3>1. (IF e \in Moving THEN version ELSE 0) \in Nat
      BY <1>1
    <3>2. "config" \in Labels
      BY DEF Labels
    <3> QED BY <3>1, <3>2, NoCallPlaced, Zenon DEF Calls
  <2>4. new.pc = "config" /\ new.since <= version
    BY <1>1, SMT DEF NoCall
  <2>5. Placed(new, version)
    BY <2>4 DEF Placed
  <2> QED BY <2>1, <2>2, <2>5
<1>4. CASE Die(p)
  BY <1>4, <1>2 DEF Die, Fail, Set
<1>5. CASE ReadConfig(p)
  <2> DEFINE new == [c EXCEPT !.pc = "lookup", !.configured = config]
  <2>2. CASE c.expected \in {NoUrl, config}
    <3>1. Set(p, new)
      BY <1>5, <2>2 DEF ReadConfig
    <3>2. new \in Calls
      BY <1>1 DEF Calls, Labels
    <3>3. Placed(new, version)
      BY <2>2, <1>1 DEF Placed, Calls, Labels
    <3> QED BY <3>1, <3>2, <3>3
  <2>3. CASE c.expected \notin {NoUrl, config}
    BY <2>3, <1>5, <1>2 DEF ReadConfig
  <2> QED BY <2>2, <2>3
<1>6. CASE Lookup(p)
  <2> DEFINE new == [c EXCEPT !.cached = Newest,
                              !.pc = IF c.expected = NoUrl /\ Newest # NoName
                                     THEN "reuse" ELSE "resolve"]
  <2>1. Set(p, new) /\ c.pc = "lookup"
    BY <1>6 DEF Lookup, worldVars
  <2>2. Newest \in Names \cup {NoName}
    BY NewestStands DEF Candidates
  <2>3. new \in Calls
    <3> DEFINE next == IF c.expected = NoUrl /\ Newest # NoName THEN "reuse" ELSE "resolve"
    <3>1. next \in Labels
      BY DEF Labels
    <3> HIDE DEF next
    <3>2. [c EXCEPT !.cached = Newest, !.pc = next] \in Calls
      BY <1>1, <2>2, <3>1, Zenon DEF Calls
    <3> QED BY <3>2 DEF next
  <2>4. Placed(new, version)
    <3> HIDE DEF Newest
    <3>1. new.pc = "reuse" => new.expected = NoUrl /\ new.cached \in Names
      BY <2>2, <1>1 DEF Calls, Labels
    <3>2. /\ new.pc \in {"reuse", "resolve"} /\ new.configured = c.configured
          /\ new.expected = c.expected /\ new.since = c.since
      BY <1>1 DEF Calls, Labels
    <3> HIDE DEF new
    <3> QED BY <3>1, <3>2, <1>1, <2>1 DEF Placed
  <2> QED BY <2>1, <2>3, <2>4
<1>7. CASE Resolve(p)
  <2> DEFINE byManifest == c.configured = Alias
             url == IF byManifest THEN ReleaseAt[version] ELSE c.configured
             new == [c EXCEPT !.pc = IF c.cached = NoName THEN "fetch" ELSE "compare",
                              !.url = url, !.byManifest = byManifest]
  <2>1. c.pc = "resolve"
    BY <1>7 DEF Resolve, worldVars
  <2>2. CASE Set(p, new)
    <3>1. c.configured \in Configs
      BY <1>1, <2>1 DEF Placed
    <3>2. url \in Urls
      BY <3>1, UrlsAssumption DEF TypeOK
    <3>3. byManifest \in BOOLEAN
      OBVIOUS
    <3>4. new \in Calls
      <4> DEFINE next == IF c.cached = NoName THEN "fetch" ELSE "compare"
      <4>1. next \in Labels
        BY DEF Labels
      <4> HIDE DEF url, byManifest, next
      <4>2. [c EXCEPT !.pc = next, !.url = url, !.byManifest = byManifest] \in Calls
        BY <1>1, <3>2, <3>3, <4>1, Zenon DEF Calls
      <4> QED BY <4>2 DEF next
    <3>5. /\ new.pc \in {"fetch", "compare"} /\ (new.pc = "compare" => c.cached # NoName)
          /\ new.url = url /\ new.byManifest = byManifest /\ new.cached = c.cached
          /\ new.configured = c.configured /\ new.expected = c.expected /\ new.since = c.since
      <4> HIDE DEF url, byManifest
      <4> QED BY <1>1 DEF Calls, Labels
    <3>6. c.cached \in Names \cup {NoName}
      BY <1>1 DEF Calls, Labels
    <3>7. Placed(new, version)
      <4>1. new.configured # Alias => new.url = new.configured /\ ~new.byManifest
        BY <3>5
      <4> HIDE DEF new, url, byManifest
      <4> QED BY <4>1, <3>2, <3>5, <3>6, <1>1, <2>1 DEF Placed
    <3> QED BY <2>2, <3>4, <3>7
  <2>3. CASE Fail(p)
    BY <2>1, <2>3, <1>2
  <2> QED BY <2>2, <2>3, <1>7 DEF Resolve
<1>8. CASE Compare(p)
  <2> DEFINE again == sidecar[c.cached] = c.url /\ (c.byManifest \/ c.url \notin Moving)
             new == [c EXCEPT !.pc = IF again THEN "reuse" ELSE "fetch"]
  <2>1. Set(p, new) /\ c.pc = "compare"
    BY <1>8 DEF Compare, Go, worldVars
  <2>2. new \in Calls
    BY <1>1 DEF Calls, Labels
  <2>3. c.configured \in Moving => c.configured # Alias
    BY UrlsAssumption
  <2>4. again => c.configured \notin Moving
    BY <2>1, <2>3, <1>1 DEF Placed
  <2>5. /\ new.pc = (IF again THEN "reuse" ELSE "fetch")
        /\ new.url = c.url /\ new.byManifest = c.byManifest /\ new.cached = c.cached
        /\ new.configured = c.configured /\ new.expected = c.expected /\ new.since = c.since
    <3> HIDE DEF again
    <3> QED BY <1>1 DEF Calls, Labels
  <2>6. Placed(new, version)
    <3> HIDE DEF new, again
    <3> QED BY <2>1, <2>4, <2>5, <1>1 DEF Placed
  <2> QED BY <2>1, <2>2, <2>6
<1>9. CASE Reuse(p)
  <2> DEFINE resultUrl == IF sidecar[c.cached] = NoUrl THEN c.configured ELSE sidecar[c.cached]
             new == [c EXCEPT !.pc = "returned", !.result = payload[c.cached],
                              !.cached = NoName, !.resultUrl = resultUrl]
  <2>1. Set(p, new) /\ c.pc = "reuse"
    BY <1>9 DEF Reuse, worldVars
  <2>2. c.cached \in Names /\ c.configured \in Configs
    BY <2>1, <1>1 DEF Placed
  <2>3. payload[c.cached] \in Files /\ resultUrl \in Urls \cup Configs \cup {NoUrl}
    BY <2>2 DEF TypeOK
  <2>4. new \in Calls
    <3> HIDE DEF resultUrl
    <3> QED BY <1>1, <2>3 DEF Calls, Labels
  <2>5. Placed(new, version)
    <3>1. /\ new.pc = "returned" /\ new.configured = c.configured
          /\ new.expected = c.expected /\ new.since = c.since
      <4> HIDE DEF resultUrl
      <4> QED BY <1>1 DEF Calls, Labels
    <3> HIDE DEF new
    <3> QED BY <3>1, <2>1, <1>1 DEF Placed
  <2> QED BY <2>1, <2>4, <2>5
<1>10. CASE Fetch(p)
  <2>1. c.pc = "fetch"
    BY <1>10 DEF Fetch, worldVars
  <2>2. ASSUME NEW f \in Files, Set(p, [c EXCEPT !.pc = "replace", !.temp = f])
        PROVE  \E new \in Calls : Set(p, new) /\ Placed(new, version)
    <3> DEFINE new == [c EXCEPT !.pc = "replace", !.temp = f]
    <3>1. new \in Calls
      BY <1>1 DEF Calls, Labels
    <3>2. Placed(new, version)
      BY <1>1, <2>1 DEF Placed, Calls, Labels
    <3> QED BY <2>2, <3>1, <3>2
  <2>3. Bytes(c.url) \in Files /\ [NoFile EXCEPT !.state = "empty"] \in Files
    <3>1. c.url \in Urls
      BY <1>1, <2>1 DEF Placed
    <3>2. Bytes(c.url) \in Files
      BY <3>1, <1>1 DEF Bytes, Files
    <3> QED BY <3>2 DEF Files, NoFile
  <2> QED BY <2>1, <2>2, <2>3, <1>2, <1>10 DEF Fetch
<1>11. CASE Replace(p)
  <2> DEFINE new == [c EXCEPT !.pc = "check", !.temp = NoFile]
  <2>1. Set(p, new) /\ c.pc = "replace"
    BY <1>11 DEF Replace, worldVars
  <2>2. new \in Calls
    BY <1>1, NoCallPlaced DEF Calls, Labels
  <2>3. Placed(new, version)
    BY <2>1, <1>1 DEF Placed, Calls, Labels
  <2> QED BY <2>1, <2>2, <2>3
<1>12. CASE CheckPayload(p)
  <2> DEFINE new == [c EXCEPT !.pc = "truncate"]
  <2>1. (Set(p, new) \/ Fail(p)) /\ c.pc = "check"
    BY <1>12 DEF CheckPayload, Go, worldVars
  <2>2. new \in Calls
    BY <1>1 DEF Calls, Labels
  <2>3. Placed(new, version)
    BY <2>1, <1>1 DEF Placed, Calls, Labels
  <2> QED BY <2>1, <2>2, <2>3, <1>2
<1>13. CASE TruncateSidecar(p)
  <2> DEFINE new == [c EXCEPT !.pc = "record"]
  <2>1. (Set(p, new) \/ Fail(p)) /\ c.pc = "truncate"
    BY <1>13 DEF TruncateSidecar, Go
  <2>2. new \in Calls
    BY <1>1 DEF Calls, Labels
  <2>3. Placed(new, version)
    BY <2>1, <1>1 DEF Placed, Calls, Labels
  <2> QED BY <2>1, <2>2, <2>3, <1>2
<1>14. CASE RecordUrl(p)
  <2> DEFINE f == payload[NameOf[c.url]]
             new == [c EXCEPT !.pc = "returned", !.cached = NoName, !.result = f,
                              !.resultUrl = c.url]
  <2>1. Set(p, new) /\ c.pc = "record"
    BY <1>14 DEF RecordUrl, worldVars
  <2>2. c.url \in Urls
    BY <2>1, <1>1 DEF Placed
  <2>3. f \in Files
    BY <2>2 DEF TypeOK, Names
  <2>4. new \in Calls
    <3> HIDE DEF f
    <3> QED BY <1>1, <2>2, <2>3 DEF Calls, Labels
  <2>5. Placed(new, version)
    <3> HIDE DEF f
    <3> QED BY <2>1, <1>1 DEF Placed, Calls, Labels
  <2> QED BY <2>1, <2>4, <2>5
<1> QED
  BY <1>3, <1>4, <1>5, <1>6, <1>7, <1>8, <1>9, <1>10, <1>11, <1>12, <1>13, <1>14 DEF Step

Calling(p) == Step(p) \/ Begin(p) \/ Die(p)

\* Which step changes which part of the state.
LEMMA CacheSteps ==
  ASSUME TypeOK, NEW p \in Procs, Calling(p)
  PROVE  /\ config' = config /\ version' = version
         /\ faults' \in Nat /\ (faults' = 0 => faults = 0)
         /\ Replace(p) \/ (payload' = payload /\ order' = order)
         /\ TruncateSidecar(p) \/ RecordUrl(p) \/ sidecar' = sidecar
         /\ Begin(p) \/ overlapped' = overlapped
         /\ Begin(p) \/ Running(p)
<1> USE DEF worldVars, cacheVars
<1>1. faults \in Nat
  BY DEF TypeOK
<1>2. CASE ReadConfig(p)
  BY <1>1, <1>2, SMT DEF ReadConfig, Running, At
<1>3. CASE Lookup(p)
  BY <1>1, <1>3, SMT DEF Lookup, Running, At
<1>4. CASE Resolve(p)
  BY <1>1, <1>4, SMT DEF Resolve, Running, At
<1>5. CASE Compare(p)
  BY <1>1, <1>5, SMT DEF Compare, Running, At
<1>6. CASE Reuse(p)
  BY <1>1, <1>6, SMT DEF Reuse, Running, At
<1>7. CASE Fetch(p)
  BY <1>1, <1>7, SMT DEF Fetch, Running, At
<1>8. CASE Replace(p)
  BY <1>1, <1>8, SMT DEF Replace, Running, At
<1>9. CASE CheckPayload(p)
  BY <1>1, <1>9, SMT DEF CheckPayload, Running, At
<1>10. CASE TruncateSidecar(p)
  BY <1>1, <1>10, SMT DEF TruncateSidecar, Running, At
<1>11. CASE RecordUrl(p)
  BY <1>1, <1>11, SMT DEF RecordUrl, Running, At
<1>12. CASE Begin(p)
  BY <1>1, <1>12 DEF Begin
<1>13. CASE Die(p)
  BY <1>1, <1>13, SMT DEF Die
<1> QED
  BY <1>2, <1>3, <1>4, <1>5, <1>6, <1>7, <1>8, <1>9, <1>10, <1>11, <1>12, <1>13 DEF Calling, Step

\* Where the file of a call is.
LEMMA FetchingPlaces ==
  ASSUME TypeOK, CallsPlaced, NEW p \in Procs, call[p].pc \in Fetching
  PROVE  call[p].url \in Urls /\ NameOf[call[p].url] \in Names
BY DEF CallsPlaced, Placed, Fetching, Names

\* The files keep their types while a process works on its call.
LEMMA FilesStayTyped ==
  ASSUME TypeOK, Listed, CallsPlaced, NEW p \in Procs, Calling(p)
  PROVE  /\ payload' \in [Names -> Files] /\ order' \in Seq(Names)
         /\ sidecar' \in [Names -> Urls \cup {NoUrl}]
         /\ Listed'
<1> DEFINE n == NameOf[call[p].url]
<1>1. CASE Replace(p)
  <2>1. n \in Names
    BY <1>1, FetchingPlaces DEF Replace, At, Fetching
  <2>2. /\ payload' = [payload EXCEPT ![n] = call[p].temp]
        /\ order' = <<n>> \o RemoveFirst(order, n) /\ sidecar' = sidecar
    BY <1>1 DEF Replace
  <2>3. call[p].temp \in Files
    BY DEF TypeOK, Calls
  <2>4. /\ order' \in Seq(Names) /\ order'[1] = n /\ 1 \in DOMAIN order'
        /\ \A j \in DOMAIN order : \E k \in DOMAIN order' : order'[k] = order[j]
    <3>1. order \in Seq(Names)
      BY DEF TypeOK
    <3> HIDE DEF n
    <3>2. LET t == <<n>> \o RemoveFirst(order, n)
          IN  /\ t \in Seq(Names)
              /\ t[1] = n /\ 1 \in DOMAIN t
              /\ \A j \in DOMAIN order : \E k \in DOMAIN t : t[k] = order[j]
      BY <2>1, <3>1, MovedToFront
    <3> QED BY <3>2, <2>2
  <2>5. payload' \in [Names -> Files]
    BY <2>1, <2>2, <2>3 DEF TypeOK
  <2>6. ASSUME NEW m \in Names, payload'[m].state # "none"
        PROVE  \E i \in DOMAIN order' : order'[i] = m
    <3>1. CASE m = n
      BY <3>1, <2>4
    <3>2. CASE m # n
      <4>1. payload'[m] = payload[m]
        BY <3>2, <2>1, <2>2 DEF TypeOK
      <4>2. PICK j \in DOMAIN order : order[j] = m
        BY <4>1, <2>6 DEF Listed
      <4> QED BY <4>2, <2>4
    <3> QED BY <3>1, <3>2
  <2> QED BY <2>2, <2>4, <2>5, <2>6 DEF TypeOK, Listed
<1>2. CASE ~Replace(p)
  <2>1. payload' = payload /\ order' = order
    BY <1>2, CacheSteps
  <2>2. sidecar' \in [Names -> Urls \cup {NoUrl}]
    <3>1. CASE TruncateSidecar(p)
      <4>1. sidecar' = sidecar \/ sidecar' = [sidecar EXCEPT ![n] = NoUrl]
        BY <3>1 DEF TruncateSidecar
      <4> QED BY <4>1 DEF TypeOK
    <3>2. CASE RecordUrl(p)
      <4>1. sidecar' = [sidecar EXCEPT ![n] = call[p].url]
        BY <3>2 DEF RecordUrl
      <4> QED BY <4>1 DEF TypeOK, Calls
    <3>3. CASE sidecar' = sidecar
      BY <3>3 DEF TypeOK
    <3> QED BY <3>1, <3>2, <3>3, CacheSteps
  <2> QED BY <2>1, <2>2 DEF TypeOK, Listed
<1> QED BY <1>1, <1>2

Plain == TypeOK /\ Listed /\ CallsPlaced

\* Every step keeps the plain part of the invariant.
LEMMA PlainSteps ==
  ASSUME Plain, [Next]_vars
  PROVE  Plain'
<1> USE DEF Plain
<1>1. CASE UNCHANGED vars
  BY <1>1 DEF vars, TypeOK, Listed, CallsPlaced
<1>2. CASE EditConfig
  BY <1>2 DEF EditConfig, cacheVars, TypeOK, Listed, CallsPlaced
<1>3. CASE PublishUpstream
  <2>1. version \in Nat /\ version' = version + 1 /\ version' \in Versions
    BY <1>3, UrlsAssumption DEF PublishUpstream, TypeOK, Versions
  <2>2. UNCHANGED <<config, faults, payload, sidecar, order, call>>
    BY <1>3 DEF PublishUpstream, cacheVars
  <2>3. TypeOK' /\ Listed'
    BY <2>1, <2>2 DEF TypeOK, Listed
  <2>4. ASSUME NEW q \in Procs PROVE Placed(call'[q], version')
    <3>1. Placed(call[q], version) /\ call[q] \in Calls /\ call'[q] = call[q]
      BY <2>2 DEF TypeOK, CallsPlaced
    <3>2. call[q].since <= version'
      BY <2>1, <3>1, SMT DEF Placed, Calls
    <3> QED BY <3>1, <3>2 DEF Placed
  <2> QED BY <2>3, <2>4 DEF CallsPlaced
<1>4. ASSUME NEW p \in Procs, Calling(p) PROVE Plain'
  <2>1. PICK new \in Calls : Set(p, new) /\ Placed(new, version)
    BY <1>4, CallSteps DEF Calling
  <2>2. TypeOK'
    BY <1>4, <2>1, CacheSteps, FilesStayTyped, OneCallSet DEF TypeOK
  <2>3. Listed'
    BY <1>4, FilesStayTyped
  <2>4. CallsPlaced'
    BY <1>4, <2>1, CacheSteps, OneCallSet DEF CallsPlaced
  <2> QED BY <2>2, <2>3, <2>4
<1> QED BY <1>1, <1>2, <1>3, <1>4 DEF Next, Calling

-----------------------------------------------------------------------------
\* One call at a time.

LEMMA OneAtATimeSteps ==
  ASSUME Plain, OneAtATime, [Next]_vars
  PROVE  OneAtATime'
<1> SUFFICES ASSUME ~overlapped', NEW r \in Procs, NEW q \in Procs, Running(r)', Running(q)'
             PROVE  r = q
  BY DEF OneAtATime
<1>1. CASE UNCHANGED vars \/ EditConfig \/ PublishUpstream
  <2>1. call' = call /\ overlapped' = overlapped
    BY <1>1 DEF vars, EditConfig, PublishUpstream
  <2> QED BY <2>1 DEF OneAtATime, Running
<1>2. ASSUME NEW p \in Procs, Calling(p) PROVE r = q
  <2>1. PICK new \in Calls : Set(p, new)
    BY <1>2, CallSteps DEF Calling, Plain
  <2>2. \A s \in Procs : s # p => call'[s] = call[s]
    BY <2>1, OneCallSet DEF Plain
  <2>3. CASE Begin(p)
    <3>1. ~overlapped /\ ~\E s \in Procs \ {p} : Running(s)
      BY <2>3 DEF Begin
    <3> QED BY <3>1, <2>2 DEF Running
  <2>4. CASE ~Begin(p)
    <3>1. Running(p) /\ ~overlapped
      BY <2>4, <1>2, CacheSteps DEF Plain
    <3>2. \A s \in Procs : s # p => ~Running(s)
      BY <3>1 DEF OneAtATime
    <3> QED BY <3>2, <2>2 DEF Running
  <2> QED BY <2>3, <2>4
<1> QED BY <1>1, <1>2 DEF Next, Calling

\* As long as calls follow one another, a call that takes a step is alone.
LEMMA Alone ==
  ASSUME Plain, OneAtATime, NEW p \in Procs, Calling(p), ~overlapped'
  PROVE  /\ ~overlapped
         /\ call' = [call EXCEPT ![p] = call'[p]] /\ call[p] \in Calls /\ call'[p] \in Calls
         /\ \A q \in Procs : q # p => ~Running(q) /\ call'[q] = call[q]
<1>1. PICK new \in Calls : Set(p, new)
  BY CallSteps DEF Calling, Plain
<1>2. /\ call'[p] = new /\ (\A q \in Procs : q # p => call'[q] = call[q])
      /\ call' = [call EXCEPT ![p] = call'[p]]
  BY <1>1, OneCallSet DEF Plain, Set
<1>3. CASE Begin(p)
  BY <1>2, <1>3 DEF Begin, Plain, TypeOK
<1>4. CASE ~Begin(p)
  BY <1>2, <1>4, CacheSteps DEF OneAtATime, Plain, TypeOK
<1> QED BY <1>3, <1>4

\* Where each step leads.
LEMMA Places ==
  ASSUME Plain, NEW p \in Procs
  PROVE  /\ Begin(p) => call'[p].pc = "config"
         /\ Fail(p) \/ Die(p) => call'[p].pc = "idle"
         /\ ReadConfig(p) => Fail(p) \/ call'[p].pc = "lookup"
         /\ Lookup(p) => call'[p].pc \in {"reuse", "resolve"}
         /\ Resolve(p) => Fail(p) \/ (call'[p].pc \in {"fetch", "compare"} /\ call'[p].cached = call[p].cached)
         /\ Compare(p) => call'[p].pc \in {"reuse", "fetch"}
         /\ Fetch(p) => Fail(p) \/ call'[p].pc = "replace"
         /\ Replace(p) => call'[p].pc = "check"
         /\ CheckPayload(p) => Fail(p) \/ (/\ call'[p].pc = "truncate" /\ call'[p].url = call[p].url
                                          /\ payload[NameOf[call[p].url]].state \notin {"none", "empty"})
         /\ TruncateSidecar(p) => Fail(p) \/ call'[p].pc = "record"
         /\ Reuse(p) \/ RecordUrl(p) => call'[p].pc = "returned"
<1> DEFINE c == call[p]
<1>1. c \in Calls
  BY DEF Plain, TypeOK
<1>2. \A new : Set(p, new) => call'[p] = new
  BY OneCallSet DEF Plain
<1>3. \A l : Go(p, l) => call'[p].pc = l /\ call'[p].url = c.url
  BY <1>1, <1>2 DEF Go, Calls
<1>4. Begin(p) => call'[p].pc = "config"
  BY <1>2 DEF Begin, NoCall
<1>5. Fail(p) \/ Die(p) => call'[p].pc = "idle"
  BY <1>2 DEF Die, Fail, Set, NoCall
<1>6. ReadConfig(p) => Fail(p) \/ call'[p].pc = "lookup"
  BY <1>1, <1>2 DEF ReadConfig, Calls
<1>7. Lookup(p) => call'[p].pc \in {"reuse", "resolve"}
  BY <1>1, <1>2 DEF Lookup, Calls
<1>8. Resolve(p) => Fail(p) \/ (call'[p].pc \in {"fetch", "compare"} /\ call'[p].cached = c.cached)
  <2> DEFINE byManifest == c.configured = Alias
             url == IF byManifest THEN ReleaseAt[version] ELSE c.configured
             next == IF c.cached = NoName THEN "fetch" ELSE "compare"
             new == [c EXCEPT !.pc = next, !.url = url, !.byManifest = byManifest]
  <2>1. Resolve(p) => Fail(p) \/ Set(p, new)
    BY DEF Resolve
  <2>2. new.pc = next /\ new.cached = c.cached
    <3> HIDE DEF byManifest, url, next
    <3> QED BY <1>1 DEF Calls
  <2>3. next \in {"fetch", "compare"}
    OBVIOUS
  <2> HIDE DEF new, next
  <2> QED BY <1>2, <2>1, <2>2, <2>3
<1>9. Compare(p) => call'[p].pc \in {"reuse", "fetch"}
  BY <1>3 DEF Compare
<1>10. Fetch(p) => Fail(p) \/ call'[p].pc = "replace"
  BY <1>1, <1>2 DEF Fetch, Calls
<1>11. Replace(p) => call'[p].pc = "check"
  BY <1>1, <1>2 DEF Replace, Calls
<1>12. CheckPayload(p) => Fail(p) \/ (/\ call'[p].pc = "truncate" /\ call'[p].url = c.url
                                     /\ payload[NameOf[c.url]].state \notin {"none", "empty"})
  BY <1>3 DEF CheckPayload
<1>13. TruncateSidecar(p) => Fail(p) \/ call'[p].pc = "record"
  BY <1>3 DEF TruncateSidecar
<1>14. Reuse(p) \/ RecordUrl(p) => call'[p].pc = "returned"
  <2>1. Reuse(p) => call'[p].pc = "returned"
    BY <1>1, <1>2 DEF Reuse, Calls
  <2>2. RecordUrl(p) => call'[p].pc = "returned"
    BY <1>1, <1>2 DEF RecordUrl, Calls
  <2> QED BY <2>1, <2>2
<1> QED
  BY <1>4, <1>5, <1>6, <1>7, <1>8, <1>9, <1>10, <1>11, <1>12, <1>13, <1>14

\* With one process at a time, no call finds its files changed by another.
LEMMA UndisturbedSteps ==
  ASSUME Plain, OneAtATime, CallsUndisturbed, [Next]_vars
  PROVE  CallsUndisturbed'
<1> SUFFICES ASSUME ~overlapped' PROVE \A q \in Procs : Undisturbed(call[q])'
  BY DEF CallsUndisturbed
<1>1. CASE UNCHANGED vars \/ EditConfig \/ PublishUpstream
  <2>1. UNCHANGED <<payload, sidecar, call, overlapped>>
    BY <1>1 DEF vars, EditConfig, PublishUpstream, cacheVars
  <2> QED BY <2>1 DEF CallsUndisturbed, Undisturbed, Fetched
<1>2. ASSUME NEW p \in Procs, Calling(p) PROVE \A q \in Procs : Undisturbed(call[q])'
  <2> DEFINE c == call[p]
             n == NameOf[c.url]
  <2>1. /\ ~overlapped /\ call' = [call EXCEPT ![p] = call'[p]] /\ c \in Calls
        /\ \A q \in Procs : q # p => ~Running(q) /\ call'[q] = call[q]
    BY <1>2, Alone
  <2>2. \A q \in Procs : q # p => Undisturbed(call[q])'
    BY <2>1 DEF Undisturbed, Running, Deciding
  <2>3. /\ version' = version /\ Undisturbed(c) /\ Placed(c, version)
        /\ Replace(p) \/ payload' = payload
        /\ TruncateSidecar(p) \/ RecordUrl(p) \/ sidecar' = sidecar
    BY <1>2, <2>1, CacheSteps DEF CallsUndisturbed, Plain, CallsPlaced
  <2> USE DEF At, Set, Go, Fail, Deciding
  <2>4. CASE Begin(p) \/ Die(p) \/ ReadConfig(p) \/ Reuse(p) \/ RecordUrl(p)
    <3>1. call'[p].pc \in {"idle", "config", "lookup", "returned"}
      BY <2>4, Places
    <3> QED BY <3>1, <2>2 DEF Undisturbed
  <2>5. CASE Lookup(p)
    <3>1. /\ call'[p].cached = Newest
          /\ call'[p].pc = IF c.expected = NoUrl /\ Newest # NoName THEN "reuse" ELSE "resolve"
          /\ call'[p].expected = c.expected
      BY <2>5, <2>1 DEF Lookup, Plain, TypeOK, Calls
    <3>2. Newest # NoName => payload[Newest].state = "whole"
      BY NewestStands, CandidatesWhole DEF Plain
    <3>3. payload' = payload
      BY <2>5, <2>3 DEF Replace, Lookup
    <3> QED BY <3>1, <3>2, <3>3, <2>2 DEF Undisturbed
  <2>6. CASE Resolve(p)
    <3>1. c.pc = "resolve" /\ payload' = payload
      BY <2>6, <2>3 DEF Replace, Resolve
    <3>2. \/ call'[p].pc \in {"fetch", "compare"} /\ call'[p].cached = c.cached
          \/ call'[p].pc = "idle"
      BY <2>6, Places
    <3> QED BY <3>1, <3>2, <2>2, <2>3 DEF Undisturbed
  <2>7. CASE Compare(p)
    <3>1. c.pc = "compare" /\ payload' = payload /\ sidecar' = sidecar
      BY <2>7 DEF Compare, worldVars, cacheVars
    <3>2. /\ call'[p].pc \in {"fetch", "reuse"} /\ call'[p].cached = c.cached
          /\ call'[p].pc = "reuse" => sidecar[c.cached] = call'[p].url
      BY <2>7, <2>1 DEF Compare, Plain, TypeOK, Calls
    <3> QED BY <3>1, <3>2, <2>2, <2>3 DEF Undisturbed
  <2>8. CASE Fetch(p)
    <3>1. c.pc = "fetch"
      BY <2>8 DEF Fetch
    <3>2. \/ /\ call'[p].pc = "replace" /\ call'[p].url = c.url /\ call'[p].since = c.since
             /\ call'[p].temp.state = "empty" \/ call'[p].temp = Bytes(c.url)
          \/ call'[p].pc = "idle"
      <4>1. CASE Fail(p)
        BY <4>1 DEF NoCall, Plain, TypeOK
      <4>2. CASE Set(p, [c EXCEPT !.pc = "replace", !.temp = Bytes(c.url)])
        <5> HIDE DEF Bytes
        <5> QED BY <4>2, <2>1 DEF Plain, TypeOK, Calls
      <4>3. CASE Set(p, [c EXCEPT !.pc = "replace", !.temp = [NoFile EXCEPT !.state = "empty"]])
        BY <4>3, <2>1 DEF NoFile, Plain, TypeOK, Calls
      <4> QED BY <4>1, <4>2, <4>3, <2>8 DEF Fetch
    <3>3. Fetched(c, Bytes(c.url))
      BY <2>3, <2>1, <3>1, SMT DEF Fetched, Bytes, Placed, Calls
    <3>4. call'[p].pc = "replace" => call'[p].temp.state = "empty" \/ Fetched(call'[p], call'[p].temp)
      BY <3>2, <3>3 DEF Fetched
    <3> QED BY <3>2, <3>4, <2>2 DEF Undisturbed, Fetched
  <2>9. CASE Replace(p)
    <3>1. c.pc = "replace" /\ payload' = [payload EXCEPT ![n] = c.temp] /\ n \in Names
      BY <2>9, FetchingPlaces DEF Replace, Fetching, Plain
    <3>2. payload'[n] = c.temp
      BY <3>1 DEF Plain, TypeOK
    <3>3. call'[p].pc = "check" /\ call'[p].url = c.url /\ call'[p].since = c.since
      BY <2>9, <2>1 DEF Replace, Plain, TypeOK, Calls
    <3>4. c.temp.state = "empty" \/ Fetched(c, c.temp)
      BY <3>1, <2>3 DEF Undisturbed
    <3>5. payload'[NameOf[call'[p].url]] = c.temp
      BY <3>2, <3>3
    <3>6. c.temp.state = "empty" \/ Fetched(call'[p], c.temp)
      BY <3>3, <3>4 DEF Fetched
    <3>7. Undisturbed(call[p])'
      BY <3>3, <3>5, <3>6 DEF Undisturbed, Fetched
    <3> QED BY <3>7, <2>2
  <2>10. CASE CheckPayload(p)
    <3>1. c.pc = "check" /\ payload' = payload
      BY <2>10 DEF CheckPayload, worldVars, cacheVars
    <3>2. \/ /\ call'[p].pc = "truncate" /\ call'[p].url = c.url /\ call'[p].since = c.since
             /\ payload[n].state # "empty"
          \/ call'[p].pc = "idle"
      BY <2>10, <2>1 DEF CheckPayload, NoCall, Plain, TypeOK, Calls
    <3> QED BY <3>1, <3>2, <2>2, <2>3 DEF Undisturbed, Fetched
  <2>11. CASE TruncateSidecar(p)
    <3>1. c.pc = "truncate" /\ payload' = payload
      BY <2>11 DEF TruncateSidecar
    <3>2. \/ call'[p].pc = "record" /\ call'[p].url = c.url /\ call'[p].since = c.since
          \/ call'[p].pc = "idle"
      BY <2>11, <2>1 DEF TruncateSidecar, NoCall, Plain, TypeOK, Calls
    <3> QED BY <3>1, <3>2, <2>2, <2>3 DEF Undisturbed, Fetched
  <2> QED
    BY <1>2, <2>4, <2>5, <2>6, <2>7, <2>8, <2>9, <2>10, <2>11 DEF Calling, Step
<1> QED BY <1>1, <1>2 DEF Next, Calling

\* With one process at a time, a payload and the URL beside it stay a pair.
LEMMA PairedSteps ==
  ASSUME Plain, OneAtATime, CallsUndisturbed, Paired, [Next]_vars
  PROVE  Paired'
<1> SUFFICES ASSUME ~overlapped', faults' = 0, NEW m \in Names,
                    payload'[m].state = "whole", sidecar'[m] # NoUrl,
                    \A q \in Procs : ~Pairing(call'[q], m)
             PROVE  payload'[m].from = sidecar'[m]
  BY DEF Paired, Pairing
<1>1. CASE UNCHANGED vars \/ EditConfig \/ PublishUpstream
  <2>1. UNCHANGED <<payload, sidecar, call, overlapped, faults>>
    BY <1>1 DEF vars, EditConfig, PublishUpstream, cacheVars
  <2> QED BY <2>1 DEF Paired
<1>2. ASSUME NEW p \in Procs, Calling(p) PROVE payload'[m].from = sidecar'[m]
  <2> DEFINE c == call[p]
             n == NameOf[c.url]
  <2>1. /\ ~overlapped /\ faults = 0 /\ Undisturbed(c) /\ c \in Calls
        /\ call' = [call EXCEPT ![p] = call'[p]]
        /\ \A q \in Procs : q # p => ~Running(q) /\ call'[q] = call[q]
    BY <1>2, Alone, CacheSteps DEF CallsUndisturbed, Plain
  <2>2. \A q \in Procs : q # p => ~Pairing(call[q], m)
    BY <2>1 DEF Pairing, Running
  <2>3. ASSUME ~Pairing(c, m), payload'[m] = payload[m], sidecar'[m] = sidecar[m]
        PROVE  payload'[m].from = sidecar'[m]
    BY <2>1, <2>2, <2>3 DEF Paired
  <2>4. c.pc \notin {"check", "truncate"} => ~Pairing(c, m)
    BY DEF Pairing
  <2>5. m # n => ~Pairing(c, m)
    BY DEF Pairing
  <2> USE DEF At, Set, Go, Fail
  <2>6. CASE Begin(p) \/ ReadConfig(p) \/ Lookup(p) \/ Resolve(p) \/ Compare(p) \/ Reuse(p) \/ Fetch(p)
    <3>1. c.pc \notin {"check", "truncate"} /\ payload' = payload /\ sidecar' = sidecar
      BY <2>6 DEF Begin, ReadConfig, Lookup, Resolve, Compare, Reuse, Fetch, worldVars, cacheVars
    <3> QED BY <3>1, <2>3, <2>4
  <2>7. CASE Die(p)
    <3>1. faults' = faults + 1
      BY <2>7 DEF Die
    <3> QED BY <3>1, <2>1
  <2>8. CASE Replace(p)
    <3>1. /\ c.pc = "replace" /\ payload' = [payload EXCEPT ![n] = c.temp] /\ sidecar' = sidecar
      BY <2>8 DEF Replace
    <3>2. call'[p].pc = "check" /\ call'[p].url = c.url
      BY <2>8, <2>1 DEF Replace, Plain, TypeOK, Calls
    <3>3. m # n
      BY <3>2 DEF Pairing
    <3>4. payload'[m] = payload[m]
      BY <3>1, <3>3 DEF Plain, TypeOK
    <3> QED BY <3>1, <3>4, <2>3, <2>4
  <2>9. CASE CheckPayload(p)
    <3>1. c.pc = "check" /\ payload' = payload /\ sidecar' = sidecar
      BY <2>9 DEF CheckPayload, worldVars, cacheVars
    <3>2. Fail(p) \/ (call'[p].pc = "truncate" /\ call'[p].url = c.url)
      BY <2>9, Places
    <3>4. Fail(p) => payload[n].state # "whole"
      <4>1. call'[p].pc = "truncate" => ~Fail(p)
        BY Places
      <4> QED BY <4>1, <2>9, <3>2, <2>1 DEF CheckPayload, Calls, Plain, TypeOK
    <3>3. m # n
      BY <3>1, <3>2, <3>4 DEF Pairing
    <3> QED BY <3>1, <3>3, <2>3, <2>5
  <2>10. CASE TruncateSidecar(p)
    <3>1. payload' = payload /\ (faults' = faults + 1 \/ sidecar' = [sidecar EXCEPT ![n] = NoUrl])
      BY <2>10 DEF TruncateSidecar
    <3>2. sidecar' = [sidecar EXCEPT ![n] = NoUrl]
      BY <3>1, <2>1
    <3>3. m # n /\ sidecar'[m] = sidecar[m]
      BY <3>2 DEF Plain, TypeOK
    <3> QED BY <3>1, <3>3, <2>3, <2>5
  <2>11. CASE RecordUrl(p)
    <3>1. c.pc = "record" /\ payload' = payload /\ sidecar' = [sidecar EXCEPT ![n] = c.url]
      BY <2>11 DEF RecordUrl
    <3>2. CASE m = n
      BY <3>1, <3>2, <2>1 DEF Undisturbed, Fetched, Plain, TypeOK
    <3>3. CASE m # n
      <4>1. sidecar'[m] = sidecar[m]
        BY <3>1, <3>3 DEF Plain, TypeOK
      <4> QED BY <4>1, <3>1, <3>3, <2>3, <2>5
    <3> QED BY <3>2, <3>3
  <2> QED
    BY <1>2, <2>6, <2>7, <2>8, <2>9, <2>10, <2>11 DEF Calling, Step
<1> QED BY <1>1, <1>2 DEF Next, Calling

\* A call gets its answer in two ways, and keeps it until the next one begins.
LEMMA ReviewedSteps ==
  ASSUME Plain, OneAtATime, CallsUndisturbed, Paired, ReviewedCallsHonoured, [Next]_vars
  PROVE  ReviewedCallsHonoured'
<1> DEFINE Exact(c) == /\ c.result.state = "whole" /\ c.result.from = c.resultUrl
                       /\ c.resultUrl = c.url /\ c.configured = c.expected
           Fresh(c) == c.configured \in Moving => c.result.version >= c.since
           Honoured(c) == (faults' = 0 => Exact(c)) /\ Fresh(c)
<1> SUFFICES ASSUME ~overlapped', NEW r \in Procs, Reviewed(r)' PROVE Honoured(call'[r])
  BY DEF ReviewedCallsHonoured, ReviewedBytes, MovingAliasesFresh
<1>1. ASSUME call'[r] = call[r], ~overlapped, faults' = 0 => faults = 0
      PROVE  Honoured(call'[r])
  BY <1>1 DEF ReviewedCallsHonoured, ReviewedBytes, MovingAliasesFresh, Reviewed, Returned
<1>2. CASE UNCHANGED vars \/ EditConfig \/ PublishUpstream
  <2>1. UNCHANGED <<call, overlapped, faults>>
    BY <1>2 DEF vars, EditConfig, PublishUpstream
  <2> QED BY <2>1, <1>1
<1>3. ASSUME NEW p \in Procs, Calling(p) PROVE Honoured(call'[r])
  <2> DEFINE c == call[p]
             n == NameOf[c.url]
  <2>1. /\ ~overlapped /\ (faults' = 0 => faults = 0) /\ c \in Calls
        /\ Undisturbed(c) /\ Placed(c, version)
        /\ call' = [call EXCEPT ![p] = call'[p]]
        /\ \A q \in Procs : q # p => ~Running(q) /\ call'[q] = call[q]
    BY <1>3, Alone, CacheSteps DEF CallsUndisturbed, Plain, CallsPlaced
  <2>2. CASE r # p
    BY <2>1, <2>2, <1>1
  <2> USE DEF At, Set, Go
  <2>3. CASE r = p /\ ~(Reuse(p) \/ RecordUrl(p))
    <3>1. call'[p].pc # "returned"
      BY <2>3, <1>3, Places DEF Calling, Step
    <3> QED BY <3>1, <2>3 DEF Reviewed, Returned
  <2>4. CASE r = p /\ Reuse(p)
    <3>1. c.pc = "reuse"
      BY <2>4 DEF Reuse
    <3>2. /\ call'[p].result = payload[c.cached]
          /\ call'[p].resultUrl = IF sidecar[c.cached] = NoUrl THEN c.configured ELSE sidecar[c.cached]
          /\ call'[p].url = c.url /\ call'[p].configured = c.configured
          /\ call'[p].expected = c.expected
      BY <2>4, <2>1 DEF Reuse, Plain, TypeOK, Calls
    <3>3. c.expected # NoUrl
      BY <3>2, <2>4 DEF Reviewed
    <3>4. /\ c.cached \in Names /\ c.expected = c.configured /\ c.configured \notin Moving
          /\ c.url \in Urls /\ sidecar[c.cached] = c.url /\ payload[c.cached].state = "whole"
      BY <3>1, <3>3, <2>1, UrlsAssumption DEF Undisturbed, Placed, Deciding
    <3>5. \A q \in Procs : ~Pairing(call[q], c.cached)
      BY <3>1, <2>1 DEF Pairing, Running
    <3>6. c.url # NoUrl
      BY <3>4, UrlsAssumption
    <3>7. faults' = 0 => payload[c.cached].from = c.url
      BY <3>4, <3>5, <3>6, <2>1 DEF Paired
    <3> QED BY <3>2, <3>4, <3>6, <3>7, <2>4
  <2>5. CASE r = p /\ RecordUrl(p)
    <3>1. c.pc = "record"
      BY <2>5 DEF RecordUrl
    <3>2. /\ call'[p].result = payload[n] /\ call'[p].resultUrl = c.url
          /\ call'[p].url = c.url /\ call'[p].configured = c.configured
          /\ call'[p].expected = c.expected /\ call'[p].since = c.since
      BY <2>5, <2>1 DEF RecordUrl, Plain, TypeOK, Calls
    <3>3. c.expected # NoUrl
      BY <3>2, <2>5 DEF Reviewed
    <3>4. /\ c.expected = c.configured /\ Fetched(c, payload[n])
          /\ c.configured # Alias => c.url = c.configured
      BY <3>1, <3>3, <2>1 DEF Undisturbed, Placed, Fetching
    <3>5. c.configured \in Moving => c.configured # Alias
      BY UrlsAssumption
    <3> QED BY <3>2, <3>4, <3>5, <2>5 DEF Fetched
  <2> QED BY <2>2, <2>3, <2>4, <2>5
<1> QED BY <1>2, <1>3 DEF Next, Calling

-----------------------------------------------------------------------------

\* Before the first call there is nothing to be wrong.
LEMMA Start == Init => CacheInv
<1> SUFFICES ASSUME Init PROVE CacheInv
  OBVIOUS
<1>1. 0 \in Versions /\ 0 \in Nat
  BY UrlsAssumption DEF Versions
<1>2. TypeOK
  BY <1>1, NoCallPlaced, EmptySeq DEF Init, TypeOK
<1>3. Listed
  BY DEF Init, Listed, NoFile
<1>4. CallsPlaced
  BY <1>1, NoCallPlaced DEF Init, CallsPlaced
<1>5. \A p \in Procs : call[p] = NoCall /\ call[p].pc = "idle" /\ ~Running(p)
  BY DEF Init, NoCall, Running
<1>6. OneAtATime /\ CallsUndisturbed /\ ReviewedCallsHonoured
  BY <1>5 DEF OneAtATime, CallsUndisturbed, Undisturbed, Deciding, ReviewedCallsHonoured, ReviewedBytes,
     MovingAliasesFresh, Reviewed, Returned
<1>7. Paired
  BY DEF Init, Paired
<1> QED BY <1>2, <1>3, <1>4, <1>6, <1>7 DEF CacheInv

\* The cache's inductive invariant.
LEMMA CacheInvariance == Spec => []CacheInv
<1>1. CacheInv /\ [Next]_vars => CacheInv'
  BY PlainSteps, OneAtATimeSteps, UndisturbedSteps, PairedSteps, ReviewedSteps DEF CacheInv, Plain
<1> QED BY Start, <1>1, PTL DEF Spec

\* No caller is handed a truncated download, however many processes, names and
\* deaths there are.
THEOREM CacheWhole == Spec => []OnlyWholePayloads
<1>1. CacheInv => OnlyWholePayloads
  BY DEF CacheInv, TypeOK, Calls, Files, OnlyWholePayloads
<1> QED BY CacheInvariance, <1>1, PTL

\* Calls that follow one another are honoured: a reviewed plan gets the bytes of
\* its URL unless a call was cut short, and a moving alias is never answered with
\* bytes older than the call.
THEOREM CacheHonours == Spec => []ReviewedCallsHonoured
<1>1. CacheInv => ReviewedCallsHonoured
  BY DEF CacheInv
<1> QED BY CacheInvariance, <1>1, PTL

-----------------------------------------------------------------------------
(* The rebuilt image. *)

Modules == Abis \X {"stock", "added"}
Contents == {"request", "policy", "packages", "masks"}
InitrdType == [modules : SUBSET Modules, index : SUBSET Modules, has : SUBSET Contents]
RootType == [abis : SUBSET Abis, has : SUBSET Contents, boot : [Abis -> InitrdType]]
TreeType == [kernel : [Kernels -> Abis], initrd : [Initrds -> InitrdType], rootfs : RootType,
             packages : RootType, extras : SUBSET {"localudebs", "hooks"}]

RebuildTyped ==
  /\ job \in Jobs /\ chosen \in Abis
  /\ iso \in TreeType /\ tree \in InitrdType /\ live \in RootType

Replaces == job.action = "replace-kernel"
Updates == job.action = "update-kernel"
ModuleVersions(t) == {m[1] : m \in t.modules}
Stock(t) == t.initrd = SourceTree(job).initrd

InstallerSteps == {"unpack", "replace", "inject", "depmod", "kernel", "udebs", "repack"}
LiveSteps == {"unsquash", "install", "initramfs", "prune", "kernels", "detect", "initrds", "masks",
              "metadata", "squash"}
Untouched == {"validate", "extract", "unsquash", "install", "initramfs", "prune", "kernels", "detect"}
               \cup (InstallerSteps \ {"udebs", "repack"})
ImageSteps == {"checksums", "unlink", "master", "mastering"}
Finished == {"access", "done"}

\* The installer's tree, and its kernel in the image.
TreeDone(t) == ModuleVersions(t) = {Target} /\ t.index = t.modules /\ "request" \in t.has
InstallerKernel(t) ==
  \A k \in Kernels : t.kernel[k] = IF job.text # {} /\ k = Text.kernel THEN Target ELSE job.abi[k]

\* The live root, and its boot files in the image.
RootDone(r) ==
  /\ chosen \in r.abis /\ {"policy", "packages"} \subseteq r.has
  /\ Replaces => r.abis = {chosen} /\ chosen = job.target
  /\ ~Replaces => \A e \in job.default : chosen = job.abi[e.kernel]
LiveKernels(t) ==
  \A k \in Kernels : t.kernel[k] = IF Replaces /\ \E e \in LiveEntries : e.kernel = k THEN chosen ELSE job.abi[k]
Generated(i) == i.modules = {<<chosen, "stock">>} /\ i.index = i.modules /\ {"policy", "packages"} \subseteq i.has
LiveInitrds(t) ==
  \A i \in Initrds : IF \E e \in LiveEntries : e.initrd = i THEN Generated(t.initrd[i])
                     ELSE t.initrd[i] = SourceTree(job).initrd[i]

\* A tree that is ready to be mastered.
Ready(t) ==
  /\ t.packages = t.rootfs
  /\ job.scope = "d-i" =>
       /\ job.text # {} /\ InstallerKernel(t) /\ TreeDone(t.initrd[Text.initrd])
       /\ \A i \in Initrds \ {Text.initrd} : t.initrd[i] = SourceTree(job).initrd[i]
  /\ job.scope = "live-host" =>
       LiveKernels(t) /\ LiveInitrds(t) /\ RootDone(t.rootfs) /\ "masks" \in t.rootfs.has

Scoped ==
  /\ pc \notin {"validate", "failed", "killed"} => job.scope = ScopeOf(job.action)
  /\ pc \in InstallerSteps => job.scope = "d-i"
  /\ pc \in LiveSteps => job.scope = "live-host"
  /\ pc \in Untouched => iso = SourceTree(job)

InstallerInv ==
  /\ pc \in InstallerSteps \ {"unpack"} => job.text # {}
  /\ pc \in {"replace", "kernel"} => Updates
  /\ pc = "replace" => ModuleVersions(tree) = {Version}
  /\ pc \in {"inject", "depmod"} => ModuleVersions(tree) = {Target}
  /\ pc = "depmod" => "request" \in tree.has
  /\ pc \in {"kernel", "udebs", "repack"} => TreeDone(tree)
  /\ pc \in {"udebs", "repack"} => InstallerKernel(iso) /\ Stock(iso) /\ iso.packages = iso.rootfs

LiveInv ==
  /\ pc \in LiveSteps \ {"unsquash"} => job.default # {}
  /\ pc = "install" => live.abis = SourceRoot(job).abis /\ "policy" \in live.has
  /\ pc \in {"initramfs", "prune", "detect"} =>
       /\ SourceRoot(job).abis \subseteq live.abis /\ {"policy", "packages"} \subseteq live.has
       /\ Replaces => job.target \in live.abis
  /\ pc \in {"prune", "detect"} => \A v \in live.abis : live.boot[v] = Made(v, live.has)
  /\ pc \in {"prune", "kernels"} => Replaces
  /\ pc = "detect" => ~Replaces
  /\ pc \in {"kernels", "initrds"} => live.boot[chosen] = Made(chosen, live.has)
  /\ pc \in {"kernels", "initrds", "masks", "metadata", "squash"} => RootDone(live)
  /\ pc \in {"initrds", "masks", "metadata", "squash"} => LiveKernels(iso)
  /\ pc = "initrds" => Stock(iso)
  /\ pc \in {"masks", "metadata", "squash"} => LiveInitrds(iso)
  /\ pc \in {"metadata", "squash"} => "masks" \in live.has
  /\ pc = "squash" => iso.packages = live

ImageInv ==
  /\ pc \in ImageSteps \cup Finished => Ready(iso)
  /\ pc \in (ImageSteps \ {"checksums"}) \cup Finished => sums = <<iso>>
  /\ pc \in Finished => output = Rebuilt(iso, sums)
  /\ pc \notin (ImageSteps \ {"checksums"}) \cup Finished \cup {"failed", "killed"} => sums = <<>>
  /\ sums = <<>> => output = before

RebuildInv == RebuildTyped /\ Scoped /\ InstallerInv /\ LiveInv /\ ImageInv

-----------------------------------------------------------------------------
(* Facts about the plan and the source image. *)

LEMMA MadeTyped ==
  ASSUME NEW v \in Abis, NEW h \in SUBSET Contents
  PROVE  /\ Made(v, h) \in InitrdType /\ ModuleVersions(Made(v, h)) = {v}
         /\ Made(v, h).modules = {<<v, "stock">>} /\ Made(v, h).index = Made(v, h).modules /\ Made(v, h).has = h
<1>1. Made(v, h) = [modules |-> {<<v, "stock">>}, index |-> {<<v, "stock">>}, has |-> h]
  BY DEF Made
<1>2. {<<v, "stock">>} \in SUBSET Modules
  <2>1. <<v, "stock">> \in Modules
    BY SMT DEF Modules
  <2> QED
    BY <2>1
<1>3. {m[1] : m \in {<<v, "stock">>}} = {v}
  OBVIOUS
<1>4. ModuleVersions(Made(v, h)) = {v}
  BY <1>1, <1>3 DEF ModuleVersions
<1>5. Made(v, h) \in InitrdType
  BY <1>1, <1>2 DEF InitrdType
<1> QED
  BY <1>1, <1>4, <1>5

\* No initrd is an initrd too.
LEMMA NoInitrdTyped == NoInitrd \in InitrdType
BY SMT DEF NoInitrd, InitrdType

\* What a rebuild job has.
LEMMA PlanFacts ==
  ASSUME job \in Jobs
  PROVE  /\ job.abi \in [Kernels -> Abis] /\ job.target \in Abis
         /\ job.scope \in {"d-i", "live-host"}
         /\ \A e \in job.entries : e.kernel \in Kernels /\ e.initrd \in Initrds /\ e.kind \in {"live", "install"}
         /\ LiveEntries \subseteq job.entries
         /\ job.text # {} => /\ job.text = {Text} /\ Text \in job.entries /\ Text.kind = "install"
                             /\ Version \in Abis /\ Target \in Abis
         /\ \A e \in job.default : e \in LiveEntries /\ job.default = {e} /\ The(job.default) = e
         /\ \A d, e \in job.entries :
              /\ d.initrd = e.initrd => job.abi[d.kernel] = job.abi[e.kernel]
              /\ d.kernel = e.kernel \/ d.initrd = e.initrd => d.kind = e.kind
<1>1. job \in JobType
  BY JobsAssumption
<1>2. /\ job.abi \in [Kernels -> Abis] /\ job.target \in Abis /\ job.scope \in {"d-i", "live-host"}
      /\ job.entries \in SUBSET Entry
  BY <1>1 DEF JobType
<1>3. \A e \in job.entries : e.kernel \in Kernels /\ e.initrd \in Initrds /\ e.kind \in {"live", "install"}
  BY <1>2 DEF Entry
<1>4. ASSUME job.text # {}
      PROVE  job.text = {Text} /\ Text \in job.entries /\ Text.kind = "install"
  BY <1>4, JobsAssumption DEF Text, The
<1>5. ASSUME job.text # {} PROVE Version \in Abis /\ Target \in Abis
  BY <1>2, <1>3, <1>4, <1>5 DEF Version, Target
<1>6. ASSUME NEW e \in job.default
      PROVE  e \in LiveEntries /\ job.default = {e} /\ The(job.default) = e
  BY JobsAssumption DEF LiveEntries, The
<1>7. LiveEntries \subseteq job.entries
  BY DEF LiveEntries
<1> QED
  BY <1>2, <1>3, <1>4, <1>5, <1>6, <1>7, ImagesAssumption

\* What the unpacked source image has.
LEMMA SourceFacts ==
  ASSUME job \in Jobs
  PROVE  /\ SourceTree(job) \in TreeType
         /\ SourceTree(job).kernel = job.abi
         /\ SourceTree(job).rootfs = SourceRoot(job) /\ SourceTree(job).packages = SourceRoot(job)
         /\ SourceRoot(job).abis = {job.abi[e.kernel] : e \in LiveEntries}
         /\ \A e \in job.entries : SourceTree(job).initrd[e.initrd] = Made(job.abi[e.kernel], {})
<1>1. /\ SourceTree(job).kernel = job.abi
      /\ SourceTree(job).rootfs = SourceRoot(job) /\ SourceTree(job).packages = SourceRoot(job)
      /\ SourceTree(job).extras = {}
  BY Zenon DEF SourceTree
<1>2. SourceRoot(job).abis = {job.abi[e.kernel] : e \in LiveEntries}
  BY Zenon DEF SourceRoot, LiveEntries
<1>3. SourceRoot(job) \in RootType
  <2>1. {job.abi[e.kernel] : e \in LiveEntries} \in SUBSET Abis
    BY PlanFacts
  <2>2. [v \in Abis |-> NoInitrd] \in [Abis -> InitrdType]
    BY NoInitrdTyped
  <2>3. SourceRoot(job) = [abis |-> {job.abi[e.kernel] : e \in LiveEntries}, has |-> {},
                           boot |-> [v \in Abis |-> NoInitrd]]
    BY Zenon DEF SourceRoot, LiveEntries
  <2> QED
    BY <2>1, <2>2, <2>3 DEF RootType
<1> DEFINE users(i) == {e \in job.entries : e.initrd = i}
           of(i) == IF users(i) = {} THEN NoInitrd ELSE Made(job.abi[The(users(i)).kernel], {})
<1>4. SourceTree(job).initrd = [i \in Initrds |-> of(i)]
  BY Zenon DEF SourceTree
<1>5. ASSUME NEW i \in Initrds PROVE of(i) \in InitrdType
  <2>1. CASE users(i) = {}
    BY <2>1, NoInitrdTyped
  <2>2. CASE users(i) # {}
    <3>1. The(users(i)) \in users(i)
      BY <2>2 DEF The
    <3>2. job.abi[The(users(i)).kernel] \in Abis
      BY <3>1, PlanFacts
    <3> QED
      BY <2>2, <3>2, MadeTyped
  <2> QED
    BY <2>1, <2>2
<1>6. ASSUME NEW e \in job.entries PROVE SourceTree(job).initrd[e.initrd] = Made(job.abi[e.kernel], {})
  <2>1. e \in users(e.initrd) /\ e.initrd \in Initrds
    BY PlanFacts
  <2>2. The(users(e.initrd)) \in users(e.initrd)
    BY <2>1 DEF The
  <2>3. job.abi[The(users(e.initrd)).kernel] = job.abi[e.kernel]
    BY <2>2, PlanFacts
  <2> QED
    BY <1>4, <2>1, <2>3
<1>7. SourceTree(job) \in TreeType
  <2>1. [i \in Initrds |-> of(i)] \in [Initrds -> InitrdType]
    BY <1>5
  <2>2. SourceTree(job) = [kernel |-> job.abi, initrd |-> [i \in Initrds |-> of(i)], rootfs |-> SourceRoot(job),
                           packages |-> SourceRoot(job), extras |-> {}]
    BY Zenon DEF SourceTree
  <2> HIDE DEF of
  <2>3. job.abi \in [Kernels -> Abis]
    BY PlanFacts
  <2> QED
    BY <1>3, <2>1, <2>2, <2>3 DEF TreeType
<1> QED
  BY <1>1, <1>2, <1>6, <1>7

-----------------------------------------------------------------------------

\* A rebuild starts with nothing in hand.
LEMMA RebuildStarts == RebuildInit => RebuildInv
<1> SUFFICES ASSUME RebuildInit PROVE RebuildInv
  OBVIOUS
<1> USE DEF RebuildInit
<1>1. job \in Jobs /\ pc = "validate" /\ chosen \in Abis /\ sums = <<>> /\ output = before
  BY PlanFacts
<1>2. NoRoot \in RootType /\ tree \in InitrdType
  BY NoInitrdTyped, SMT DEF NoRoot, RootType
<1>a. live \in RootType /\ iso \in TreeType
  BY <1>1, <1>2, SourceFacts
<1>3. RebuildTyped
  BY <1>1, <1>2, <1>a DEF RebuildTyped
<1>4. Scoped /\ InstallerInv /\ LiveInv /\ ImageInv
  BY <1>1 DEF Scoped, InstallerInv, LiveInv, ImageInv, InstallerSteps, LiveSteps, Untouched, ImageSteps, Finished
<1> QED
  BY <1>3, <1>4 DEF RebuildInv

\* Changes of one field keep an initrd, a root or an image what it is.
LEMMA InitrdFields ==
  ASSUME NEW t \in InitrdType
  PROVE  /\ t.modules \in SUBSET Modules /\ t.index \in SUBSET Modules /\ t.has \in SUBSET Contents
         /\ \A m \in SUBSET Modules :
              /\ [t EXCEPT !.modules = m] \in InitrdType /\ [t EXCEPT !.modules = m].modules = m
              /\ [t EXCEPT !.modules = m].has = t.has
         /\ \A m \in SUBSET Modules :
              /\ [t EXCEPT !.index = m] \in InitrdType /\ [t EXCEPT !.index = m].index = m
              /\ [t EXCEPT !.index = m].modules = t.modules /\ [t EXCEPT !.index = m].has = t.has
         /\ \A h \in SUBSET Contents, m \in SUBSET Modules :
              LET n == [t EXCEPT !.has = h, !.modules = m]
              IN  n \in InitrdType /\ n.has = h /\ n.modules = m
BY Zenon DEF InitrdType

\* The fields of a live root after one of them is replaced.
LEMMA RootFields ==
  ASSUME NEW r \in RootType
  PROVE  /\ r.abis \in SUBSET Abis /\ r.has \in SUBSET Contents /\ r.boot \in [Abis -> InitrdType]
         /\ \A h \in SUBSET Contents :
              /\ [r EXCEPT !.has = h] \in RootType /\ [r EXCEPT !.has = h].has = h
              /\ [r EXCEPT !.has = h].abis = r.abis /\ [r EXCEPT !.has = h].boot = r.boot
         /\ \A b \in [Abis -> InitrdType] :
              /\ [r EXCEPT !.boot = b] \in RootType /\ [r EXCEPT !.boot = b].boot = b
              /\ [r EXCEPT !.boot = b].abis = r.abis /\ [r EXCEPT !.boot = b].has = r.has
         /\ \A a \in SUBSET Abis, b \in [Abis -> InitrdType] :
              LET n == [r EXCEPT !.abis = a, !.boot = b]
              IN  n \in RootType /\ n.abis = a /\ n.boot = b /\ n.has = r.has
         /\ \A h \in SUBSET Contents, a \in SUBSET Abis, b \in [Abis -> InitrdType] :
              LET n == [r EXCEPT !.has = h, !.abis = a, !.boot = b]
              IN  n \in RootType /\ n.abis = a /\ n.boot = b /\ n.has = h
BY Zenon DEF RootType

\* The fields of the unpacked image after one of them is replaced.
LEMMA TreeFields ==
  ASSUME NEW t \in TreeType
  PROVE  /\ t.kernel \in [Kernels -> Abis] /\ t.initrd \in [Initrds -> InitrdType]
         /\ t.rootfs \in RootType /\ t.packages \in RootType /\ t.extras \in SUBSET {"localudebs", "hooks"}
         /\ \A k \in [Kernels -> Abis] : LET n == [t EXCEPT !.kernel = k] IN
              /\ n \in TreeType /\ n.kernel = k /\ n.initrd = t.initrd /\ n.rootfs = t.rootfs /\ n.packages = t.packages
         /\ \A k, v : LET n == [t EXCEPT !.kernel[k] = v] IN
              /\ n.kernel = [t.kernel EXCEPT ![k] = v] /\ n.initrd = t.initrd /\ n.rootfs = t.rootfs
              /\ n.packages = t.packages /\ (n.kernel \in [Kernels -> Abis] => n \in TreeType)
         /\ \A i, v : LET n == [t EXCEPT !.initrd[i] = v] IN
              /\ n.initrd = [t.initrd EXCEPT ![i] = v] /\ n.kernel = t.kernel /\ n.rootfs = t.rootfs
              /\ n.packages = t.packages /\ (n.initrd \in [Initrds -> InitrdType] => n \in TreeType)
         /\ \A x \in SUBSET {"localudebs", "hooks"} : LET n == [t EXCEPT !.extras = x] IN
              /\ n \in TreeType /\ n.kernel = t.kernel /\ n.initrd = t.initrd /\ n.rootfs = t.rootfs
              /\ n.packages = t.packages
         /\ \A x \in SUBSET {"localudebs", "hooks"}, i \in [Initrds -> InitrdType] :
              LET n == [t EXCEPT !.extras = x, !.initrd = i] IN
              /\ n \in TreeType /\ n.kernel = t.kernel /\ n.initrd = i /\ n.rootfs = t.rootfs
              /\ n.packages = t.packages
         /\ \A r \in RootType : LET n == [t EXCEPT !.packages = r] IN
              /\ n \in TreeType /\ n.kernel = t.kernel /\ n.initrd = t.initrd /\ n.rootfs = t.rootfs
              /\ n.packages = r
         /\ \A r \in RootType : LET n == [t EXCEPT !.rootfs = r] IN
              /\ n \in TreeType /\ n.kernel = t.kernel /\ n.initrd = t.initrd /\ n.rootfs = r
              /\ n.packages = t.packages
BY Zenon DEF TreeType

-----------------------------------------------------------------------------
(* The steps: what does not touch the work, the installer's, the live system's *)
(* and the image's.                                                            *)

\* Readiness is a fact of the tree, the plan and the version chosen.
LEMMA ReadyKept ==
  ASSUME job' = job, chosen' = chosen, iso' = iso
  PROVE  Ready(iso)' <=> Ready(iso)
<1>1. /\ Replaces' = Replaces /\ LiveEntries' = LiveEntries /\ Text' = Text /\ Target' = Target
  BY DEF Replaces, LiveEntries, Text, Target, Version
<1>2. InstallerKernel(iso)' <=> InstallerKernel(iso)
  BY <1>1 DEF InstallerKernel
<1>3. LiveKernels(iso)' <=> LiveKernels(iso)
  BY <1>1 DEF LiveKernels
<1>4. LiveInitrds(iso)' <=> LiveInitrds(iso)
  BY <1>1 DEF LiveInitrds, Generated
<1>5. RootDone(iso.rootfs)' <=> RootDone(iso.rootfs)
  BY <1>1 DEF RootDone
<1>6. TreeDone(iso.initrd[Text.initrd])' <=> TreeDone(iso.initrd[Text.initrd])
  BY <1>1 DEF TreeDone, ModuleVersions
<1> QED
  BY <1>1, <1>2, <1>3, <1>4, <1>5, <1>6 DEF Ready

\* The steps before and after the work on the image.
LEMMA EndSteps ==
  ASSUME RebuildInv, Validate \/ Extract \/ StepFails \/ Kill \/ Report \/ UNCHANGED rebuildVars
  PROVE  RebuildInv'
<1> USE DEF InstallerSteps, LiveSteps, Untouched, ImageSteps, Finished, Goto, given, workVars
<1>1. /\ job' = job /\ iso' = iso /\ tree' = tree /\ live' = live /\ chosen' = chosen
      /\ sums' = sums /\ output' = output /\ before' = before
  BY DEF Validate, Extract, StepFails, Kill, Report, rebuildVars
<1>2. RebuildTyped'
  BY <1>1 DEF RebuildInv, RebuildTyped
<1>3. CASE UNCHANGED rebuildVars
  <2> USE <1>1, <1>3 DEF RebuildInv, rebuildVars
  <2>1. Scoped'
    BY DEF Scoped
  <2>2. InstallerInv'
    BY DEF InstallerInv, TreeDone, InstallerKernel, Stock, ModuleVersions, Target, Text, Version, Updates
  <2>3. LiveInv'
    BY DEF LiveInv, Stock, LiveKernels, LiveInitrds, RootDone, Generated, LiveEntries, Replaces
  <2>4. ImageInv'
    BY ReadyKept DEF ImageInv
  <2> QED
    BY <1>2, <2>1, <2>2, <2>3, <2>4
<1>4. CASE Validate
  BY <1>1, <1>2, <1>4 DEF RebuildInv, Validate, Scoped, InstallerInv, LiveInv, ImageInv
<1>5. CASE Extract
  <2>1. pc = "extract" /\ pc' = IF job.scope = "d-i" THEN "unpack" ELSE "unsquash"
    BY <1>5 DEF Extract
  <2>2. job.scope \in {"d-i", "live-host"} /\ job.scope = ScopeOf(job.action) /\ iso = SourceTree(job)
        /\ sums = <<>> /\ (sums = <<>> => output = before)
    BY <2>1, PlanFacts DEF RebuildInv, RebuildTyped, Scoped, ImageInv
  <2> QED
    BY <1>1, <1>2, <2>1, <2>2 DEF RebuildInv, Scoped, InstallerInv, LiveInv, ImageInv
<1>6. CASE StepFails \/ Kill
  BY <1>1, <1>2, <1>6 DEF RebuildInv, StepFails, Kill, Scoped, InstallerInv, LiveInv, ImageInv
<1>7. CASE Report
  <2>1. pc = "access" /\ pc' = "done"
    BY <1>7 DEF Report
  <2>2. /\ Ready(iso)' /\ sums' = <<iso'>> /\ output' = Rebuilt(iso', sums')
        /\ sums' # <<>> /\ job'.scope = ScopeOf(job'.action)
    BY <1>1, <2>1, ReadyKept DEF RebuildInv, ImageInv, Scoped
  <2> QED
    BY <1>2, <2>1, <2>2 DEF RebuildInv, Scoped, InstallerInv, LiveInv, ImageInv
<1> QED
  BY <1>3, <1>4, <1>5, <1>6, <1>7

\* The work on the installer's initrd.
LEMMA TreeSteps ==
  ASSUME RebuildInv, UnpackInstaller \/ ReplaceTree \/ InjectUdebs \/ Depmod
  PROVE  RebuildInv'
<1> USE DEF InstallerSteps, LiveSteps, Untouched, ImageSteps, Finished, Goto, given
<1>1. /\ job' = job /\ iso' = iso /\ live' = live /\ chosen' = chosen
      /\ sums' = sums /\ output' = output /\ before' = before
  BY DEF UnpackInstaller, ReplaceTree, InjectUdebs, Depmod
<1>2. /\ job \in Jobs /\ iso = SourceTree(job) /\ job.scope = "d-i" /\ job.scope = ScopeOf(job.action)
      /\ sums = <<>> /\ output = before /\ tree \in InitrdType
  BY DEF UnpackInstaller, ReplaceTree, InjectUdebs, Depmod, RebuildInv, RebuildTyped, Scoped, ImageInv
<1>3. job.text # {}
  BY DEF UnpackInstaller, ReplaceTree, InjectUdebs, Depmod, RebuildInv, InstallerInv
<1>4. /\ Text' = Text /\ Version' = Version /\ Target' = Target /\ Updates' = Updates
      /\ Version \in Abis /\ Target \in Abis /\ Text \in job.entries
      /\ (~Updates => Target = Version) /\ (Updates => Target = job.target)
  BY <1>1, <1>2, <1>3, PlanFacts DEF Text, Version, Target, Updates
<1>5. pc' \in {"replace", "inject", "depmod", "kernel", "udebs"}
  BY DEF UnpackInstaller, ReplaceTree, InjectUdebs, Depmod
<1>6. ASSUME tree' \in InitrdType, InstallerInv' PROVE RebuildInv'
  <2>1. RebuildTyped'
    BY <1>1, <1>2, <1>6, SourceFacts DEF RebuildInv, RebuildTyped
  <2>2. Scoped' /\ LiveInv' /\ ImageInv'
    BY <1>1, <1>2, <1>5 DEF Scoped, LiveInv, ImageInv
  <2> QED
    BY <1>6, <2>1, <2>2 DEF RebuildInv
<1>7. CASE UnpackInstaller
  <2>1. tree' = Made(Version, {})
    BY <1>2, <1>4, <1>7, SourceFacts DEF UnpackInstaller, Version
  <2>2. tree' \in InitrdType /\ ModuleVersions(tree') = {Version}
    BY <1>4, <2>1, MadeTyped
  <2>3. pc' = IF Updates THEN "replace" ELSE "inject"
    BY <1>7 DEF UnpackInstaller, Updates
  <2>4. InstallerInv'
    BY <1>1, <1>3, <1>4, <2>2, <2>3 DEF InstallerInv, ModuleVersions
  <2> QED
    BY <1>6, <2>2, <2>4
<1>8. CASE ReplaceTree
  <2> DEFINE m == {x \in tree.modules : x[1] # Version} \cup {<<job.target, "stock">>}
  <2>1. ModuleVersions(tree) = {Version} /\ Updates /\ tree' = [tree EXCEPT !.modules = m] /\ pc' = "inject"
    BY <1>8 DEF ReplaceTree, RebuildInv, InstallerInv
  <2>2. m \in SUBSET Modules
    <3>1. job.target \in Abis
      BY <1>2, PlanFacts
    <3>2. <<job.target, "stock">> \in Modules
      BY <3>1, SMT DEF Modules
    <3> QED
      BY <1>2, <3>2, InitrdFields
  <2>3. m = {<<job.target, "stock">>}
    BY <2>1 DEF ModuleVersions
  <2> HIDE DEF m
  <2>4. tree' \in InitrdType /\ tree'.modules = m
    BY <1>2, <2>1, <2>2, Zenon DEF InitrdType
  <2>a. {x[1] : x \in {<<job.target, "stock">>}} = {job.target}
    OBVIOUS
  <2>5. ModuleVersions(tree') = {Target}
    BY <1>4, <2>1, <2>3, <2>4, <2>a DEF ModuleVersions
  <2>6. InstallerInv'
    BY <1>1, <1>3, <1>4, <2>1, <2>5 DEF InstallerInv, ModuleVersions
  <2> QED
    BY <1>6, <2>4, <2>6
<1>9. CASE InjectUdebs
  <2> DEFINE h == tree.has \cup {"request"}
             m == IF job.action = "add-udeb-packages" THEN tree.modules ELSE tree.modules \cup {<<Target, "added">>}
  <2>1. ModuleVersions(tree) = {Target} /\ tree' = [tree EXCEPT !.has = h, !.modules = m] /\ pc' = "depmod"
    BY <1>9 DEF InjectUdebs, RebuildInv, InstallerInv
  <2>2. m \in SUBSET Modules
    <3>1. <<Target, "added">> \in Modules
      BY <1>4, SMT DEF Modules
    <3> QED
      BY <1>2, <3>1, InitrdFields
  <2>3. h \in SUBSET Contents
    BY <1>2, InitrdFields DEF Contents
  <2>a. {x[1] : x \in m} = {Target} /\ "request" \in h
    BY <2>1 DEF ModuleVersions
  <2> HIDE DEF m, h
  <2>4. tree' \in InitrdType /\ tree'.modules = m /\ tree'.has = h
    BY <1>2, <2>1, <2>2, <2>3, Zenon DEF InitrdType
  <2>5. ModuleVersions(tree') = {Target}
    BY <2>4, <2>a DEF ModuleVersions
  <2>6. InstallerInv'
    BY <1>1, <1>3, <1>4, <2>1, <2>4, <2>5, <2>a DEF InstallerInv, ModuleVersions
  <2> QED
    BY <1>6, <2>4, <2>6
<1>10. CASE Depmod
  <2> DEFINE m == {x \in tree.modules : x[1] = Target}
  <2>1. /\ ModuleVersions(tree) = {Target} /\ "request" \in tree.has /\ tree' = [tree EXCEPT !.index = m]
        /\ pc' = IF Updates THEN "kernel" ELSE "udebs"
    BY <1>10 DEF Depmod, RebuildInv, InstallerInv, Updates
  <2>2. m = tree.modules /\ m \in SUBSET Modules
    <3>1. \A x \in tree.modules : x[1] \in ModuleVersions(tree)
      BY Zenon DEF ModuleVersions
    <3>2. \A x \in tree.modules : x[1] = Target
      BY <2>1, <3>1
    <3>3. m = tree.modules
      BY <3>2
    <3> QED
      BY <1>2, <3>3, InitrdFields
  <2> HIDE DEF m
  <2>3. tree' \in InitrdType /\ tree'.index = m /\ tree'.modules = tree.modules /\ tree'.has = tree.has
    BY <1>2, <2>1, <2>2, Zenon DEF InitrdType
  <2>4. TreeDone(tree)'
    BY <1>4, <2>1, <2>2, <2>3 DEF TreeDone, ModuleVersions
  <2>5. ~Updates => InstallerKernel(iso)
    BY <1>2, <1>4, SourceFacts DEF InstallerKernel, Version
  <2>6. ~Updates => InstallerKernel(iso)' /\ Stock(iso)' /\ iso'.packages = iso'.rootfs
    BY <1>1, <1>2, <1>4, <2>5, SourceFacts DEF InstallerKernel, Stock
  <2>7. InstallerInv'
    BY <1>1, <1>3, <1>4, <2>1, <2>4, <2>6 DEF InstallerInv
  <2> QED
    BY <1>6, <2>3, <2>7
<1> QED
  BY <1>7, <1>8, <1>9, <1>10

\* The installer's files in the image.
LEMMA InstallSteps ==
  ASSUME RebuildInv, InstallKernel \/ StageUdebs \/ RepackInstaller
  PROVE  RebuildInv'
<1> USE DEF InstallerSteps, LiveSteps, Untouched, ImageSteps, Finished, Goto, given, workVars
<1>1. /\ job' = job /\ tree' = tree /\ live' = live /\ chosen' = chosen
      /\ sums' = sums /\ output' = output /\ before' = before
  BY DEF InstallKernel, StageUdebs, RepackInstaller
<1>2. /\ job \in Jobs /\ iso \in TreeType /\ job.scope = "d-i" /\ job.scope = ScopeOf(job.action)
      /\ sums = <<>> /\ output = before /\ tree \in InitrdType
  BY DEF InstallKernel, StageUdebs, RepackInstaller, RebuildInv, RebuildTyped, Scoped, ImageInv
<1>3. job.text # {} /\ TreeDone(tree)
  BY DEF InstallKernel, StageUdebs, RepackInstaller, RebuildInv, InstallerInv
<1>4. /\ Text' = Text /\ Version' = Version /\ Target' = Target /\ Updates' = Updates
      /\ Target \in Abis /\ Text.kernel \in Kernels /\ Text.initrd \in Initrds
      /\ (Updates => Target = job.target)
  BY <1>1, <1>2, <1>3, PlanFacts DEF Text, Version, Target, Updates
<1>5. TreeDone(tree)'
  BY <1>1, <1>3, <1>4 DEF TreeDone, ModuleVersions
<1>6. ASSUME iso' \in TreeType, pc' \in {"udebs", "repack"},
             \A k \in Kernels : iso'.kernel[k] = IF k = Text.kernel THEN Target ELSE job.abi[k],
             iso'.initrd = SourceTree(job).initrd, iso'.packages = iso'.rootfs
      PROVE  RebuildInv'
  <2>1. RebuildTyped'
    BY <1>1, <1>6 DEF RebuildInv, RebuildTyped
  <2>2. Scoped' /\ LiveInv' /\ ImageInv'
    BY <1>1, <1>2, <1>6 DEF Scoped, LiveInv, ImageInv
  <2>3. InstallerKernel(iso)' /\ Stock(iso)'
    BY <1>1, <1>3, <1>4, <1>6 DEF InstallerKernel, Stock
  <2>4. InstallerInv'
    BY <1>1, <1>3, <1>5, <1>6, <2>3 DEF InstallerInv
  <2> QED
    BY <2>1, <2>2, <2>4 DEF RebuildInv
<1>7. CASE InstallKernel
  <2>1. /\ iso = SourceTree(job) /\ Updates /\ pc' = "udebs"
        /\ iso' = [iso EXCEPT !.kernel[Text.kernel] = job.target]
    BY <1>7 DEF InstallKernel, RebuildInv, InstallerInv, Scoped
  <2>2. /\ iso.kernel = job.abi /\ iso.packages = iso.rootfs
    BY <1>2, <2>1, SourceFacts
  <2>3. /\ iso'.kernel = [job.abi EXCEPT ![Text.kernel] = job.target]
        /\ iso'.initrd = SourceTree(job).initrd /\ iso'.packages = iso'.rootfs
        /\ (iso'.kernel \in [Kernels -> Abis] => iso' \in TreeType)
    <3> DEFINE k == Text.kernel
               n == [iso EXCEPT !.kernel[k] = job.target]
    <3>1. /\ n.kernel = [iso.kernel EXCEPT ![k] = job.target] /\ n.initrd = iso.initrd /\ n.rootfs = iso.rootfs
          /\ n.packages = iso.packages /\ (n.kernel \in [Kernels -> Abis] => n \in TreeType)
      BY <1>2, TreeFields
    <3>2. iso' = n
      BY <2>1
    <3> QED
      BY <2>1, <2>2, <3>1, <3>2
  <2>4. iso'.kernel \in [Kernels -> Abis]
    BY <1>2, <1>4, <2>3, PlanFacts
  <2>5. \A k \in Kernels : iso'.kernel[k] = IF k = Text.kernel THEN Target ELSE job.abi[k]
    BY <1>2, <1>4, <2>1, <2>3, PlanFacts
  <2> QED
    BY <1>6, <2>1, <2>3, <2>4, <2>5
<1>8. CASE StageUdebs
  <2>1. /\ InstallerKernel(iso) /\ Stock(iso) /\ iso.packages = iso.rootfs /\ pc' = "repack"
        /\ iso' = [iso EXCEPT !.extras = @ \cup {"localudebs"}]
    BY <1>8 DEF StageUdebs, RebuildInv, InstallerInv
  <2> DEFINE x == iso.extras \cup {"localudebs"}
  <2>2. x \in SUBSET {"localudebs", "hooks"} /\ iso' = [iso EXCEPT !.extras = x]
    BY <1>2, <2>1, TreeFields
  <2> HIDE DEF x
  <2>3. /\ iso' \in TreeType /\ iso'.kernel = iso.kernel /\ iso'.initrd = iso.initrd
        /\ iso'.packages = iso'.rootfs
    BY <1>2, <2>1, <2>2, Zenon DEF TreeType
  <2>4. \A k \in Kernels : iso'.kernel[k] = IF k = Text.kernel THEN Target ELSE job.abi[k]
    BY <1>3, <2>1, <2>3 DEF InstallerKernel
  <2> QED
    BY <1>6, <2>1, <2>3, <2>4 DEF Stock
<1>9. CASE RepackInstaller
  <2>1. /\ InstallerKernel(iso) /\ Stock(iso) /\ iso.packages = iso.rootfs /\ pc' = "checksums"
        /\ iso' = [iso EXCEPT !.initrd[Text.initrd] = tree]
    BY <1>9 DEF RepackInstaller, RebuildInv, InstallerInv
  <2>2. /\ iso'.initrd = [iso.initrd EXCEPT ![Text.initrd] = tree] /\ iso'.kernel = iso.kernel
        /\ iso'.packages = iso'.rootfs /\ (iso'.initrd \in [Initrds -> InitrdType] => iso' \in TreeType)
    <3> DEFINE i == Text.initrd
               n == [iso EXCEPT !.initrd[i] = tree]
    <3>1. /\ n.initrd = [iso.initrd EXCEPT ![i] = tree] /\ n.kernel = iso.kernel /\ n.rootfs = iso.rootfs
          /\ n.packages = iso.packages /\ (n.initrd \in [Initrds -> InitrdType] => n \in TreeType)
      BY <1>2, TreeFields
    <3>2. iso' = n
      BY <2>1
    <3> QED
      BY <2>1, <3>1, <3>2
  <2>3. iso.initrd \in [Initrds -> InitrdType]
    BY <1>2, TreeFields
  <2>4. /\ iso' \in TreeType /\ iso'.initrd[Text.initrd] = tree
        /\ \A i \in Initrds \ {Text.initrd} : iso'.initrd[i] = SourceTree(job).initrd[i]
    BY <1>2, <1>4, <2>1, <2>2, <2>3 DEF Stock
  <2>5. InstallerKernel(iso)'
    BY <1>1, <1>4, <2>1, <2>2 DEF InstallerKernel
  <2>6. TreeDone(iso.initrd[Text.initrd])'
    BY <1>3, <1>4, <2>4 DEF TreeDone, ModuleVersions
  <2>7. Ready(iso)'
    BY <1>1, <1>2, <1>3, <1>4, <2>2, <2>4, <2>5, <2>6 DEF Ready
  <2>8. RebuildTyped'
    BY <1>1, <2>4 DEF RebuildInv, RebuildTyped
  <2>9. Scoped' /\ LiveInv' /\ InstallerInv' /\ ImageInv'
    BY <1>1, <1>2, <2>1, <2>7 DEF Scoped, LiveInv, InstallerInv, ImageInv
  <2> QED
    BY <2>8, <2>9 DEF RebuildInv
<1> QED
  BY <1>7, <1>8, <1>9

\* What the live system's steps leave alone stays as it was.
LEMMA LiveKept ==
  ASSUME job' = job, chosen' = chosen
  PROVE  /\ Replaces' = Replaces /\ LiveEntries' = LiveEntries
         /\ iso'.kernel = iso.kernel /\ LiveKernels(iso) => LiveKernels(iso)'
         /\ iso'.initrd = iso.initrd /\ LiveInitrds(iso) => LiveInitrds(iso)'
         /\ live'.abis = live.abis /\ live.has \subseteq live'.has /\ RootDone(live) => RootDone(live)'
<1>1. Replaces' = Replaces /\ LiveEntries' = LiveEntries
  BY DEF Replaces, LiveEntries
<1>2. ASSUME iso'.kernel = iso.kernel, LiveKernels(iso) PROVE LiveKernels(iso)'
  BY <1>1, <1>2 DEF LiveKernels
<1>3. ASSUME iso'.initrd = iso.initrd, LiveInitrds(iso) PROVE LiveInitrds(iso)'
  BY <1>1, <1>3 DEF LiveInitrds, Generated
<1>4. ASSUME live'.abis = live.abis, live.has \subseteq live'.has, RootDone(live) PROVE RootDone(live)'
  BY <1>1, <1>4 DEF RootDone
<1> QED
  BY <1>1, <1>2, <1>3, <1>4

\* The work on the live root filesystem.
LEMMA RootSteps ==
  ASSUME RebuildInv, UnpackLive \/ InstallPackages \/ UpdateInitramfs \/ PruneKernels \/ DetectVersion
  PROVE  RebuildInv'
<1> USE DEF InstallerSteps, LiveSteps, Untouched, ImageSteps, Finished, Goto, given
<1>1. /\ job' = job /\ iso' = iso /\ tree' = tree
      /\ sums' = sums /\ output' = output /\ before' = before
  BY DEF UnpackLive, InstallPackages, UpdateInitramfs, PruneKernels, DetectVersion
<1>2. /\ job \in Jobs /\ iso = SourceTree(job) /\ job.scope = "live-host" /\ job.scope = ScopeOf(job.action)
      /\ sums = <<>> /\ output = before /\ live \in RootType /\ tree \in InitrdType /\ chosen \in Abis
  BY DEF UnpackLive, InstallPackages, UpdateInitramfs, PruneKernels, DetectVersion, RebuildInv, RebuildTyped,
         Scoped, ImageInv
<1>a. live.abis \in SUBSET Abis /\ live.has \in SUBSET Contents /\ live.boot \in [Abis -> InitrdType]
  BY <1>2, RootFields
<1>b. \A v \in Abis : Made(v, live.has) \in InitrdType /\ live.boot[v] \in InitrdType
  BY <1>a, MadeTyped
<1>3. job.default # {}
  BY DEF UnpackLive, InstallPackages, UpdateInitramfs, PruneKernels, DetectVersion, RebuildInv, LiveInv
<1>4. /\ Replaces' = Replaces /\ SourceRoot(job)' = SourceRoot(job) /\ job.target \in Abis
      /\ SourceTree(job)' = SourceTree(job)
  BY <1>1, <1>2, PlanFacts DEF Replaces, SourceRoot, SourceTree
<1>5. pc' \in {"install", "initramfs", "prune", "detect", "kernels", "initrds"}
  BY DEF UnpackLive, InstallPackages, UpdateInitramfs, PruneKernels, DetectVersion
<1>6. ASSUME live' \in RootType, chosen' \in Abis, LiveInv' PROVE RebuildInv'
  <2>1. RebuildTyped'
    BY <1>1, <1>2, <1>6, SourceFacts DEF RebuildInv, RebuildTyped
  <2>2. Scoped' /\ InstallerInv' /\ ImageInv'
    BY <1>1, <1>2, <1>4, <1>5 DEF Scoped, InstallerInv, ImageInv
  <2> QED
    BY <1>6, <2>1, <2>2 DEF RebuildInv
<1>7. CASE UnpackLive
  <2> DEFINE h == iso.rootfs.has \cup {"policy"}
  <2>1. live' = [iso.rootfs EXCEPT !.has = h] /\ pc' = "install" /\ chosen' = chosen
    BY <1>7 DEF UnpackLive
  <2>2. iso.rootfs \in RootType /\ iso.rootfs = SourceRoot(job)
    BY <1>2, SourceFacts, TreeFields
  <2>3. h \in SUBSET Contents /\ "policy" \in h
    BY <2>2, RootFields DEF Contents
  <2> HIDE DEF h
  <2>4. live' \in RootType /\ live'.has = h /\ live'.abis = iso.rootfs.abis
    BY <2>1, <2>2, <2>3, Zenon DEF RootType
  <2>5. LiveInv'
    BY <1>1, <1>3, <1>4, <2>1, <2>2, <2>3, <2>4 DEF LiveInv
  <2> QED
    BY <1>2, <1>6, <2>1, <2>4, <2>5
<1>8. CASE InstallPackages
  <2>1. PICK new \in (IF Replaces THEN {{job.target}} ELSE {{}, {job.target}}) :
          live' = [live EXCEPT !.has = @ \cup {"packages"}, !.abis = @ \cup new,
                     !.boot = [v \in Abis |-> IF v \in new THEN Made(v, live.has) ELSE @[v]]]
    BY <1>8 DEF InstallPackages, Replaces
  <2> DEFINE h == live.has \cup {"packages"}
             a == live.abis \cup new
             b == [v \in Abis |-> IF v \in new THEN Made(v, live.has) ELSE live.boot[v]]
  <2>2. /\ pc' = "initramfs" /\ chosen' = chosen
        /\ live.abis = SourceRoot(job).abis /\ "policy" \in live.has
    BY <1>8 DEF InstallPackages, RebuildInv, LiveInv
  <2>3. h \in SUBSET Contents /\ {"policy", "packages"} \subseteq h
    BY <1>2, <2>2, RootFields DEF Contents
  <2>4. /\ a \in SUBSET Abis /\ SourceRoot(job).abis \subseteq a
        /\ Replaces => job.target \in a
    <3>1. new \subseteq {job.target} /\ (Replaces => new = {job.target})
      BY <2>1
    <3> QED
      BY <1>4, <1>a, <2>2, <3>1
  <2>5. b \in [Abis -> InitrdType]
    BY <1>b
  <2>6. live' = [live EXCEPT !.has = h, !.abis = a, !.boot = b]
    BY <2>1
  <2> HIDE DEF h, a, b
  <2>7. live' \in RootType /\ live'.has = h /\ live'.abis = a
    BY <1>2, <2>3, <2>4, <2>5, <2>6, Zenon DEF RootType
  <2>8. LiveInv'
    BY <1>1, <1>3, <1>4, <2>2, <2>3, <2>4, <2>7 DEF LiveInv
  <2> QED
    BY <1>2, <1>6, <2>2, <2>7, <2>8
<1>9. CASE UpdateInitramfs
  <2> DEFINE b == [v \in Abis |-> IF v \in live.abis THEN Made(v, live.has) ELSE live.boot[v]]
  <2>1. live' = [live EXCEPT !.boot = b] /\ chosen' = chosen /\ pc' = IF Replaces THEN "prune" ELSE "detect"
    BY <1>9 DEF UpdateInitramfs, Replaces
  <2>2. /\ SourceRoot(job).abis \subseteq live.abis /\ {"policy", "packages"} \subseteq live.has
        /\ Replaces => job.target \in live.abis
    BY <1>9 DEF UpdateInitramfs, RebuildInv, LiveInv
  <2>3. b \in [Abis -> InitrdType]
    BY <1>b
  <2>4. \A v \in live.abis : b[v] = Made(v, live.has)
    BY <1>2, RootFields
  <2> HIDE DEF b
  <2>5. live' \in RootType /\ live'.boot = b /\ live'.abis = live.abis /\ live'.has = live.has
    BY <1>2, <2>1, <2>3, Zenon DEF RootType
  <2>6. \A v \in live'.abis : live'.boot[v] = Made(v, live'.has)
    BY <2>4, <2>5
  <2>7. LiveInv'
    BY <1>1, <1>3, <1>4, <2>1, <2>2, <2>5, <2>6 DEF LiveInv, Made
  <2> QED
    BY <1>2, <1>6, <2>1, <2>5, <2>7
<1>10. CASE PruneKernels
  <2> DEFINE a == {job.target}
             b == [v \in Abis |-> IF v = job.target THEN live.boot[v] ELSE NoInitrd]
  <2>1. live' = [live EXCEPT !.abis = a, !.boot = b] /\ chosen' = job.target /\ pc' = "kernels"
    BY <1>10 DEF PruneKernels
  <2>2. /\ {"policy", "packages"} \subseteq live.has /\ Replaces
        /\ live.boot[job.target] = Made(job.target, live.has)
    BY <1>10 DEF PruneKernels, RebuildInv, LiveInv
  <2>3. a \in SUBSET Abis /\ b \in [Abis -> InitrdType] /\ b[job.target] = Made(job.target, live.has)
    BY <1>4, <1>b, <2>2, NoInitrdTyped
  <2>4. chosen' \in a
    BY <2>1
  <2>a. a = {job.target}
    OBVIOUS
  <2> HIDE DEF a, b
  <2>5. live' \in RootType /\ live'.boot = b /\ live'.abis = a /\ live'.has = live.has
    BY <1>2, <2>1, <2>3, Zenon DEF RootType
  <2>6. RootDone(live)'
    BY <1>1, <1>4, <2>1, <2>2, <2>4, <2>5, <2>a DEF RootDone
  <2>7. live'.boot[chosen'] = Made(chosen', live'.has)
    BY <2>1, <2>3, <2>5
  <2>8. LiveInv'
    BY <1>1, <1>3, <1>4, <2>1, <2>2, <2>6, <2>7 DEF LiveInv, Made
  <2> QED
    BY <1>4, <1>6, <2>1, <2>5, <2>8
<1>11. CASE DetectVersion
  <2>1. /\ pc' = "initrds" /\ live' = live
        /\ \/ chosen' \in job.named
           \/ Cardinality(live.abis) = 1 /\ chosen' \in live.abis
    BY <1>11 DEF DetectVersion
  <2>2. /\ SourceRoot(job).abis \subseteq live.abis /\ {"policy", "packages"} \subseteq live.has /\ ~Replaces
        /\ \A v \in live.abis : live.boot[v] = Made(v, live.has)
    BY <1>11 DEF DetectVersion, RebuildInv, LiveInv
  <2>3. PICK e \in job.default : e \in LiveEntries /\ job.default = {e} /\ The(job.default) = e
    BY <1>2, <1>3, PlanFacts
  <2>4. job.abi[e.kernel] \in SourceRoot(job).abis
    BY <1>2, <2>3, SourceFacts
  <2>5. chosen' = job.abi[e.kernel]
    <3>1. CASE chosen' \in job.named
      BY <1>2, <2>3, <3>1, NamesAssumption
    <3>2. CASE Cardinality(live.abis) = 1 /\ chosen' \in live.abis
      <4>1. IsFiniteSet(live.abis)
        BY <1>2, ImagesAssumption, RootFields, FS_Subset
      <4>2. PICK v : live.abis = {v}
        BY <3>2, <4>1, FS_Singleton
      <4> QED
        BY <2>2, <2>4, <3>2, <4>2
    <3> QED
      BY <2>1, <3>1, <3>2
  <2>6. chosen' \in live.abis /\ chosen' \in Abis
    BY <1>a, <2>2, <2>4, <2>5
  <2>7. RootDone(live)'
    BY <1>1, <1>4, <2>1, <2>2, <2>3, <2>5, <2>6 DEF RootDone
  <2>8. LiveKernels(iso)' /\ Stock(iso)'
    BY <1>1, <1>2, <1>4, <2>2, SourceFacts DEF LiveKernels, Stock
  <2>9. live'.boot[chosen'] = Made(chosen', live'.has)
    BY <2>1, <2>2, <2>6
  <2>10. LiveInv'
    BY <1>1, <1>3, <2>1, <2>7, <2>8, <2>9 DEF LiveInv, Made
  <2> QED
    BY <1>2, <1>6, <2>1, <2>6, <2>10
<1> QED
  BY <1>7, <1>8, <1>9, <1>10, <1>11

\* The live system's files in the image.
LEMMA CopySteps ==
  ASSUME RebuildInv, CopyKernels \/ CopyInitrds \/ StageMasks \/ RefreshMetadata
  PROVE  RebuildInv'
<1> USE DEF InstallerSteps, LiveSteps, Untouched, ImageSteps, Finished, Goto, given, workVars
<1>1. /\ job' = job /\ tree' = tree /\ chosen' = chosen
      /\ sums' = sums /\ output' = output /\ before' = before
  BY DEF CopyKernels, CopyInitrds, StageMasks, RefreshMetadata
<1>2. /\ job \in Jobs /\ iso \in TreeType /\ job.scope = "live-host" /\ job.scope = ScopeOf(job.action)
      /\ sums = <<>> /\ output = before /\ live \in RootType /\ tree \in InitrdType /\ chosen \in Abis
  BY DEF CopyKernels, CopyInitrds, StageMasks, RefreshMetadata, RebuildInv, RebuildTyped, Scoped, ImageInv
<1>3. job.default # {} /\ RootDone(live)
  BY DEF CopyKernels, CopyInitrds, StageMasks, RefreshMetadata, RebuildInv, LiveInv
<1>4. Replaces' = Replaces /\ LiveEntries' = LiveEntries /\ SourceTree(job)' = SourceTree(job)
  BY <1>1, LiveKept DEF SourceTree
<1>5. pc' \in {"initrds", "masks", "metadata", "squash"}
  BY DEF CopyKernels, CopyInitrds, StageMasks, RefreshMetadata
<1>6. ASSUME iso' \in TreeType, live' \in RootType, live'.abis = live.abis, live.has \subseteq live'.has,
             LiveKernels(iso)', pc' = "initrds" => Stock(iso)' /\ live'.boot[chosen'] = Made(chosen', live'.has),
             pc' # "initrds" => LiveInitrds(iso)',
             pc' \in {"metadata", "squash"} => "masks" \in live'.has, pc' = "squash" => iso'.packages = live'
      PROVE  RebuildInv'
  <2>1. RebuildTyped'
    BY <1>1, <1>2, <1>6 DEF RebuildInv, RebuildTyped
  <2>2. Scoped' /\ InstallerInv' /\ ImageInv'
    BY <1>1, <1>2, <1>5 DEF Scoped, InstallerInv, ImageInv
  <2>3. RootDone(live)'
    BY <1>1, <1>3, <1>6, LiveKept
  <2>4. LiveInv'
    BY <1>1, <1>3, <1>5, <1>6, <2>3 DEF LiveInv, Made
  <2> QED
    BY <2>1, <2>2, <2>4 DEF RebuildInv
<1>7. CASE CopyKernels
  <2> DEFINE ks == [k \in Kernels |-> IF \E e \in LiveEntries : e.kernel = k THEN chosen ELSE iso.kernel[k]]
  <2>1. /\ iso = SourceTree(job) /\ Replaces /\ pc' = "initrds" /\ live' = live
        /\ live.boot[chosen] = Made(chosen, live.has) /\ iso' = [iso EXCEPT !.kernel = ks]
    BY <1>7 DEF CopyKernels, RebuildInv, LiveInv, Scoped
  <2>2. iso.kernel = job.abi /\ ks \in [Kernels -> Abis]
    BY <1>2, <2>1, SourceFacts, PlanFacts
  <2>3. \A k \in Kernels : ks[k] = IF Replaces /\ \E e \in LiveEntries : e.kernel = k THEN chosen ELSE job.abi[k]
    BY <2>1, <2>2
  <2> HIDE DEF ks
  <2>4. iso' \in TreeType /\ iso'.kernel = ks /\ iso'.initrd = iso.initrd
    BY <1>2, <2>1, <2>2, Zenon DEF TreeType
  <2>5. LiveKernels(iso)'
    BY <1>1, <1>4, <2>3, <2>4 DEF LiveKernels
  <2>6. Stock(iso)'
    BY <1>1, <1>4, <2>1, <2>4 DEF Stock
  <2>7. live'.boot[chosen'] = Made(chosen', live'.has)
    BY <1>1, <2>1
  <2> QED
    BY <1>2, <1>6, <2>1, <2>4, <2>5, <2>6, <2>7
<1>8. CASE CopyInitrds
  <2> DEFINE x == iso.extras \cup {"hooks"}
             is == [i \in Initrds |-> IF \E e \in LiveEntries : e.initrd = i THEN live.boot[chosen] ELSE iso.initrd[i]]
  <2>1. /\ LiveKernels(iso) /\ Stock(iso) /\ pc' = "masks" /\ live' = live
        /\ live.boot[chosen] = Made(chosen, live.has) /\ iso' = [iso EXCEPT !.extras = x, !.initrd = is]
    BY <1>8 DEF CopyInitrds, RebuildInv, LiveInv
  <2>a. /\ live.has \in SUBSET Contents /\ iso.extras \in SUBSET {"localudebs", "hooks"}
        /\ iso.initrd \in [Initrds -> InitrdType] /\ live.boot \in [Abis -> InitrdType]
    <3>1. live.has \in SUBSET Contents /\ live.boot \in [Abis -> InitrdType]
      BY <1>2, RootFields
    <3>2. iso.extras \in SUBSET {"localudebs", "hooks"} /\ iso.initrd \in [Initrds -> InitrdType]
      BY <1>2, TreeFields
    <3> QED
      BY <3>1, <3>2
  <2>2. x \in SUBSET {"localudebs", "hooks"} /\ is \in [Initrds -> InitrdType]
    BY <1>2, <2>a
  <2>3. Generated(live.boot[chosen])
    <3>1. {"policy", "packages"} \subseteq live.has
      BY <1>3 DEF RootDone
    <3>2. /\ Made(chosen, live.has).modules = {<<chosen, "stock">>}
          /\ Made(chosen, live.has).index = Made(chosen, live.has).modules
          /\ Made(chosen, live.has).has = live.has
      BY <1>2, <2>a, MadeTyped
    <3> QED
      BY <2>1, <3>1, <3>2 DEF Generated
  <2>4. \A i \in Initrds : IF \E e \in LiveEntries : e.initrd = i THEN is[i] = live.boot[chosen]
                           ELSE is[i] = SourceTree(job).initrd[i]
    BY <2>1 DEF Stock
  <2> HIDE DEF x, is
  <2>5. iso' \in TreeType /\ iso'.kernel = iso.kernel /\ iso'.initrd = is
    BY <1>2, <2>1, <2>2, Zenon DEF TreeType
  <2>6. LiveKernels(iso)'
    BY <1>1, <2>1, <2>5, LiveKept
  <2>7. \A i \in Initrds : IF \E e \in LiveEntries : e.initrd = i THEN Generated(is[i])
                           ELSE is[i] = SourceTree(job).initrd[i]
    BY <2>3, <2>4
  <2>8. LiveInitrds(iso)'
    <3>1. \A i \in Initrds : IF \E e \in LiveEntries' : e.initrd = i THEN Generated(iso'.initrd[i])
                             ELSE iso'.initrd[i] = SourceTree(job)'.initrd[i]
      BY <1>4, <2>5, <2>7
    <3> QED
      BY <1>1, <1>4, <3>1 DEF LiveInitrds, Generated
  <2> QED
    BY <1>2, <1>6, <2>1, <2>5, <2>6, <2>8
<1>9. CASE StageMasks
  <2> DEFINE h == live.has \cup {"masks"}
  <2>1. /\ LiveKernels(iso) /\ LiveInitrds(iso) /\ pc' = "metadata" /\ iso' = iso
        /\ live' = [live EXCEPT !.has = h]
    BY <1>9 DEF StageMasks, RebuildInv, LiveInv
  <2>2. h \in SUBSET Contents /\ "masks" \in h /\ live.has \subseteq h
    BY <1>2, RootFields DEF Contents
  <2> HIDE DEF h
  <2>3. live' \in RootType /\ live'.has = h /\ live'.abis = live.abis
    BY <1>2, <2>1, <2>2, Zenon DEF RootType
  <2>4. LiveKernels(iso)' /\ LiveInitrds(iso)'
    BY <1>1, <2>1, LiveKept
  <2> QED
    BY <1>2, <1>6, <2>1, <2>2, <2>3, <2>4
<1>10. CASE RefreshMetadata
  <2>1. /\ LiveKernels(iso) /\ LiveInitrds(iso) /\ pc' = "squash" /\ live' = live /\ "masks" \in live.has
        /\ iso' = [iso EXCEPT !.packages = live]
    BY <1>10 DEF RefreshMetadata, RebuildInv, LiveInv
  <2>2. iso' \in TreeType /\ iso'.kernel = iso.kernel /\ iso'.initrd = iso.initrd /\ iso'.packages = live
    BY <1>2, <2>1, Zenon DEF TreeType
  <2>3. LiveKernels(iso)' /\ LiveInitrds(iso)'
    BY <1>1, <2>1, <2>2, LiveKept
  <2> QED
    BY <1>2, <1>6, <2>1, <2>2, <2>3
<1> QED
  BY <1>7, <1>8, <1>9, <1>10

\* Packing the live root makes the tree ready.
LEMMA SquashStep ==
  ASSUME RebuildInv, Squash
  PROVE  RebuildInv'
<1> USE DEF InstallerSteps, LiveSteps, Untouched, ImageSteps, Finished, Goto, given, workVars
<1>1. /\ job' = job /\ tree' = tree /\ live' = live /\ chosen' = chosen /\ pc' = "checksums"
      /\ sums' = sums /\ output' = output /\ before' = before /\ iso' = [iso EXCEPT !.rootfs = live]
  BY DEF Squash
<1>2. /\ job \in Jobs /\ iso \in TreeType /\ job.scope = "live-host" /\ job.scope = ScopeOf(job.action)
      /\ sums = <<>> /\ output = before /\ live \in RootType /\ tree \in InitrdType /\ chosen \in Abis
      /\ RootDone(live) /\ LiveKernels(iso) /\ LiveInitrds(iso) /\ "masks" \in live.has /\ iso.packages = live
  BY DEF Squash, RebuildInv, RebuildTyped, Scoped, LiveInv, ImageInv
<1>3. /\ iso' \in TreeType /\ iso'.kernel = iso.kernel /\ iso'.initrd = iso.initrd /\ iso'.packages = iso.packages
      /\ iso'.rootfs = live
  BY <1>1, <1>2, Zenon DEF TreeType
<1>4. LiveKernels(iso)' /\ LiveInitrds(iso)' /\ RootDone(live)'
  BY <1>1, <1>2, <1>3, LiveKept
<1>5. RootDone(iso.rootfs)'
  BY <1>1, <1>3, <1>4
<1>6. Ready(iso)'
  BY <1>1, <1>2, <1>3, <1>4, <1>5 DEF Ready
<1>7. RebuildTyped'
  BY <1>1, <1>2, <1>3 DEF RebuildTyped
<1>8. Scoped' /\ InstallerInv' /\ LiveInv' /\ ImageInv'
  BY <1>1, <1>2, <1>6 DEF Scoped, InstallerInv, LiveInv, ImageInv
<1> QED
  BY <1>7, <1>8 DEF RebuildInv

\* Checksums and mastering.
LEMMA MasterSteps ==
  ASSUME RebuildInv, RewriteChecksums \/ UnlinkOutput \/ MasterBegins \/ MasterEnds
  PROVE  RebuildInv'
<1> USE DEF InstallerSteps, LiveSteps, Untouched, ImageSteps, Finished, Goto, given, workVars
<1>1. /\ job' = job /\ iso' = iso /\ tree' = tree /\ live' = live /\ chosen' = chosen /\ before' = before
  BY DEF RewriteChecksums, UnlinkOutput, MasterBegins, MasterEnds
<1>2. RebuildTyped'
  BY <1>1 DEF RebuildInv, RebuildTyped
<1>3. Ready(iso)' /\ job.scope = ScopeOf(job.action)
  BY <1>1, ReadyKept DEF RewriteChecksums, UnlinkOutput, MasterBegins, MasterEnds, RebuildInv, ImageInv, Scoped
<1>4. /\ pc' \in (ImageSteps \ {"checksums"}) \cup Finished /\ sums' = <<iso>>
      /\ pc' \in Finished => output' = Rebuilt(iso, sums')
  BY DEF RewriteChecksums, UnlinkOutput, MasterBegins, MasterEnds, RebuildInv, ImageInv
<1>5. Scoped' /\ InstallerInv' /\ LiveInv'
  BY <1>1, <1>3, <1>4 DEF Scoped, InstallerInv, LiveInv
<1>6. sums' # <<>>
  BY <1>4
<1>7. ImageInv'
  BY <1>1, <1>3, <1>4, <1>6 DEF ImageInv, Rebuilt, File
<1> QED
  BY <1>2, <1>5, <1>7 DEF RebuildInv

\* The rebuild's inductive invariant.
LEMMA RebuildInvariance == RebuildSpec => []RebuildInv
<1>1. RebuildInv /\ [RebuildNext]_rebuildVars => RebuildInv'
  <2> SUFFICES ASSUME RebuildInv, [RebuildNext]_rebuildVars PROVE RebuildInv'
    OBVIOUS
  <2>1. CASE Validate \/ Extract \/ StepFails \/ Kill \/ Report \/ UNCHANGED rebuildVars
    BY <2>1, EndSteps
  <2>2. CASE UnpackInstaller \/ ReplaceTree \/ InjectUdebs \/ Depmod
    BY <2>2, TreeSteps
  <2>3. CASE InstallKernel \/ StageUdebs \/ RepackInstaller
    BY <2>3, InstallSteps
  <2>4. CASE UnpackLive \/ InstallPackages \/ UpdateInitramfs \/ PruneKernels \/ DetectVersion
    BY <2>4, RootSteps
  <2>5. CASE CopyKernels \/ CopyInitrds \/ StageMasks \/ RefreshMetadata
    BY <2>5, CopySteps
  <2>6. CASE Squash
    BY <2>6, SquashStep
  <2>7. CASE RewriteChecksums \/ UnlinkOutput \/ MasterBegins \/ MasterEnds
    BY <2>7, MasterSteps
  <2> QED
    BY <2>1, <2>2, <2>3, <2>4, <2>5, <2>6, <2>7 DEF RebuildNext, Program, Idle
<1> QED
  BY <1>1, RebuildStarts, PTL DEF RebuildSpec

-----------------------------------------------------------------------------
(* What follows for a finished run. *)

LEMMA FinishedImage ==
  ASSUME RebuildInv, pc = "done"
  PROVE  /\ output = Rebuilt(iso, sums) /\ sums = <<iso>> /\ Image = iso /\ output.image[1].sums = <<iso>>
         /\ Ready(iso) /\ job \in Jobs /\ iso \in TreeType /\ chosen \in Abis
         /\ job.scope = ScopeOf(job.action)
<1>1. /\ output = Rebuilt(iso, sums) /\ sums = <<iso>> /\ Ready(iso) /\ job \in Jobs /\ iso \in TreeType /\ chosen \in Abis
      /\ job.scope = ScopeOf(job.action)
  BY DEF RebuildInv, RebuildTyped, Scoped, ImageInv, Finished
<1>2. output.image[1] = [tree |-> iso, sums |-> sums]
  BY <1>1 DEF Rebuilt, File
<1> QED
  BY <1>1, <1>2 DEF Image

\* The boot files of the installer entry that was worked on.
LEMMA InstallerBoots ==
  ASSUME RebuildInv, pc = "done", job.scope = "d-i"
  PROVE  /\ Boots(Image, Text) /\ job.text = {Text} /\ Text.kind = "install"
         /\ "request" \in Image.initrd[Text.initrd].has
<1>1. /\ Image = iso /\ job.text # {} /\ InstallerKernel(iso) /\ TreeDone(iso.initrd[Text.initrd]) /\ job \in Jobs
  BY FinishedImage DEF Ready
<1>2. job.text = {Text} /\ Text \in job.entries /\ Text.kind = "install" /\ Text.kernel \in Kernels
  BY <1>1, PlanFacts
<1>3. iso.kernel[Text.kernel] = Target
  BY <1>1, <1>2 DEF InstallerKernel
<1> QED
  BY <1>1, <1>2, <1>3 DEF Boots, TreeDone, ModuleVersions

\* Every live entry of a finished live action has the chosen version's initrd.
LEMMA LiveBoots ==
  ASSUME RebuildInv, pc = "done", job.scope = "live-host", NEW e \in LiveEntries
  PROVE  /\ ModuleVersions(Image.initrd[e.initrd]) = {chosen}
         /\ Image.initrd[e.initrd].index = Image.initrd[e.initrd].modules
         /\ {"policy", "packages"} \subseteq Image.initrd[e.initrd].has
         /\ RootDone(Image.rootfs) /\ "masks" \in Image.rootfs.has
         /\ Replaces \/ e \in job.default => Image.kernel[e.kernel] = chosen
<1>1. /\ Image = iso /\ LiveKernels(iso) /\ LiveInitrds(iso) /\ RootDone(iso.rootfs) /\ job \in Jobs
      /\ "masks" \in iso.rootfs.has
  BY FinishedImage DEF Ready
<1>2. e \in job.entries /\ e.kernel \in Kernels /\ e.initrd \in Initrds
  BY <1>1, PlanFacts
<1>3. Generated(iso.initrd[e.initrd])
  BY <1>1, <1>2 DEF LiveInitrds
<1>4. {m[1] : m \in {<<chosen, "stock">>}} = {chosen}
  OBVIOUS
<1>5. ModuleVersions(iso.initrd[e.initrd]) = {chosen}
  BY <1>3, <1>4 DEF Generated, ModuleVersions
<1>6. Replaces \/ e \in job.default => iso.kernel[e.kernel] = chosen
  BY <1>1, <1>2 DEF LiveKernels, RootDone
<1> QED
  BY <1>1, <1>3, <1>5, <1>6 DEF Generated

\* The entries a finished action works on boot: the chosen installer entry, the
\* chosen live entry, every live entry after a replacement, each with a complete
\* initrd of its own kernel and, for the live system, that kernel's modules in
\* the packed root.
THEOREM RebuiltImageBoots == RebuildSpec => []RebuiltEntriesBoot
<1>1. ASSUME RebuildInv, pc = "done", job.scope = "d-i", NEW e \in job.text
      PROVE  Boots(Image, e) /\ e.kind # "live"
  BY <1>1, InstallerBoots
<1>2. ASSUME RebuildInv, pc = "done", job.scope = "live-host", NEW e \in LiveEntries, Replaces \/ e \in job.default
      PROVE  /\ Boots(Image, e) /\ Image.kernel[e.kernel] \in Image.rootfs.abis
             /\ Replaces => Image.rootfs.abis = {job.target}
  BY <1>2, LiveBoots DEF Boots, ModuleVersions, RootDone
<1>3. RebuildInv => RebuiltEntriesBoot
  <2> SUFFICES ASSUME RebuildInv, pc = "done",
                      NEW e \in (IF job.scope = "d-i" THEN job.text
                                 ELSE IF job.action = "replace-kernel" THEN LiveEntries ELSE job.default)
               PROVE  /\ Boots(Image, e)
                      /\ e.kind = "live" => Image.kernel[e.kernel] \in Image.rootfs.abis
                      /\ job.action = "replace-kernel" /\ e.kind = "live" => Image.rootfs.abis = {job.target}
    BY DEF RebuiltEntriesBoot
  <2>1. job \in Jobs /\ job.scope \in {"d-i", "live-host"}
    BY FinishedImage, PlanFacts
  <2>2. CASE job.scope = "d-i"
    BY <1>1, <2>2
  <2>3. CASE job.scope = "live-host"
    <3>1. e \in LiveEntries /\ (Replaces \/ e \in job.default)
      BY <2>1, <2>3, PlanFacts DEF Replaces
    <3> QED
      BY <1>2, <2>3, <3>1 DEF Replaces
  <2> QED
    BY <2>1, <2>2, <2>3
<1> QED
  BY <1>3, RebuildInvariance, PTL

\* A finished action changed what it was asked to change, and left the other
\* side of the image with the kernels and initrds of the source image.
THEOREM ActionsKeepTheirScope == RebuildSpec => []ScopeHonoured
<1>1. ASSUME RebuildInv PROVE RequestDelivered
  <2> SUFFICES ASSUME pc = "done"
               PROVE  IF job.scope = "d-i" THEN "request" \in Image.initrd[Text.initrd].has
                      ELSE /\ {"policy", "packages", "masks"} \subseteq Image.rootfs.has
                           /\ \A e \in LiveEntries : {"policy", "packages"} \subseteq Image.initrd[e.initrd].has
    BY DEF RequestDelivered
  <2>1. /\ job \in Jobs /\ job.scope \in {"d-i", "live-host"} /\ Image = iso /\ Ready(iso)
    BY <1>1, FinishedImage, PlanFacts
  <2>2. CASE job.scope = "d-i"
    BY <1>1, <2>2, InstallerBoots
  <2>3. CASE job.scope = "live-host"
    <3>1. {"policy", "packages", "masks"} \subseteq Image.rootfs.has
      BY <2>1, <2>3 DEF Ready, RootDone
    <3>2. \A e \in LiveEntries : {"policy", "packages"} \subseteq Image.initrd[e.initrd].has
      BY <1>1, <2>3, LiveBoots
    <3> QED
      BY <2>3, <3>1, <3>2
  <2> QED
    BY <2>1, <2>2, <2>3
<1>2. ASSUME RebuildInv PROVE OtherScopeUntouched
  <2> SUFFICES ASSUME pc = "done", NEW e \in job.entries, (e.kind = "live") = (job.scope = "d-i")
               PROVE  /\ Image.kernel[e.kernel] = job.abi[e.kernel]
                      /\ Image.initrd[e.initrd] = SourceTree(job).initrd[e.initrd]
    BY DEF OtherScopeUntouched
  <2>1. /\ job \in Jobs /\ job.scope \in {"d-i", "live-host"} /\ Image = iso /\ Ready(iso)
        /\ e.kernel \in Kernels /\ e.initrd \in Initrds /\ e.kind \in {"live", "install"}
    BY <1>2, FinishedImage, PlanFacts
  <2>2. CASE job.scope = "d-i"
    <3>1. /\ e.kind = "live" /\ job.text = {Text} /\ Text.kind = "install" /\ Text \in job.entries
      BY <2>1, <2>2, PlanFacts DEF Ready
    <3>2. e.kernel # Text.kernel /\ e.initrd # Text.initrd
      BY <2>1, <3>1, PlanFacts
    <3> QED
      BY <2>1, <2>2, <3>2 DEF Ready, InstallerKernel
  <2>3. CASE job.scope = "live-host"
    <3>1. e.kind = "install"
      BY <2>1, <2>3
    <3>2. \A d \in LiveEntries : d.kernel # e.kernel /\ d.initrd # e.initrd
      BY <2>1, <3>1, PlanFacts DEF LiveEntries
    <3> QED
      BY <2>1, <2>3, <3>2 DEF Ready, LiveKernels, LiveInitrds
  <2> QED
    BY <2>1, <2>2, <2>3
<1>3. RebuildInv => ScopeHonoured
  BY <1>1, <1>2 DEF ScopeHonoured
<1> QED
  BY <1>3, RebuildInvariance, PTL

\* The checksum files and the package lists of a finished image describe that
\* image, and a run that ends before its tree is complete leaves the previous
\* image at the output path.
THEOREM ImagesDescribeThemselves == RebuildSpec => []ImageDescribesItself
<1>1. ASSUME RebuildInv PROVE ImageDescribesItself
  <2>1. pc = "done" => output.image[1].sums = <<Image>> /\ Image.packages = Image.rootfs
    BY <1>1, FinishedImage DEF Ready
  <2>2. sums = <<>> => output = before
    BY <1>1 DEF RebuildInv, ImageInv
  <2> QED
    BY <2>1, <2>2 DEF ImageDescribesItself
<1> QED
  BY <1>1, RebuildInvariance, PTL
=============================================================================
