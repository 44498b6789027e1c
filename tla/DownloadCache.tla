---------------------------- MODULE DownloadCache ----------------------------
(***************************************************************************)
(* download_managed_source (downloads.py): the cache directory of one      *)
(* managed source key.  A call reads the configured URL, looks for the     *)
(* newest payload, compares the URL recorded beside it with the resolved   *)
(* one, and returns the file or replaces it.  Between two calls the        *)
(* configuration may change and the mirrors publish; calls of several      *)
(* processes interleave, and a process may die at any step.                *)
(***************************************************************************)
EXTENDS Naturals, Sequences, SequencesExt

CONSTANTS Procs,       \* processes that call download_managed_source
          Urls,        \* URLs a payload can be fetched from
          Alias,       \* the configured URL that a manifest resolves
          Moving,      \* URLs whose bytes change upstream
          ReleaseAt,   \* the release the manifest names at each version
          NameOf,      \* the file name a URL ends in
          Configs,     \* the values the configuration takes
          MaxVersion,  \* bound on upstream publications
          MaxFaults    \* bound on deaths and on failed sidecar writes

VARIABLES config,      \* the configured URL of the key
          version,     \* what the mirrors serve now
          payload,     \* the payload files of the cache directory
          sidecar,     \* the .source-url file beside each
          order,       \* payload files, last modified first
          call,        \* each process's current call
          faults,      \* deaths and failed sidecar writes so far
          overlapped   \* whether two calls ever ran at the same time

vars == <<config, version, payload, sidecar, order, call, faults, overlapped>>
cacheVars == <<payload, sidecar, order>>
worldVars == <<config, version, faults, overlapped>>

Names == {NameOf[u] : u \in Urls}
Versions == 0 .. MaxVersion
NoUrl == "no url"
NoName == "no file"

ASSUME UrlsAssumption ==
  /\ Moving \subseteq Urls /\ Alias \notin Urls /\ Configs \subseteq Urls \cup {Alias}
  /\ MaxVersion \in Nat /\ ReleaseAt \in [Versions -> Urls \ Moving]
  /\ NoUrl \notin Urls \cup {Alias} /\ NoName \notin Names

\* A payload file; from, version: what the bytes are.  State is "none", "empty",
\* "partial" or "whole".
NoFile == [state |-> "none", from |-> NoUrl, version |-> 0]

\* expected: the URL of the reviewed plan, NoUrl for a legacy caller.
\* since: what the mirrors served of a moving URL when the call began.
NoCall == [pc |-> "idle", expected |-> NoUrl, since |-> 0, configured |-> NoUrl,
           cached |-> NoName, url |-> NoUrl, byManifest |-> FALSE, temp |-> NoFile,
           result |-> NoFile, resultUrl |-> NoUrl]

Init ==
  /\ config \in Configs
  /\ version = 0
  /\ payload = [n \in Names |-> NoFile]
  /\ sidecar = [n \in Names |-> NoUrl]
  /\ order = <<>>
  /\ call = [p \in Procs |-> NoCall]
  /\ faults = 0
  /\ overlapped = FALSE

-----------------------------------------------------------------------------
(* The world around the cache.                                             *)

EditConfig ==
  /\ config' \in Configs \ {config}
  /\ UNCHANGED <<version, faults, overlapped, cacheVars, call>>

PublishUpstream ==
  /\ version < MaxVersion
  /\ version' = version + 1
  /\ UNCHANGED <<config, faults, overlapped, cacheVars, call>>

Running(p) == call[p].pc \notin {"idle", "returned"}

\* A killed process leaves its temporary file, which every lookup skips.
Die(p) ==
  /\ Running(p) /\ faults < MaxFaults
  /\ faults' = faults + 1
  /\ call' = [call EXCEPT ![p] = NoCall]
  /\ UNCHANGED <<config, version, overlapped, cacheVars>>

-----------------------------------------------------------------------------
(* One call.                                                               *)

At(p, label) == call[p].pc = label
Set(p, new) == call' = [call EXCEPT ![p] = new]
Go(p, label) == Set(p, [call[p] EXCEPT !.pc = label])
Fail(p) == Set(p, NoCall)

\* The caller reviewed some configured URL, earlier or now, or is a legacy one.
Begin(p) ==
  /\ call[p].pc \in {"idle", "returned"}
  /\ \E e \in Configs \cup {NoUrl} :
       Set(p, [NoCall EXCEPT !.pc = "config", !.expected = e,
                               !.since = IF e \in Moving THEN version ELSE 0])
  /\ overlapped' = (overlapped \/ \E q \in Procs \ {p} : Running(q))
  /\ UNCHANGED <<config, version, faults, cacheVars>>

\* A configuration changed since the review is refused.
ReadConfig(p) ==
  /\ At(p, "config")
  /\ IF call[p].expected \in {NoUrl, config}
     THEN Set(p, [call[p] EXCEPT !.pc = "lookup", !.configured = config])
     ELSE Fail(p)
  /\ UNCHANGED <<worldVars, cacheVars>>

Candidates == {n \in Names : payload[n].state \notin {"none", "empty"}}
Newest == IF Candidates = {} THEN NoName
          ELSE order[CHOOSE i \in DOMAIN order :
                       /\ order[i] \in Candidates
                       /\ \A j \in 1 .. i - 1 : order[j] \notin Candidates]

Lookup(p) ==
  /\ At(p, "lookup")
  /\ Set(p, [call[p] EXCEPT
       !.cached = Newest,
       !.pc = IF call[p].expected = NoUrl /\ Newest # NoName THEN "reuse" ELSE "resolve"])
  /\ UNCHANGED <<worldVars, cacheVars>>

\* SHA256SUMS names exactly one current release, or the call fails.
Resolve(p) ==
  /\ At(p, "resolve")
  /\ LET c == call[p]
         byManifest == c.configured = Alias
         url == IF byManifest THEN ReleaseAt[version] ELSE c.configured IN
     \/ Set(p, [c EXCEPT !.pc = IF c.cached = NoName THEN "fetch" ELSE "compare",
                         !.url = url, !.byManifest = byManifest])
     \/ byManifest /\ Fail(p)
  /\ UNCHANGED <<worldVars, cacheVars>>

\* Broken variant: a recorded URL is enough, even for a moving alias.
CompareUrlOnly(p) ==
  /\ At(p, "compare")
  /\ Go(p, IF sidecar[call[p].cached] = call[p].url THEN "reuse" ELSE "fetch")
  /\ UNCHANGED <<worldVars, cacheVars>>
\* Broken variant: only moving aliases are fetched again.
CompareAliasOnly(p) ==
  /\ At(p, "compare")
  /\ Go(p, IF call[p].byManifest \/ call[p].url \notin Moving THEN "reuse" ELSE "fetch")
  /\ UNCHANGED <<worldVars, cacheVars>>

\* The cached file is dropped when another URL is recorded beside it, or when
\* its URL is an unresolved moving alias.
Compare(p) ==
  /\ At(p, "compare")
  /\ Go(p, IF /\ sidecar[call[p].cached] = call[p].url
              /\ call[p].byManifest \/ call[p].url \notin Moving
           THEN "reuse" ELSE "fetch")
  /\ UNCHANGED <<worldVars, cacheVars>>

\* The recorded URL is read again for the answer.
Reuse(p) ==
  /\ At(p, "reuse")
  /\ LET c == call[p] IN
       Set(p, [c EXCEPT !.pc = "returned", !.result = payload[c.cached],
                        !.cached = NoName,
                        !.resultUrl = IF sidecar[c.cached] = NoUrl THEN c.configured
                                      ELSE sidecar[c.cached]])
  /\ UNCHANGED <<worldVars, cacheVars>>

Bytes(url) == [state |-> "whole", from |-> url, version |-> IF url \in Moving THEN version ELSE 0]

\* Broken variant: curl writes to the destination itself.
FetchInPlace(p) ==
  /\ At(p, "fetch")
  /\ LET n == NameOf[call[p].url] IN
     /\ payload' = [payload EXCEPT ![n] = [Bytes(call[p].url) EXCEPT !.state = "partial"]]
     /\ order' = <<n>> \o RemoveFirst(order, n)
  /\ Set(p, [call[p] EXCEPT !.pc = "replace", !.temp = Bytes(call[p].url)])
  /\ UNCHANGED <<worldVars, sidecar>>

\* curl or aria2c, to a temporary file; the server may send nothing.
Fetch(p) ==
  /\ At(p, "fetch")
  /\ \/ Set(p, [call[p] EXCEPT !.pc = "replace", !.temp = Bytes(call[p].url)])
     \/ Set(p, [call[p] EXCEPT !.pc = "replace", !.temp = [NoFile EXCEPT !.state = "empty"]])
     \/ Fail(p)
  /\ UNCHANGED <<worldVars, cacheVars>>

\* Downloads that end together are ordered by their renames.
Replace(p) ==
  /\ At(p, "replace")
  /\ LET n == NameOf[call[p].url] IN
     /\ payload' = [payload EXCEPT ![n] = call[p].temp]
     /\ order' = <<n>> \o RemoveFirst(order, n)
  /\ Set(p, [call[p] EXCEPT !.pc = "check", !.temp = NoFile])
  /\ UNCHANGED <<worldVars, sidecar>>

CheckPayload(p) ==
  /\ At(p, "check")
  /\ IF payload[NameOf[call[p].url]].state \in {"none", "empty"} THEN Fail(p)
                                                                ELSE Go(p, "truncate")
  /\ UNCHANGED <<worldVars, cacheVars>>

\* write_text opens (and truncates) the file, then writes; opening may fail.
TruncateSidecar(p) ==
  /\ At(p, "truncate")
  /\ \/ /\ sidecar' = [sidecar EXCEPT ![NameOf[call[p].url]] = NoUrl]
        /\ Go(p, "record")
        /\ UNCHANGED faults
     \/ /\ faults < MaxFaults
        /\ faults' = faults + 1
        /\ Fail(p)
        /\ UNCHANGED sidecar
  /\ UNCHANGED <<config, version, payload, order, overlapped>>

RecordUrl(p) ==
  /\ At(p, "record")
  /\ LET c == call[p]  n == NameOf[c.url] IN
     /\ sidecar' = [sidecar EXCEPT ![n] = c.url]
     /\ Set(p, [c EXCEPT !.pc = "returned", !.cached = NoName, !.result = payload[n],
                        !.resultUrl = c.url])
  /\ UNCHANGED <<worldVars, payload, order>>

Step(p) == ReadConfig(p) \/ Lookup(p) \/ Resolve(p) \/ Compare(p) \/ Reuse(p) \/ Fetch(p)
           \/ Replace(p) \/ CheckPayload(p) \/ TruncateSidecar(p) \/ RecordUrl(p)

Next == EditConfig \/ PublishUpstream \/ \E p \in Procs : Step(p) \/ Begin(p) \/ Die(p)

Spec == Init /\ [][Next]_vars

-----------------------------------------------------------------------------
(* Properties.                                                             *)

Returned(p) == call[p].pc = "returned"
Reviewed(p) == Returned(p) /\ call[p].expected # NoUrl

\* No caller is ever given a truncated download, whatever died or raced: a
\* payload only appears by a rename of a finished one.
OnlyWholePayloads ==
  \A p \in Procs : Returned(p) => call[p].result.state # "partial"

\* As long as calls follow one another and none was cut short, the bytes a
\* reviewed plan gets come from the URL that is reported, and that URL is the
\* one its configuration stands for.
ReviewedBytes ==
  ~overlapped /\ faults = 0 => \A p \in Procs : Reviewed(p) =>
    /\ call[p].result.state = "whole"
    /\ call[p].result.from = call[p].resultUrl
    /\ call[p].resultUrl = call[p].url
    /\ call[p].configured = call[p].expected

\* README.md: moving aliases "are refreshed during reviewed execution": even
\* after a death, what a call that ran alone gets is not older than the call.
MovingAliasesFresh ==
  ~overlapped => \A p \in Procs : Reviewed(p) /\ call[p].configured \in Moving
    => call[p].result.version >= call[p].since

\* What a reviewed plan is handed: the URL's own bytes, and current ones.
ReviewedCallsHonoured == ReviewedBytes /\ MovingAliasesFresh

=============================================================================
