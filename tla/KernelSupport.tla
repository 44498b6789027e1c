---------------------------- MODULE KernelSupport ----------------------------
(***************************************************************************)
(* Looking for the modules and the configuration of a kernel version       *)
(* (_inspect_kernel_support of build_iso.py): first on the host, then in   *)
(* the cache the packages of that version are downloaded and unpacked      *)
(* into.  The module is about one version, whose cache every later run of  *)
(* it shares.                                                              *)
(***************************************************************************)
EXTENDS Integers, Sequences, FiniteSets, SequencesExt

CONSTANTS
    Candidates,   \* the packages tried, in order
    Provides,     \* package -> [dir, modules, config] it unpacks
    Host,         \* [dir, modules, config] found on this host
    Index         \* "stale" or "fresh" -> the packages apt can download

VARIABLES
    cache,        \* [packages, unpacked]
    support       \* the inspection under way

kernelVars == <<cache, support>>

\* apt's indexes are about the candidates.
ASSUME CandidatesAssumption ==
    /\ Candidates \in Seq(DOMAIN Provides)
    /\ \A i \in {"stale", "fresh"} : Index[i] \subseteq ToSet(Candidates)

EmptyCache == [packages |-> {}, unpacked |-> {}]

\* asked: the modules, and symbols: whether configuration symbols were asked for.
Idle == [phase |-> "idle", asked |-> {}, symbols |-> FALSE, todo |-> <<>>, got |-> {}, index |-> "stale",
         updated |-> FALSE, tree |-> "none", found |-> {}, config |-> FALSE]

ModulesOf(packages) == UNION {Provides[p].modules : p \in packages}

\* The unpacked tree of the version: any package that holds its directory makes it.
CachedTree == \E p \in cache.unpacked : Provides[p].dir
CachedConfig == \E p \in cache.unpacked : Provides[p].config

OnHost(asked, symbols) ==
    [Idle EXCEPT !.phase = "done", !.asked = asked, !.symbols = symbols,
                 !.tree = IF Host.dir THEN "host" ELSE "none",
                 !.found = IF Host.dir THEN asked \cap Host.modules ELSE {},
                 !.config = Host.config \/ CachedConfig]

DownloadNeeded(look) ==
    look.tree = "none" \/ look.found # look.asked \/ (look.symbols /\ ~look.config)

BeginInspection(asked, symbols, download) ==
    /\ support.phase = "idle"
    /\ LET look == OnHost(asked, symbols)
       IN support' = IF download /\ DownloadNeeded(look)
                     THEN [look EXCEPT !.phase = "fetch", !.todo = Candidates] ELSE look
    /\ UNCHANGED cache

\* A package already in the directory brings no new file: it counts as not
\* downloaded, and is not unpacked.
Skip ==
    /\ support.phase = "fetch" /\ support.todo # <<>>
    /\ Head(support.todo) \notin Index[support.index] \ cache.packages
    /\ support' = [support EXCEPT !.todo = Tail(@)]
    /\ UNCHANGED cache

Fetch ==
    /\ support.phase = "fetch" /\ support.todo # <<>>
    /\ Head(support.todo) \in Index[support.index] \ cache.packages
    /\ cache' = [cache EXCEPT !.packages = @ \cup {Head(support.todo)}]
    /\ support' = [support EXCEPT !.phase = "unpack", !.got = @ \cup {Head(support.todo)}]

\* A failure to unpack becomes a note.
Unpack ==
    /\ support.phase = "unpack"
    /\ \E whole \in BOOLEAN :
          cache' = IF whole THEN [cache EXCEPT !.unpacked = @ \cup {Head(support.todo)}] ELSE cache
    /\ support' = [support EXCEPT !.phase = "fetch", !.todo = Tail(@)]

\* Broken variant: the list is not tried again.
RefreshOnly ==
    /\ support.phase = "fetch" /\ support.todo = <<>> /\ support.got = {} /\ ~support.updated
    /\ support' = [support EXCEPT !.updated = TRUE, !.index = "fresh"]
    /\ UNCHANGED cache

\* Nothing came: the indexes are refreshed once and the list is tried again.
RefreshIndex ==
    /\ support.phase = "fetch" /\ support.todo = <<>> /\ support.got = {} /\ ~support.updated
    /\ \E refreshed \in BOOLEAN :
          support' = [support EXCEPT !.updated = TRUE,
                                     !.index = IF refreshed THEN "fresh" ELSE @,
                                     !.todo = IF refreshed THEN Candidates ELSE <<>>]
    /\ UNCHANGED cache

\* The cached tree, where there is one, takes the place of the host's.
Conclude ==
    /\ support.phase = "fetch" /\ support.todo = <<>> /\ (support.got # {} \/ support.updated)
    /\ support' = IF CachedTree
                  THEN [support EXCEPT !.phase = "done", !.tree = "cache",
                           !.found = support.asked \cap ModulesOf(cache.unpacked),
                           !.config = Host.config \/ CachedConfig]
                  ELSE [support EXCEPT !.phase = "done"]
    /\ UNCHANGED cache

Inspect == Skip \/ Fetch \/ Unpack \/ RefreshIndex \/ Conclude

(***************************************************************************)
(* What the cache promises.  A package it holds without its contents is    *)
(* never unpacked again: a failure or a kill between the two strands it.   *)
(***************************************************************************)
Stranded == cache.packages \ cache.unpacked

\* A download leaves no module unfound that a package apt offers carries,
\* whatever earlier runs left in the cache, as long as none is stranded and
\* some package of the version made its directory
\* (_populate_kernel_support_cache).
OfferedModulesFound ==
    (support.phase = "done" /\ support.tree = "cache" /\ Stranded = {}) =>
        support.asked \cap ModulesOf(Index[support.index]) \subseteq support.found
==============================================================================
