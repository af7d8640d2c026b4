----------------------------- MODULE TLSStartup -----------------------------
(***************************************************************************)
(* A manager whose servers follow the cluster's TLS profile, wired as      *)
(* framework/tls/doc.go says: LoadWithAdherence at the start, and a        *)
(* SecurityProfileWatcher that ends the process when profile or adherence  *)
(* policy differ from what was loaded.  Administrators change both, the    *)
(* APIServer object may not be there yet, and loading may fail.            *)
(***************************************************************************)
EXTENDS TLSProfile

CONSTANTS
    ClusterProfiles, \* profiles administrators choose from
    Adherences,      \* adherence policies they choose from
    MaxChanges,      \* bound: changes of the APIServer object
    MaxLoadErrors    \* bound: failing reads at the start

VARIABLES
    apiServer,  \* the APIServer object: served, exists, profile, adherence
    serving,    \* what the servers use, NoSpec if the process does not run
    loaded,     \* the LoadResult the watcher compares with
    changes, loadErrors

tlsVars == <<apiServer, serving, loaded, changes, loadErrors>>

NotLoaded == [spec |-> NoSpec, adherence |-> "", watchable |-> FALSE]
Fallback(watchable) ==
    [spec |-> Intermediate, adherence |-> "NoOpinion", watchable |-> watchable]
LoadFails == [NotLoaded EXCEPT !.spec = TLSError]

TLSInit ==
    /\ apiServer \in [served : BOOLEAN, exists : {FALSE},
                      profile : {[type |-> "", custom |-> NoSpec]}, adherence : {"NoOpinion"}]
    /\ serving = NoSpec /\ loaded = NotLoaded
    /\ changes = 0 /\ loadErrors = 0

\* An administrator creates or changes the object.
ChangeAPIServer ==
    /\ apiServer.served /\ changes < MaxChanges
    /\ changes' = changes + 1
    /\ \E p \in ClusterProfiles, a \in Adherences :
        apiServer' = [apiServer EXCEPT !.exists = TRUE, !.profile = p, !.adherence = a]
    /\ apiServer' # apiServer
    /\ UNCHANGED <<serving, loaded, loadErrors>>

\* Mutant: a missing object is taken for a cluster without the API.
LoadFallbackUnwatched(failed) ==
    IF failed \in {"noMatch", "notFound"} THEN Fallback(FALSE)
    ELSE IF IsTransientAPIError(failed) THEN Fallback(TRUE)
    ELSE LoadFails

LoadFallback(failed) ==
    IF failed = "noMatch" THEN Fallback(FALSE)
    ELSE IF failed = "notFound" \/ IsTransientAPIError(failed) THEN Fallback(TRUE)
    ELSE LoadFails

\* Mutant: the strict profile is not validated.
LoadUnvalidated(failed) ==
    IF failed # "" THEN LoadFallback(failed)
    ELSE [spec |-> LenientProfileSpec(apiServer.profile),
          adherence |-> apiServer.adherence, watchable |-> TRUE]

\* LoadWithAdherence, given how the read fails.
LoadWithAdherence(failed) ==
    IF failed # "" THEN LoadFallback(failed)
    ELSE IF ~ShouldHonorClusterTLSProfile(apiServer.adherence)
    THEN [spec |-> LenientProfileSpec(apiServer.profile),
          adherence |-> apiServer.adherence, watchable |-> TRUE]
    ELSE LET spec == StrictProfileSpec(apiServer.profile)
         IN  IF spec = TLSError \/ ~ValidStrictTLSProfile(spec) THEN LoadFails
             ELSE [spec |-> spec, adherence |-> apiServer.adherence, watchable |-> TRUE]

\* The profile the manager takes from a LoadResult.
Selected(result) ==
    IF ShouldHonorClusterTLSProfile(result.adherence) THEN result.spec ELSE Intermediate

\* The process starts; it does not serve if it cannot load or use a profile.
StartManager(failed) ==
    LET result == LoadWithAdherence(failed)
    IN  /\ serving = NoSpec
        /\ IF \/ result.spec = TLSError
              \/ ConfigFromProfileStrict(Selected(result)) = TLSError
           THEN UNCHANGED <<serving, loaded>>
           ELSE /\ serving' = ConfigFromProfileStrict(Selected(result))
                /\ loaded' = result
        /\ UNCHANGED <<apiServer, changes>>

StartReads ==
    /\ StartManager(IF ~apiServer.served THEN "noMatch"
                    ELSE IF ~apiServer.exists THEN "notFound" ELSE "")
    /\ UNCHANGED loadErrors

StartReadFails ==
    /\ loadErrors < MaxLoadErrors
    /\ loadErrors' = loadErrors + 1
    /\ \E failed \in {"timeout", "dial", "certificate", "forbidden"} : StartManager(failed)

\* The watcher's handler, which also runs once for the object it finds at
\* the start: a difference cancels the manager's context.
WatcherNotices ==
    /\ serving # NoSpec /\ loaded.watchable /\ apiServer.exists
    /\ StrictProfileSpec(apiServer.profile) # TLSError
    /\ \/ StrictProfileSpec(apiServer.profile) # loaded.spec
       \/ apiServer.adherence # loaded.adherence
    /\ serving' = NoSpec /\ loaded' = NotLoaded
    /\ UNCHANGED <<apiServer, changes, loadErrors>>

TLSNext == ChangeAPIServer \/ StartReads \/ StartReadFails \/ WatcherNotices

TLSSpec == TLSInit /\ [][TLSNext]_tlsVars

-----------------------------------------------------------------------------

\* What the cluster asks for; TLSError if it cannot be done, or if the
\* profile is one the watcher cannot read, whatever the policy.
Wanted ==
    IF apiServer.exists /\ StrictProfileSpec(apiServer.profile) = TLSError THEN TLSError
    ELSE IF ~apiServer.exists \/ ~ShouldHonorClusterTLSProfile(apiServer.adherence)
    THEN ConfigFromProfileStrict(Intermediate)
    ELSE OfServers(FromProfileStrict(apiServer.profile))

\* The servers use what can be done of what the cluster asks for.
Following == Wanted # TLSError => serving = Wanted

\* A profile that has been read under a strict policy is served as it is or
\* not at all; no failure turns it into Intermediate (apiserver.go:119).
FailsClosed ==
    serving # NoSpec /\ ShouldHonorClusterTLSProfile(loaded.adherence)
        => /\ ValidStrictTLSProfile(loaded.spec)
           /\ serving = ConfigFromProfileStrict(loaded.spec)
           /\ \E p \in ClusterProfiles : loaded.spec = StrictProfileSpec(p)
=============================================================================
