--------------------------- MODULE FlakinessTool ----------------------------
(***************************************************************************)
(* The periodic runs of flakiness-tool with --push-back: each starts from  *)
(* the quarantine file of the repository, reads the artifacts of the       *)
(* builds, classifies the tests, files a ticket for every quarantined test *)
(* that has none, and commits and pushes the file.  Builds go on all the   *)
(* time.  An artifact may not be readable, or only some of its results be  *)
(* recorded; Jira may fail, or answer too late; the push may fail, and the *)
(* job may be ended anywhere.                                              *)
(*                                                                         *)
(* In the file a test is not quarantined ("no"), or is, without a ticket   *)
(* ("unfiled") or with one ("filed").                                      *)
(***************************************************************************)
EXTENDS Flakiness

CONSTANTS
    Tests,
    BuildResults,    \* what a build may result in: [Tests -> outcomes]
    ExcludedTests,   \* tests that match an exclude pattern
    Threshold, MinRuns, \* cfg.Analysis
    WindowBuilds,    \* the builds that fall into cfg.Analysis.WindowDays
    MaxBuilds,       \* bound: builds
    MaxFaults        \* bound: faults of the artifact store, Jira, git and the job

VARIABLES
    builds,    \* what the artifact store holds, in the order of time
    repo,      \* the quarantine file in the repository
    toolAt,    \* where the run is: idle, scrape, file or push
    entries,   \* its own version of the file
    faults,
    tickets,   \* how many were filed for each test
    lapses     \* ghost: how often a test's ticket was dropped or not learnt of

toolVars == <<builds, repo, toolAt, entries, faults, tickets, lapses>>

Nothing == [t \in Tests |-> "no"]

ToolInit ==
    /\ builds = <<>> /\ repo = Nothing
    /\ toolAt = "idle" /\ entries = Nothing
    /\ faults = 0 /\ tickets = [t \in Tests |-> 0] /\ lapses = [t \in Tests |-> 0]

NewBuild ==
    /\ Len(builds) < MaxBuilds
    /\ \E results \in BuildResults : builds' = Append(builds, results)
    /\ UNCHANGED <<repo, toolAt, entries, faults, tickets, lapses>>

\* run: the prior entries are read from the checkout.
StartRun ==
    /\ toolAt = "idle" /\ toolAt' = "scrape"
    /\ UNCHANGED <<builds, repo, entries, faults, tickets, lapses>>

\* isAnalyzableOutcome and outcomeFromCase: a skipped test did not run.
Analyzable(outcome) == outcome \in {"pass", "fail", "error"}
Failed(outcome) == outcome \in {"fail", "error"}

\* sortedHistory: the run that is the k-th by time.
SortedRun(ran, k) == CHOOSE n \in ran : Cardinality({m \in ran : m <= n}) = k

\* Mutant: a skipped test has passed.
HistoryWithSkipped(t, read) ==
    LET ran == {n \in read : n > Len(builds) - WindowBuilds}
    IN  [k \in 1..Cardinality(ran) |-> Failed(builds[SortedRun(ran, k)][t])]

\* Analyze: the runs of a test in the window, in builds that were read.
HistoryOf(t, read) ==
    LET ran == {n \in read : Analyzable(builds[n][t]) /\ n > Len(builds) - WindowBuilds}
    IN  [k \in 1..Cardinality(ran) |-> Failed(builds[SortedRun(ran, k)][t])]

\* FilterExcluded.
IsQuarantined(t, read) ==
    t \notin ExcludedTests /\ ShouldQuarantine(HistoryOf(t, read), Threshold, MinRuns)

\* Mutant: what was quarantined before is not new.
CarryAsOld(t, quarantined) ==
    IF ~quarantined THEN "no" ELSE IF repo[t] = "unfiled" THEN "old" ELSE
    IF repo[t] = "no" THEN "unfiled" ELSE repo[t]

\* reconcileQuarantine and indexPriorEntries: a test that was quarantined
\* keeps its ticket; without one it counts as new.
CarryOver(t, quarantined) ==
    IF ~quarantined THEN "no" ELSE IF repo[t] = "filed" THEN "filed" ELSE "unfiled"

\* runScrape and runAnalysis.  An artifact some of whose results are
\* recorded is read but not counted; if none counts the run ends here.
Scrape(read, counted) ==
    /\ toolAt = "scrape"
    /\ faults' = faults + Len(builds) - counted
    /\ faults' <= MaxFaults
    /\ IF counted = 0
       THEN toolAt' = "idle" /\ UNCHANGED entries
       ELSE /\ entries' = [t \in Tests |-> CarryOver(t, IsQuarantined(t, read))]
            /\ toolAt' = "file"
    /\ UNCHANGED <<builds, repo, tickets, lapses>>

Unfiled == {t \in Tests : entries[t] = "unfiled"}

\* CreateBug; the ticket may be filed although the answer is not seen.  The
\* run goes on after a failure and does not try again.
CreateBug(t, filed, answered) ==
    /\ toolAt = "file" /\ t \in Unfiled
    /\ faults' = IF answered THEN faults ELSE faults + 1
    /\ faults' <= MaxFaults
    /\ tickets' = IF filed THEN [tickets EXCEPT ![t] = @ + 1] ELSE tickets
    /\ entries' = [entries EXCEPT ![t] = IF answered THEN "filed" ELSE "failed"]
    /\ lapses' = IF filed /\ ~answered THEN [lapses EXCEPT ![t] = @ + 1] ELSE lapses
    /\ UNCHANGED <<builds, repo, toolAt>>

\* checkResolved looks up the tickets of tests that are not quarantined any
\* more, and reports; nothing depends on it.
CheckResolved ==
    /\ toolAt = "file" /\ Unfiled = {}
    /\ toolAt' = "push"
    /\ UNCHANGED <<builds, repo, entries, faults, tickets, lapses>>

\* writeQuarantineList and pushBack; nothing is committed if it is unchanged.
PushBack ==
    /\ toolAt = "push" /\ toolAt' = "idle"
    /\ repo' = [t \in Tests |-> IF entries[t] = "failed" THEN "unfiled" ELSE entries[t]]
    /\ lapses' = [t \in Tests |->
                    IF repo[t] = "filed" /\ entries[t] # "filed" THEN lapses[t] + 1
                    ELSE lapses[t]]
    /\ entries' = Nothing
    /\ UNCHANGED <<builds, faults, tickets>>

\* The job ends early or the push fails; the next one has a fresh checkout.
RunFails ==
    /\ toolAt # "idle" /\ toolAt' = "idle"
    /\ faults < MaxFaults /\ faults' = faults + 1
    /\ lapses' = [t \in Tests |->
                    IF entries[t] = "filed" /\ repo[t] # "filed" THEN lapses[t] + 1
                    ELSE lapses[t]]
    /\ entries' = Nothing
    /\ UNCHANGED <<builds, repo, tickets>>

ToolStep ==
    \/ StartRun \/ CheckResolved \/ PushBack
    \/ \E read \in SUBSET DOMAIN builds : \E counted \in 0..Cardinality(read) : Scrape(read, counted)
    \/ \E t \in Tests : \/ CreateBug(t, TRUE, TRUE)
                        \/ \E filed \in BOOLEAN : CreateBug(t, filed, FALSE)

ToolNext == NewBuild \/ ToolStep \/ RunFails

ToolSpec == ToolInit /\ [][ToolNext]_toolVars

-----------------------------------------------------------------------------

\* A test that has always passed, or always failed, in the builds there are
\* is not quarantined by any run, whichever artifacts it could not read
\* (analyzer.go:187, scraper.go:84).  A test has one ticket, and another one
\* only if it left the quarantine, a run that had filed one was not able to
\* publish it, or Jira's answer was lost (flakiness.go:269).
QuarantineIsEarned ==
    \A t \in Tests :
        /\ repo[t] # "no" => /\ t \notin ExcludedTests
                             /\ \E n \in DOMAIN builds : Failed(builds[n][t])
                             /\ \E n \in DOMAIN builds : builds[n][t] = "pass"
        /\ tickets[t] <= lapses[t] + 1

\* The file says what follows from all the builds, with a ticket for every
\* test in quarantine.
UpToDate ==
    \A t \in Tests : repo[t] = IF IsQuarantined(t, DOMAIN builds) THEN "filed" ELSE "no"
=============================================================================
