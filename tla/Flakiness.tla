----------------------------- MODULE Flakiness ------------------------------
(***************************************************************************)
(* What the flakiness tool computes: the classification of a test by the   *)
(* builds it ran in (analyzer.go), the lists of a report (report.go), the  *)
(* configuration it accepts (config.go), percentiles and timeout budgets   *)
(* (runtime.go, budget.go).  Its runs are in FlakinessTool.                *)
(*                                                                         *)
(* A history is the sequence of a test's runs by time, TRUE for a failed   *)
(* one; rates are in percent, kept as products.                            *)
(***************************************************************************)
EXTENDS Integers, FiniteSetsExt, SequencesExt

CONSTANTS NaN, Bad   \* a number that is none, a text that is no number

MinRecentFailsForRegression == 3
MaxPreTransitionFailRate == 20

Failures(h) == Cardinality({n \in DOMAIN h : h[n]})

\* Nothing compares with NaN.
FlakeRateExceeds(h, threshold) ==
    threshold # NaN /\ Len(h) > 0 /\ Failures(h) * 100 > threshold * Len(h)

CountTrailingFailures(h) ==
    Len(h) - Max({0} \union {n \in DOMAIN h : ~h[n]})

\* Mutant: one more failure is needed.
AnalyzeTooLate(h, minRuns) ==
    LET trailing == CountTrailingFailures(h)
        pre == SubSeq(h, 1, Len(h) - trailing)
    IN  IF Len(h) < minRuns \/ Failures(h) = 0 THEN "healthy"
        ELSE IF Failures(h) = Len(h) THEN "persistent"
        ELSE IF trailing <= MinRecentFailsForRegression THEN "flaky"
        ELSE IF Failures(pre) * 100 <= MaxPreTransitionFailRate * Len(pre)
        THEN "regression" ELSE "flaky"

\* analyzeWith.  What has passed leaves something before the streak.
AnalyzeWith(h, minRuns) ==
    LET trailing == CountTrailingFailures(h)
        pre == SubSeq(h, 1, Len(h) - trailing)
    IN  IF Len(h) < minRuns \/ Failures(h) = 0 THEN "healthy"
        ELSE IF Failures(h) = Len(h) THEN "persistent"
        ELSE IF trailing < MinRecentFailsForRegression THEN "flaky"
        ELSE IF Failures(pre) * 100 <= MaxPreTransitionFailRate * Len(pre)
        THEN "regression" ELSE "flaky"

\* TransitionCommitWith: the first run of the streak, 0 if it is no regression.
Transition(h, minRuns) ==
    IF AnalyzeWith(h, minRuns) = "regression" THEN Len(h) - CountTrailingFailures(h) + 1 ELSE 0

ShouldQuarantine(h, threshold, minRuns) ==
    AnalyzeWith(h, minRuns) = "flaky" /\ FlakeRateExceeds(h, threshold)

-----------------------------------------------------------------------------
(***************************************************************************)
(* A report: tests |-> histories.                                          *)
(***************************************************************************)

\* classifyWith.
ClassifyWith(tests, quarantine, threshold, minRuns) ==
    [t \in DOMAIN tests |->
        [pattern |-> AnalyzeWith(tests[t], minRuns),
         quarantine |-> /\ quarantine /\ AnalyzeWith(tests[t], minRuns) = "flaky"
                        /\ FlakeRateExceeds(tests[t], threshold),
         transition |-> Transition(tests[t], minRuns)]]

QuarantineList(tests, threshold, minRuns) ==
    [t \in {u \in DOMAIN tests : AnalyzeWith(tests[u], minRuns) # "healthy"} |->
        [pattern |-> AnalyzeWith(tests[t], minRuns),
         quarantined |-> /\ AnalyzeWith(tests[t], minRuns) = "flaky"
                         /\ FlakeRateExceeds(tests[t], threshold),
         transition |-> Transition(tests[t], minRuns)]]

ExceedingThreshold(tests, threshold) ==
    {t \in DOMAIN tests : FlakeRateExceeds(tests[t], threshold)}

Regressions(tests, minRuns) ==
    {t \in DOMAIN tests : AnalyzeWith(tests[t], minRuns) = "regression"}

FlakyTests(tests, threshold, minRuns) ==
    {t \in DOMAIN tests : ShouldQuarantine(tests[t], threshold, minRuns)}

-----------------------------------------------------------------------------
(***************************************************************************)
(* The configuration.  Required fields are BOOLEAN (given or not); texts   *)
(* that Validate parses are "", "good" or "bad"; YAML and ParseFloat accept *)
(* NaN.  env maps the variables that are set, to Bad if a number does not  *)
(* parse.                                                                  *)
(***************************************************************************)

ConfigError == [error |-> TRUE]
DefaultThreshold == 20
DefaultWindowDays == 30
DefaultMinRunsConfig == 5

ApplyDefaults(c) ==
    [c EXCEPT !.threshold = IF @ = 0 THEN DefaultThreshold ELSE @,
              !.windowDays = IF @ = 0 THEN DefaultWindowDays ELSE @,
              !.minRuns = IF @ = 0 THEN DefaultMinRunsConfig ELSE @]

EnvParses(env) == \A f \in DOMAIN env : env[f] # Bad
ApplyEnvOverrides(c, env) ==
    [f \in DOMAIN c |-> IF f \in DOMAIN env THEN env[f] ELSE c[f]]

IsConfigured(c) == c.timeouts # ""

ValidConfig(c) ==
    /\ c.component /\ c.bucket /\ c.prefixes
    /\ c.threshold = NaN \/ (c.threshold > 0 /\ c.threshold <= 100)
    /\ c.windowDays > 0 /\ c.minRuns > 0
    /\ c.patterns # "bad" /\ c.expires # "bad"
    /\ c.apiURL = c.tokenEnv
    /\ c.warning = NaN \/ (c.warning >= 0 /\ c.warning <= 100)
    /\ IsConfigured(c) => c.timeouts = "good"

LoadConfig(file, env) ==
    IF ~EnvParses(env) \/ ~ValidConfig(ApplyEnvOverrides(ApplyDefaults(file), env))
    THEN ConfigError
    ELSE ApplyEnvOverrides(ApplyDefaults(file), env)

-----------------------------------------------------------------------------
(***************************************************************************)
(* Runtimes.  A series is [name, suite, build, values], values being whole *)
(* seconds; percentiles are in hundredths of a second.                     *)
(***************************************************************************)

Seconds(series) == [s \in series |-> SumFunction(s.values)]

\* percentile: between the two samples next to the rank.
Percentile(sorted, p) ==
    LET rank == p * (Len(sorted) - 1)
        lower == sorted[rank \div 100 + 1]
        upper == sorted[IF rank % 100 = 0 THEN rank \div 100 + 1 ELSE rank \div 100 + 2]
    IN  lower * (100 - (rank % 100)) + upper * (rank % 100)

\* The samples of one test, of all its series: a series and a place in it |->
\* the value there.
SamplesOf(series, k) ==
    LET own == {s \in series : <<s.name, s.suite>> = k}
    IN  [x \in UNION {{s} \X DOMAIN s.values : s \in own} |-> x[1].values[x[2]]]

\* sort.Float64s: with fewer than k samples below the k-th and k up to it.
Sorted(samples) ==
    [k \in 1..Cardinality(DOMAIN samples) |->
        CHOOSE v \in Range(samples) :
            /\ Cardinality({x \in DOMAIN samples : samples[x] < v}) < k
            /\ Cardinality({x \in DOMAIN samples : samples[x] <= v}) >= k]

AggregateRuntimes(series) ==
    {LET v == Sorted(SamplesOf(series, k))
     IN  [name |-> k[1], suite |-> k[2], p50 |-> Percentile(v, 50),
          p95 |-> Percentile(v, 95), p99 |-> Percentile(v, 99),
          max |-> 100 * v[Len(v)], samples |-> Len(v)] :
        k \in {<<s.name, s.suite>> : s \in series}}

AggregateSuiteRuntimes(series) ==
    [u \in {s.suite : s \in series} |->
        [total |-> SumFunctionOnSet(Seconds(series), {s \in series : s.suite = u}),
         tests |-> {s.name : s \in {r \in series : r.suite = u}}]]

\* groupByBuild: builds without an identity count as one.
GroupByBuild(series) ==
    [b \in {s.build : s \in series} |-> AggregateSuiteRuntimes({s \in series : s.build = b})]

\* computePipelineBudget and computeSuiteBudgets: the worst build, in seconds.
PipelineBudget(series) ==
    LET g == GroupByBuild(series)
    IN  Max({0} \union {SumFunction([u \in DOMAIN g[b] |-> g[b][u].total]) : b \in DOMAIN g})

SuiteBudget(series, u) ==
    LET g == GroupByBuild(series)
    IN  Max({0} \union {g[b][u].total : b \in {c \in DOMAIN g : u \in DOMAIN g[c]}})

HeadroomMultiplier == 150
LowerThreshold == 30
OneSecond == 10000

\* timeout is in ten-thousandths of a second, as what is suggested is.
Utilised(rt, timeout, percent) == percent # NaN /\ rt.p95 * 10000 >= percent * timeout

DetectNearTimeout(runtimes, timeout, threshold) ==
    {rt \in runtimes : timeout > 0 /\ Utilised(rt, timeout, threshold)}

\* computeRecommendations, for one test.
Recommend(rt, timeout, threshold) ==
    IF timeout > 0 /\ Utilised(rt, timeout, threshold)
    THEN [action |-> "raise", to |-> rt.p99 * HeadroomMultiplier]
    ELSE IF timeout > 0 /\ rt.p95 * 10000 <= LowerThreshold * timeout /\ rt.samples >= 5
    THEN [action |-> "lower", to |-> Max({OneSecond, rt.p99 * HeadroomMultiplier})]
    ELSE [action |-> "none", to |-> 0]

-----------------------------------------------------------------------------

\* A test that has failed without a break since some point, before which it
\* was reliable, is not quarantined, wherever that point is put: quarantine
\* does not hide a regression (analyzer.go:203).
HidesNoRegression(h, threshold, minRuns) ==
    (\E n \in 1..(Len(h) - MinRecentFailsForRegression) :
        /\ \A k \in (n + 1)..Len(h) : h[k]
        /\ Failures(SubSeq(h, 1, n)) * 100 <= MaxPreTransitionFailRate * n)
        => ~ShouldQuarantine(h, threshold, minRuns)

\* The quarantine file, the classification and the lists agree on what is
\* quarantined and which build broke a test (report.go:114).
ReportsAgree(tests, threshold, minRuns) ==
    LET list == QuarantineList(tests, threshold, minRuns)
        all == ClassifyWith(tests, TRUE, threshold, minRuns)
        quarantined == {t \in DOMAIN list : list[t].quarantined}
    IN  /\ quarantined = FlakyTests(tests, threshold, minRuns)
        /\ quarantined = {t \in DOMAIN all : all[t].quarantine}
        /\ quarantined \subseteq ExceedingThreshold(tests, threshold)
        /\ {t \in DOMAIN list : list[t].transition > 0} = Regressions(tests, minRuns)
        /\ \A t \in Regressions(tests, minRuns) :
            /\ all[t].transition = list[t].transition
            /\ tests[t][all[t].transition] /\ ~tests[t][all[t].transition - 1]

\* A configuration that is loaded, whatever comes from the file and what from
\* the environment, is complete, its patterns compile, which MustCompile
\* relies on, and its threshold is in range, or NaN, for which both
\* comparisons of config.go:166 are false although (0, 1] is demanded; then
\* no history of a test leads to quarantine.
LoadedIsSafe(file, env, histories) ==
    LET c == LoadConfig(file, env)
    IN  c # ConfigError =>
            /\ c.component /\ c.bucket /\ c.prefixes
            /\ \/ c.threshold \in 1..100
               \/ /\ c.threshold = NaN
                  /\ \A h \in histories : ~ShouldQuarantine(h, c.threshold, c.minRuns)
            /\ c.windowDays > 0 /\ c.minRuns > 0
            /\ c.patterns # "bad" /\ c.timeouts # "bad" /\ c.expires # "bad"
            /\ c.apiURL = c.tokenEnv

\* The percentiles of a test are ordered and do not exceed its maximum
\* (runtime.go:245).
PercentilesOrdered(series) ==
    \A rt \in AggregateRuntimes(series) :
        rt.p50 <= rt.p95 /\ rt.p95 <= rt.p99 /\ rt.p99 <= rt.max

\* The pipeline's budget lies between its worst suite and all the samples of
\* its builds, and is that of one build (budget.go:135).
BudgetsNest(series) ==
    /\ \A s \in series : SuiteBudget(series, s.suite) <= PipelineBudget(series)
    /\ series # {} =>
        \E b \in {s.build : s \in series} :
            PipelineBudget(series) =
                SumFunction(Seconds({s \in series : s.build = b}))

\* The timeout of a test whose maintainers do what is suggested.
Follow(rt, timeout, threshold) ==
    LET r == Recommend(rt, timeout, threshold)
    IN  IF r.action = "none" THEN timeout ELSE r.to

\* Tests near their timeout, and no others, are told to raise it.  Whatever
\* the threshold, NaN too, following suggestions comes to rest after two of
\* them: they do not send a timeout up and down, nor to zero.  With a threshold
\* above two thirds, as the default is, a raise is one, and is enough; with
\* a lower one the suggestion can be shorter than what it is to raise, as
\* it does not look at the timeout there is (budget.go:265).
SuggestionsSettle(runtimes, timeout, threshold) ==
    \A rt \in runtimes :
        LET r == Recommend(rt, timeout, threshold)
            once == Follow(rt, timeout, threshold)
            twice == Follow(rt, once, threshold)
        IN  /\ r.action = "raise" <=> rt \in DetectNearTimeout(runtimes, timeout, threshold)
            /\ Follow(rt, twice, threshold) = twice
            /\ timeout > 0 => once > 0
            /\ r.action = "raise" /\ threshold * 3 > 200 =>
                    r.to > timeout /\ ~Utilised(rt, r.to, threshold)
=============================================================================
