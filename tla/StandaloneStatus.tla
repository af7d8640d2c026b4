-------------------------- MODULE StandaloneStatus --------------------------
(***************************************************************************)
(* A reconciler that does without the framework, as                        *)
(* docs/module-operator-scenarios.md shows it (option B): it reads its     *)
(* object, marks conditions with the root module's manager, runs the       *)
(* preconditions and writes the status with status.Update, which retries   *)
(* conflicts.  Another actor writes a condition of its own to the same     *)
(* status, and users change the spec.                                      *)
(*                                                                         *)
(* The informer's copy lags behind; a retry re-reads from the API server   *)
(* or, with a caching client, from that copy.  The caller's mutateFn sets  *)
(* the conditions the reconciliation computed ("own"), or assigns the      *)
(* status of the very object Update re-reads ("alias").                    *)
(***************************************************************************)
EXTENDS RootConditions, Integers

CONSTANTS
    ForeignType,  \* the condition another actor writes
    Checks,       \* the sets of preconditions, with what they return
    Clusters,     \* cluster types RunAll is called with
    Inherited,    \* conditions earlier reconciliations may have stored
    Retries,      \* values of WithMaxRetries
    Clients,      \* clients Update is given: "direct" reads the API server,
                  \* "cached", as a manager's does, the informer's copy
    Mutation,     \* what mutateFn does
    MaxGen,       \* bound: generations of the object
    MaxForeign,   \* bound: writes of the other actor
    MaxCalls,     \* bound: calls of the manager before the preconditions
    MaxClock,     \* bound: instants told apart
    MaxRounds     \* bound: reconciliations

\* Lists of conditions.
AllReasons == RootReasons \union {"", "AllDependentsHealthy", "PreConditionFailed"}
RootSlot ==
    [status : RootStatuses \union {"Missing"}, reason : AllReasons,
     info : BOOLEAN, gen : Nat, time : 0..MaxClock]
RootLists == [RootTypes -> RootSlot]

\* Whoever is happy has no dependent that is known to be unhealthy.
Visible(cs) == cs[Happy].status = "True" => UnhappyDependents(cs) = {}

ASSUME StandaloneStatusAssumption ==
    /\ ForeignType \in RootTypes \ ({Happy} \union Range(RootDependents))
    /\ Retries \subseteq Int /\ Retries # {}
    /\ Clients \subseteq {"direct", "cached"} /\ Clients # {}
    /\ Mutation \in {"own", "alias"}
    /\ {MaxGen, MaxForeign, MaxCalls, MaxRounds} \subseteq Nat /\ MaxClock \in Nat \ {0}

\* Preconditions have types of the reconciler's own.
ASSUME ChecksAssumption ==
    \A ps \in Checks : \A p \in ps :
        p.type \in RootTypes \ {ForeignType} /\ p.info \in BOOLEAN /\ p.stop \in BOOLEAN

\* What is inherited was written by earlier reconciliations.
ASSUME InheritedAssumption ==
    Inherited \subseteq RootLists /\ \A cs \in Inherited : Visible(cs)

VARIABLES
    stored,   \* the object in the API server: version, generation, conditions
    cached,   \* the informer's copy of it
    obj,      \* the reconciler's copy, the one Update is given
    computed, \* the conditions when RunAll was done
    phase,    \* where the reconciler is
    pcs, cluster, pending, stopped,  \* RunAll: checks, types to write, result
    attempt, retries, client, outcome,  \* status.Update
    calls, rounds, clock, foreign, lastForeign,
    contention,  \* others' writes the reconciler's first copy has not seen
    wasReset  \* Reset has been called on the copy of some reconciliation

vars == <<stored, cached, obj, computed, phase, pcs, cluster, pending, stopped,
          attempt, retries, client, outcome, calls, rounds, clock, foreign, contention,
          lastForeign, wasReset>>
server == <<stored, cached, foreign, contention, lastForeign, wasReset>>
checking == <<pcs, cluster, pending, stopped, computed>>
updating == <<attempt, retries, client, outcome>>

\* time.Now(): it never goes back, and need not advance between two calls.
Tick == clock' \in {clock, clock + 1} /\ clock' <= MaxClock

Own == {Happy} \union Range(RootDependents)

Init ==
    /\ stored \in [rv : {1}, gen : {1}, conds : Inherited]
    /\ cached = stored /\ obj = stored
    /\ computed = ResetRoot
    /\ phase = "idle"
    /\ pcs = {} /\ cluster = "" /\ pending = {} /\ stopped = FALSE
    /\ attempt = 0 /\ retries = 0 /\ client \in Clients /\ outcome = "none"
    /\ calls = 0 /\ rounds = 0 /\ clock = 1
    /\ foreign = 0 /\ contention = 0 /\ wasReset = FALSE
    /\ lastForeign = stored.conds[ForeignType]

-----------------------------------------------------------------------------
(***************************************************************************)
(* The API server and the other actors.                                    *)
(***************************************************************************)

UpdateSpec ==
    /\ stored.gen < MaxGen
    /\ stored' = [stored EXCEPT !.gen = @ + 1, !.rv = @ + 1]
    /\ contention' = contention + 1
    /\ UNCHANGED <<cached, obj, phase, checking, updating, calls, rounds, clock,
                   foreign, lastForeign, wasReset>>

ForeignWrite ==
    /\ foreign < MaxForeign
    /\ \E s \in {"True", "False"} :
        LET conds == Upsert(stored.conds, ForeignType, Marked(s, "", FALSE, 0), clock)
        IN  /\ conds # stored.conds
            /\ stored' = [stored EXCEPT !.rv = @ + 1, !.conds = conds]
            /\ lastForeign' = conds[ForeignType]
    /\ foreign' = foreign + 1
    /\ contention' = contention + 1
    /\ UNCHANGED <<cached, obj, phase, checking, updating, calls, rounds, clock, wasReset>>

Sync ==
    /\ cached # stored
    /\ cached' = stored
    /\ UNCHANGED <<stored, obj, phase, checking, updating, calls, rounds, clock,
                   foreign, contention, lastForeign, wasReset>>

-----------------------------------------------------------------------------
(***************************************************************************)
(* The reconciler: conditions and preconditions.                           *)
(***************************************************************************)

\* Get, then conditions.NewManager.
Start ==
    /\ phase \in {"idle", "done"}
    /\ rounds < MaxRounds
    /\ rounds' = rounds + 1
    /\ Tick
    /\ obj' = [cached EXCEPT !.conds = NewRootManager(cached.conds, clock')]
    /\ phase' = "mark"
    /\ calls' = 0 /\ outcome' = "none" /\ contention' = stored.rv - cached.rv
    /\ UNCHANGED <<stored, cached, checking, attempt, retries, client, foreign, lastForeign, wasReset>>

\* One call of the manager.
Manage(conds) ==
    /\ phase = "mark"
    /\ calls < MaxCalls
    /\ calls' = calls + 1
    /\ obj' = [obj EXCEPT !.conds = conds]
    /\ UNCHANGED <<phase, checking, updating, rounds, stored, cached, foreign,
                   contention, lastForeign>>

Mark ==
    /\ Tick /\ UNCHANGED wasReset
    /\ \E t \in Own, s \in RootStatuses, r \in RootReasons, i \in BOOLEAN :
        Manage(SetRootCondition(obj.conds, t, Marked(s, r, i, obj.gen), clock'))

MarkFrom ==
    /\ Tick /\ UNCHANGED wasReset
    /\ \E t \in Range(RootDependents) :
        Manage(MarkRootFrom(obj.conds, t, obj.conds[ForeignType], clock'))

Clear ==
    /\ Tick /\ UNCHANGED wasReset
    /\ \E t \in Own : Manage(ClearRootCondition(obj.conds, t, clock'))

Reset == Manage(ResetRoot) /\ wasReset' = TRUE /\ UNCHANGED clock

\* RunAll evaluates every precondition, whatever the others say.
RunAll ==
    /\ phase = "mark"
    /\ \E ps \in Checks, c \in Clusters :
        /\ pcs' = ps /\ cluster' = c
        /\ pending' = {p.type : p \in ps}
    /\ stopped' = FALSE
    /\ phase' = "write"
    /\ UNCHANGED <<obj, computed, updating, calls, rounds, clock, server>>

\* Mutant: only the last aggregate decides whether to stop.
WriteConditionLastStop ==
    /\ phase = "write"
    /\ Tick
    /\ \E t \in pending :
        LET agg == AggregateOf(pcs, t, cluster)
        IN  /\ obj' = [obj EXCEPT !.conds =
                         SetRootCondition(@, t, Written(agg, obj.gen), clock')]
            /\ pending' = pending \ {t}
            /\ stopped' = agg.stop
    /\ UNCHANGED <<phase, pcs, cluster, computed, updating, calls, rounds, server>>

\* One turn of the loop of writeConditions, over a map: in any order.
WriteCondition ==
    /\ phase = "write"
    /\ Tick
    /\ \E t \in pending :
        LET agg == AggregateOf(pcs, t, cluster)
        IN  /\ obj' = [obj EXCEPT !.conds =
                         SetRootCondition(@, t, Written(agg, obj.gen), clock')]
            /\ pending' = pending \ {t}
            /\ stopped' = (stopped \/ agg.stop)
    /\ UNCHANGED <<phase, pcs, cluster, computed, updating, calls, rounds, server>>

-----------------------------------------------------------------------------
(***************************************************************************)
(* status.Update.                                                          *)
(***************************************************************************)

\* Mutant: a retry stores what it has read.
MutatedOnlyOnce(o) == o

Mutated(o) ==
    IF Mutation = "alias" THEN o
    ELSE [o EXCEPT !.conds = [t \in RootTypes |-> IF t \in Own THEN computed'[t] ELSE @[t]]]

Finish(result) == outcome' = result /\ phase' = "done"

\* The loop's condition and the first mutation; a negative limit makes no
\* attempt at all.
StartUpdate ==
    /\ phase = "write" /\ pending = {}
    /\ computed' = obj.conds
    /\ attempt' = 0
    /\ client' \in Clients
    /\ \E n \in Retries :
        /\ retries' = n
        /\ IF n < 0 THEN Finish("exhausted") /\ UNCHANGED obj
           ELSE /\ obj' = Mutated(obj)
                /\ phase' = "put"
                /\ UNCHANGED outcome
    /\ UNCHANGED <<pcs, cluster, pending, stopped, calls, rounds, clock, server>>

Put ==
    /\ phase = "put"
    /\ obj.rv = stored.rv
    /\ stored' = [stored EXCEPT !.rv = @ + 1, !.conds = obj.conds]
    /\ obj' = stored'
    /\ Finish("ok")
    /\ UNCHANGED <<cached, checking, attempt, retries, client, calls, rounds, clock,
                   foreign, contention, lastForeign, wasReset>>

\* Mutant: one retry fewer than asked for.
ConflictOneShort ==
    /\ phase = "put"
    /\ obj.rv # stored.rv
    /\ attempt' = attempt + 1
    /\ IF attempt' >= retries THEN Finish("exhausted")
       ELSE phase' = "reread" /\ UNCHANGED outcome
    /\ UNCHANGED <<obj, retries, client, checking, calls, rounds, clock, server>>

Conflict ==
    /\ phase = "put"
    /\ obj.rv # stored.rv
    /\ attempt' = attempt + 1
    /\ IF attempt' > retries THEN Finish("exhausted")
       ELSE phase' = "reread" /\ UNCHANGED outcome
    /\ UNCHANGED <<obj, retries, client, checking, calls, rounds, clock, server>>

PutFails ==
    /\ phase = "put"
    /\ Finish("error")
    /\ UNCHANGED <<obj, attempt, retries, client, checking, calls, rounds, clock, server>>

\* Mutant: a retry takes the new version and keeps the old content.
RereadVersionOnly ==
    /\ phase = "reread"
    /\ obj' = [obj EXCEPT !.rv = stored.rv]
    /\ phase' = "put"
    /\ UNCHANGED <<checking, updating, calls, rounds, clock, server>>

Reread ==
    /\ phase = "reread"
    /\ UNCHANGED computed
    /\ obj' = Mutated(IF client = "cached" THEN cached ELSE stored)
    /\ phase' = "put"
    /\ UNCHANGED <<pcs, cluster, pending, stopped, updating, calls, rounds, clock, server>>

RereadFails ==
    /\ phase = "reread"
    /\ Finish("error")
    /\ UNCHANGED <<obj, attempt, retries, client, checking, calls, rounds, clock, server>>

Next ==
    \/ UpdateSpec \/ ForeignWrite \/ Sync
    \/ Start \/ Mark \/ MarkFrom \/ Clear \/ Reset
    \/ RunAll \/ WriteCondition
    \/ StartUpdate \/ Put \/ Conflict \/ PutFails \/ Reread \/ RereadFails

Spec == Init /\ [][Next]_vars

-----------------------------------------------------------------------------

\* After any calls of the manager, and in what is stored, the object is
\* never happy while a dependent is known to be unhealthy: RecomputeHappiness
\* follows every write that changed something (conditions.go:178).
UnhappyIsVisible == \A cs \in {stored.conds, obj.conds} : Visible(cs)

\* When RunAll asks to stop for a check of Error severity whose type is a
\* dependent, Ready says so, whatever the order in which the map of results
\* was written and whatever was marked before (precondition.go:260).
StopIsReported ==
    phase = "write" /\ pending = {} =>
        /\ stopped <=> \E p \in pcs : p.stop /\ Verdict(p, cluster) # "True"
        /\ (\E p \in pcs : /\ Verdict(p, cluster) # "True" /\ ~p.info
                           /\ p.type \in Range(RootDependents))
              => obj.conds[Happy].status # "True"

\* A write of another actor is never undone: an Update that raced with it
\* conflicts and mutates what it re-reads (update.go:71).  Only Reset, which
\* empties the whole list, takes another actor's condition along.
ForeignSurvives ==
    stored.conds[ForeignType] # lastForeign
        => wasReset /\ stored.conds[ForeignType] = Missing

\* An Update that returned nil has stored what the reconciliation computed,
\* however many conflicts came before (update.go:42: "re-reads the object,
\* re-applies mutateFn, and retries").
SuccessIsStored ==
    phase = "done" /\ outcome = "ok" =>
        \A t \in Own : stored.conds[t] = computed[t]

\* An Update that gives up with "the object was modified by another actor on
\* every attempt" (update.go:15) was overtaken by one write more than it had
\* retries, when the client reads from the API server.  A caching client may
\* read the same old copy on every attempt: there one write is enough, and
\* never none.
ExhaustedMeansContention ==
    outcome = "exhausted" /\ retries >= 0 =>
        contention >= (IF client = "direct" THEN retries + 1 ELSE 1)
=============================================================================
