----------------------------- MODULE Reconciler -----------------------------
(***************************************************************************)
(* The generic Reconciler of framework/controller/reconciler, reconciling  *)
(* one object: finalizers, the action pipeline of apply(), the conditions  *)
(* it computes and the status it publishes.                                *)
(*                                                                         *)
(* Around it stand the parts of a cluster it talks to: the object as the   *)
(* API server stores it, the informer cache Reconcile reads from, which    *)
(* lags behind, and the work queue that hands out one reconciliation of a  *)
(* key at a time.  The actions and finalizers are user code: each returns  *)
(* some outcome of the kinds the reconciler tells apart.                   *)
(***************************************************************************)
EXTENDS Conditions

CONSTANTS
    Provisioning,        \* provisioningConditionType
    PreConditionFailed,  \* preApplyFailedReason
    ErrorReason,         \* ConditionReasonError
    NumActions,          \* len(r.Actions)
    NumFinalizers,       \* len(r.Finalizer)
    ActionOutcomes,      \* what an action may return
    FinalizerOutcomes,   \* what a finalizer action may return
    HasPreApply,         \* preApplyFn is set
    SkipCleanup,         \* skipConditionCleanup
    SkipStatus,          \* skipStatusConditionsFn is set
    DefaultRequeue,      \* defaultRequeueAfter > 0
    MaxGen,              \* bound: generations of one object
    MaxUid,              \* bound: times the object is created
    MaxFaults            \* bound: failures of user code, API calls and process

\* How an action can end: nil, a RequeueAfterError, a StopError without and
\* with a delay, any other error.
Outcomes == {"ok", "requeue", "stop", "stopRequeue", "error"}

ASSUME ReconcilerAssumption ==
    /\ Provisioning \in Types \ {Target}
    /\ {PreConditionFailed, ErrorReason} \subseteq Reasons
    /\ NumActions \in Nat /\ NumFinalizers \in Nat
    /\ ActionOutcomes \subseteq Outcomes
    /\ FinalizerOutcomes \subseteq {"ok", "stop", "error"}
    /\ HasPreApply \in BOOLEAN /\ SkipCleanup \in BOOLEAN
    /\ SkipStatus \in BOOLEAN /\ DefaultRequeue \in BOOLEAN
    /\ MaxGen \in Nat \ {0, 1} /\ MaxUid \in Nat \ {0} /\ MaxFaults \in Nat
    /\ 0 .. MaxGen \subseteq Generations

VARIABLES
    obj,      \* the object in the API server
    cache,    \* the informer's copy of it
    queued,   \* its key waits in the work queue, now or after a delay
    pc,       \* where the worker is in Reconcile
    res,      \* the worker's copy of the object
    step,     \* index of the next action or finalizer
    active,   \* the manager's activeTypes
    requeue,  \* requeueAfter > 0
    perr,     \* provisionErr, or "preApply" when preApplyFn stopped
    effects,  \* external state left by actions; finalizer k removes k
    faults,   \* failures so far
    run       \* history: what the last published reconciliation did

vars == <<obj, cache, queued, pc, res, step, active, requeue, perr,
          effects, faults, run>>
worker == <<res, step, active, requeue, perr>>

NoConds == [t \in Types |-> Absent]
NoStatus == [phase |-> "", observed |-> 0, conds |-> NoConds]

Gone(uid) == [present |-> FALSE, uid |-> uid, gen |-> 0, deleting |-> FALSE,
              fin |-> FALSE, status |-> NoStatus]

Effects == 1 .. NumFinalizers

\* A failure uses up one of the MaxFaults the environment may cause.
Fault == faults < MaxFaults /\ faults' = faults + 1

-----------------------------------------------------------------------------
(***************************************************************************)
(* The users and the API server.                                           *)
(***************************************************************************)

Create ==
    /\ ~obj.present
    /\ obj.uid < MaxUid
    /\ obj' = [Gone(obj.uid + 1) EXCEPT !.present = TRUE, !.gen = 1]
    /\ UNCHANGED <<cache, queued, pc, worker, effects, faults, run>>

UpdateSpec ==
    /\ obj.present
    /\ obj.gen < MaxGen - 1
    /\ obj' = [obj EXCEPT !.gen = @ + 1]
    /\ UNCHANGED <<cache, queued, pc, worker, effects, faults, run>>

\* Without a finalizer the object goes at once; with one it is marked, which
\* also increments its generation.
Delete ==
    /\ obj.present /\ ~obj.deleting
    /\ obj' = IF obj.fin THEN [obj EXCEPT !.deleting = TRUE, !.gen = @ + 1]
              ELSE Gone(obj.uid)
    /\ UNCHANGED <<cache, queued, pc, worker, effects, faults, run>>

\* Mutant: generations are not compared.
PassesPredicateNoGeneration(old, new) ==
    old.present # new.present \/ old.uid # new.uid

\* The events the watch on the reconciled kind lets through, by the
\* DefaultPredicate ReconcilerFor gives it: creation, deletion, a new
\* generation.  A change of status or finalizers alone is filtered out.
PassesPredicate(old, new) ==
    old.present # new.present \/ old.uid # new.uid \/ old.gen # new.gen

InformerSync ==
    /\ cache # obj
    /\ cache' = obj
    /\ queued' = (queued \/ PassesPredicate(cache, obj))
    /\ UNCHANGED <<obj, pc, worker, effects, faults, run>>

\* The process dies at any point and restarts: the informer lists the
\* object and enqueues it.
Crash ==
    /\ Fault
    /\ cache' = obj
    /\ queued' = obj.present
    /\ pc' = "idle"
    /\ res' = Gone(0) /\ step' = 1 /\ active' = {} /\ requeue' = FALSE /\ perr' = "ok"
    /\ UNCHANGED <<obj, effects, run>>

-----------------------------------------------------------------------------
(***************************************************************************)
(* Reconcile.                                                              *)
(***************************************************************************)

\* Mutant: an error is logged but the key is not put back.
ReturnForgetting(again) ==
    /\ pc' = "idle"
    /\ UNCHANGED queued
    /\ res' = Gone(0) /\ step' = 1 /\ active' = {} /\ requeue' = FALSE /\ perr' = "ok"

\* Reconcile returns: an error or a delay puts the key back in the queue.
Return(again) ==
    /\ pc' = "idle"
    /\ queued' = (queued \/ again)
    /\ res' = Gone(0) /\ step' = 1 /\ active' = {} /\ requeue' = FALSE /\ perr' = "ok"

Goto(label) == pc' = label /\ UNCHANGED queued

\* Get (from the cache) and the branch on the deletion timestamp.
StartReconcile ==
    /\ pc = "idle" /\ queued
    /\ queued' = FALSE
    /\ IF ~cache.present \/ (cache.deleting /\ ~cache.fin)
       THEN UNCHANGED <<pc, res, step>>
       ELSE /\ res' = cache
            /\ step' = 1
            /\ pc' = IF cache.deleting
                     THEN IF NumFinalizers = 0 THEN "removeFinalizer" ELSE "finalize"
                     ELSE IF NumFinalizers > 0 /\ ~cache.fin THEN "addFinalizer"
                     ELSE "apply"
    /\ UNCHANGED <<obj, cache, active, requeue, perr, effects, faults, run>>

\* Mutant: the pipeline goes on although the finalizer could not be stored.
AddFinalizerIgnoringErrors ==
    /\ pc = "addFinalizer"
    /\ IF res = obj
       THEN obj' = [obj EXCEPT !.fin = TRUE] /\ res' = obj'
       ELSE UNCHANGED <<obj, res>>
    /\ Goto("apply")
    /\ UNCHANGED <<cache, step, active, requeue, perr, effects, faults, run>>

\* addFinalizer: an Update carries the resource version that was read, so it
\* fails on any other version of the object; on success the worker's copy
\* becomes the stored object.
AddFinalizer ==
    /\ pc = "addFinalizer"
    /\ \/ /\ res = obj
          /\ obj' = [obj EXCEPT !.fin = TRUE]
          /\ res' = obj'
          /\ Goto("apply")
          /\ UNCHANGED <<step, active, requeue, perr, faults>>
       \/ /\ res # obj
          /\ Return(TRUE)
          /\ UNCHANGED <<obj, faults>>
       \/ /\ Fault
          /\ Return(TRUE)
          /\ UNCHANGED obj
    /\ UNCHANGED <<cache, effects, run>>

\* Mutants: a failed finalizer action is skipped; the loop runs once more.
RunFinalizerSkippingErrors(outcome) ==
    /\ pc = "finalize"
    /\ effects' = IF outcome = "ok" THEN effects \ {step} ELSE effects
    /\ IF outcome = "ok" THEN UNCHANGED faults ELSE Fault
    /\ step' = step + 1
    /\ Goto(IF step = NumFinalizers THEN "removeFinalizer" ELSE "finalize")
    /\ UNCHANGED <<obj, cache, res, active, requeue, perr, run>>

RunFinalizerOnceMore(outcome) ==
    /\ pc = "finalize"
    /\ outcome = "ok"
    /\ effects' = effects \ {step}
    /\ step' = step + 1
    /\ Goto(IF step > NumFinalizers THEN "removeFinalizer" ELSE "finalize")
    /\ UNCHANGED <<obj, cache, res, active, requeue, perr, faults, run>>

\* delete: the finalizer actions in order.  An error ends the
\* reconciliation; a StopError ends the loop only, and delete returns nil.
RunFinalizer(outcome) ==
    /\ pc = "finalize"
    /\ effects' = IF outcome = "ok" THEN effects \ {step} ELSE effects
    /\ \/ /\ outcome = "ok"
          /\ step' = step + 1
          /\ Goto(IF step = NumFinalizers THEN "removeFinalizer" ELSE "finalize")
          /\ UNCHANGED <<res, active, requeue, perr, faults>>
       \/ /\ outcome = "stop"
          /\ Fault
          /\ Goto("removeFinalizer")
          /\ UNCHANGED worker
       \/ /\ outcome = "error"
          /\ Fault
          /\ Return(TRUE)
    /\ UNCHANGED <<obj, cache, run>>

\* removeFinalizer: with its last finalizer gone a deleted object goes too.
RemoveFinalizer ==
    /\ pc = "removeFinalizer"
    /\ \/ /\ res = obj
          /\ obj' = Gone(obj.uid)
          /\ Return(FALSE)
          /\ UNCHANGED faults
       \/ /\ res # obj
          /\ Return(TRUE)
          /\ UNCHANGED <<obj, faults>>
       \/ /\ Fault
          /\ Return(TRUE)
          /\ UNCHANGED obj
    /\ UNCHANGED <<cache, effects, run>>

-----------------------------------------------------------------------------
(***************************************************************************)
(* apply.                                                                  *)
(***************************************************************************)

Mark(cs, t, status, reason, severity, gen) ==
    SetCondition(cs, t, [status |-> status, reason |-> reason,
                         severity |-> severity, gen |-> gen])

\* The conditions user code may leave marked: none, or one type other than
\* the target as healthy or unhealthy.
UserMarks == {<<>>} \union ((Types \ {Target}) \X {TRUE, FALSE})

WithMark(cs, m) ==
    IF m = <<>> THEN cs
    ELSE Mark(cs, m[1], IF m[2] THEN HealthyStatus(m[1]) ELSE UnhealthyStatus(m[1]),
              NoReason, "", res.gen)

MarkedType(m) == IF m = <<>> THEN {} ELSE {m[1]}

\* A manager over the worker's copy, Reset, and preApplyFn: if it stops, the
\* actions are skipped and a retry is due after 30 seconds.
PreApply(stop, m) ==
    /\ pc = "apply"
    /\ stop => HasPreApply
    /\ m # <<>> => HasPreApply
    /\ res' = [res EXCEPT !.status.conds = WithMark(NewManager(@), m)]
    /\ active' = MarkedType(m)
    /\ requeue' = stop
    /\ perr' = IF stop THEN "preApply" ELSE "ok"
    /\ IF stop THEN Fault ELSE UNCHANGED faults
    /\ Goto(IF stop \/ NumActions = 0 THEN "status" ELSE "action")
    /\ step' = 1
    /\ UNCHANGED <<obj, cache, effects, run>>

\* One action.  It may change external state and mark a condition whatever it
\* returns.  A RequeueAfterError is remembered and the pipeline goes on; any
\* other error ends the pipeline.
RunAction(outcome, m) ==
    /\ pc = "action"
    /\ res' = [res EXCEPT !.status.conds = WithMark(@, m)]
    /\ active' = active \union MarkedType(m)
    /\ effects' = Effects
    /\ requeue' = (requeue \/ outcome = "requeue")
    /\ perr' = IF outcome = "requeue" THEN "ok" ELSE outcome
    /\ IF outcome \in {"ok", "requeue"} THEN UNCHANGED faults ELSE Fault
    /\ step' = step + 1
    /\ Goto(IF outcome \in {"ok", "requeue"} /\ step < NumActions
            THEN "action" ELSE "status")
    /\ UNCHANGED <<obj, cache, run>>

\* Mutant: a StopError is not taken for a failure.
ProvisionedUnlessError(cs) ==
    IF perr \in {"error", "preApply"}
    THEN Mark(cs, Provisioning, "False", ErrorReason, "Error", res.gen)
    ELSE Mark(cs, Provisioning, "True", NoReason, "", res.gen)

\* The provisioning condition this reconciliation reports.
Provisioned(cs) ==
    IF perr = "ok" THEN Mark(cs, Provisioning, "True", NoReason, "", res.gen)
    ELSE IF perr = "preApply"
    THEN Mark(cs, Provisioning, "False", PreConditionFailed, "", res.gen)
    ELSE Mark(cs, Provisioning, "False", ErrorReason, "Error", res.gen)

\* Mutant: the cleanup is forgotten.
FinalCondsNoCleanup == Recompute(Provisioned(res.status.conds))

\* The conditions as published: provisioning marked, stale ones cleaned up,
\* the target recomputed.
FinalConds ==
    LET marked == Provisioned(res.status.conds)
        cleaned == IF SkipCleanup THEN marked
                   ELSE CleanupStale(marked, active \union {Provisioning})
    IN  Recompute(cleaned)

\* Mutant: the phase follows the pipeline, not the conditions.
FinalStatusOfPipeline ==
    [phase |-> IF perr = "ok" THEN "Ready" ELSE "NotReady",
     observed |-> IF perr = "ok" THEN res.gen ELSE res.status.observed,
     conds |-> FinalConds]

\* Phase and conditions are those of this reconciliation; the observed
\* generation only moves when the object is happy, else it is the one the
\* worker's copy came with.
FinalStatus ==
    [phase |-> IF IsHappy(FinalConds) THEN "Ready" ELSE "NotReady",
     observed |-> IF IsHappy(FinalConds) THEN res.gen ELSE res.status.observed,
     conds |-> FinalConds]

\* Mutant: a paused pipeline is not resumed.
AgainUnlessPaused == perr \in {"stop", "error"} \/ requeue \/ DefaultRequeue

\* An error of the pipeline is returned and retried with back-off; a
\* StopError with a delay is a delayed retry.
Again == perr \notin {"ok", "preApply"} \/ requeue \/ DefaultRequeue

\* skipStatusConditionsFn, asked last, may empty the status.
\* ApplyStatus is a server-side apply: it ignores the resource version, and
\* an object that is gone is no error.  (An object created anew under the
\* same name has another UID, which is a conflict.)
PublishStatus(skip) ==
    /\ pc = "status"
    /\ skip => SkipStatus
    /\ \/ /\ obj.present /\ obj.uid = res.uid
          /\ obj' = [obj EXCEPT !.status = IF skip THEN NoStatus ELSE FinalStatus]
          /\ run' = [uid |-> res.uid, gen |-> res.gen, outcome |-> perr,
                     skipped |-> skip,
                     set |-> active \union {Provisioning}]
          /\ Return(Again)
          /\ UNCHANGED faults
       \/ /\ ~obj.present
          /\ Return(Again)
          /\ UNCHANGED <<obj, faults, run>>
       \/ /\ obj.present /\ obj.uid # res.uid
          /\ Return(TRUE)
          /\ UNCHANGED <<obj, faults, run>>
       \/ /\ Fault   \* the API call fails, or postStatusFn does before it
          /\ Return(TRUE)
          /\ UNCHANGED <<obj, run>>
    /\ UNCHANGED <<cache, effects>>

-----------------------------------------------------------------------------
Init ==
    /\ obj = Gone(0) /\ cache = Gone(0)
    /\ queued = FALSE
    /\ pc = "idle"
    /\ res = Gone(0) /\ step = 1 /\ active = {} /\ requeue = FALSE /\ perr = "ok"
    /\ effects = {}
    /\ faults = 0
    /\ run = [uid |-> 0, gen |-> 0, outcome |-> "ok", skipped |-> FALSE,
              set |-> {}]

Environment == Create \/ UpdateSpec \/ Delete \/ Crash

Worker ==
    \/ StartReconcile
    \/ AddFinalizer
    \/ \E o \in FinalizerOutcomes : RunFinalizer(o)
    \/ RemoveFinalizer
    \/ \E stop \in BOOLEAN, m \in UserMarks : PreApply(stop, m)
    \/ \E o \in ActionOutcomes, m \in UserMarks : RunAction(o, m)
    \/ \E skip \in BOOLEAN : PublishStatus(skip)

Next == Environment \/ InformerSync \/ Worker

Spec == Init /\ [][Next]_vars

\* The watch delivers and the worker runs; users, failures and crashes owe
\* nothing.
FairSpec == Spec /\ WF_vars(InformerSync) /\ WF_vars(Worker)

-----------------------------------------------------------------------------
(***************************************************************************)
(* Properties.                                                             *)
(***************************************************************************)

Labels == {"idle", "addFinalizer", "finalize", "removeFinalizer",
           "apply", "action", "status"}

Status == [phase : {"", "Ready", "NotReady"}, observed : 0 .. MaxGen,
           conds : [Types -> Slot]]

Object == [present : BOOLEAN, uid : 0 .. MaxUid, gen : 0 .. MaxGen,
           deleting : BOOLEAN, fin : BOOLEAN, status : Status]

(* Every variable has its type; in particular the index of the next action *)
(* or finalizer never leaves its list and effects are only what some       *)
(* finalizer removes.                                                      *)
TypeOK ==
    /\ obj \in Object /\ cache \in Object /\ res \in Object
    /\ queued \in BOOLEAN
    /\ pc \in Labels
    /\ step \in Nat
    /\ pc = "finalize" => step \in 1 .. NumFinalizers
    /\ pc = "action" => step \in 1 .. NumActions
    /\ active \subseteq Types
    /\ requeue \in BOOLEAN
    /\ perr \in Outcomes \union {"preApply"}
    /\ effects \subseteq Effects
    /\ faults \in 0 .. MaxFaults
    /\ run \in [uid : 0 .. MaxUid, gen : 0 .. MaxGen,
                outcome : Outcomes \union {"preApply"}, skipped : BOOLEAN,
                set : SUBSET Types]

(* An object that is gone has left no external state behind: every         *)
(* finalizer action ran to success before the finalizer was removed, and   *)
(* no action ran before the finalizer was stored, whatever stale copies    *)
(* the worker read, and across crashes and re-creation.                    *)
NoOrphans == ~obj.present => effects = {}

(* While the pipeline runs, the very object it runs for is still there and *)
(* carries the finalizer: it cannot be deleted under the actions.          *)
PipelineIsGuarded ==
    NumFinalizers > 0 /\ pc \in {"apply", "action", "status"}
        => obj.present /\ obj.uid = res.uid /\ obj.fin

(* A stored status that says Ready is the truth about one reconciliation:  *)
(* the target and the provisioning condition are True for the observed     *)
(* generation, which is not in the future, and no dependent is unhealthy.  *)
ReadyIsHonest ==
    obj.status.phase = "Ready" =>
        LET s == obj.status IN
        /\ IsHappy(s.conds)
        /\ s.conds[Provisioning].status = "True"
        /\ s.conds[Provisioning].gen = s.observed
        /\ s.observed \in 1 .. obj.gen
        /\ Unhealthy(s.conds) = {}

(* Health is never inherited: a stored Ready means that every dependent     *)
(* condition was set by the reconciliation that published it.              *)
ReadyIsCurrent ==
    obj.status.phase = "Ready" /\ ~SkipCleanup => Dependents \subseteq run.set

(* After a reconciliation that failed or was stopped by its precondition,  *)
(* the stored status says so until another one is published.               *)
FailureIsReported ==
    obj.present /\ run.uid = obj.uid /\ run.outcome # "ok" /\ ~run.skipped =>
        /\ obj.status.phase = "NotReady"
        /\ obj.status.conds[Provisioning].status = "False"
        /\ obj.status.conds[Provisioning].gen = run.gen

(* Nothing is forgotten: when the worker is idle, the queue is empty and   *)
(* the cache is current, the last published reconciliation of the object   *)
(* was for its current generation and did not fail, and the object is not  *)
(* waiting to be deleted.  (A StopError or a failed precondition retries.) *)
QuiescentMeansProcessed ==
    pc = "idle" /\ ~queued /\ cache = obj /\ obj.present
        => /\ run.uid = obj.uid /\ run.gen = obj.gen
           /\ run.outcome = "ok"
           /\ ~obj.deleting

(* The reconciler's use of the finalizer implements FinalizerContract.     *)
Contract == INSTANCE FinalizerContract WITH
    alive <- obj.present, guarded <- obj.fin, doomed <- obj.deleting

HonoursFinalizerContract == Contract!Spec

(* A deletion that was asked for completes once failures cease.            *)
DeletionCompletes == obj.deleting ~> ~obj.present

(* In the end the object is gone or its last generation has been           *)
(* reconciled and reported.                                                *)
EventuallyProcessed ==
    <>[](obj.present => run.uid = obj.uid /\ run.gen = obj.gen)
=============================================================================
