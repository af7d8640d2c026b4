-------------------------- MODULE ReconcilerProofs --------------------------
(***************************************************************************)
(* Proofs about the reconciler's use of its finalizer, about what it       *)
(* forgets (nothing) and about the status it publishes, for any number of  *)
(* actions and finalizer actions, any conditions, and any number of        *)
(* failures, re-creations and generations.                                 *)
(*                                                                         *)
(*   GuardInv            copies only age, so what they say of the          *)
(*                       finalizer and of deletion can be relied on        *)
(*   EffectsInv          external state is behind the finalizer            *)
(*   AgeInv              generations grow, and deleted objects stay so     *)
(*   NothingIsForgotten  the cached generation is queued, under way, done, *)
(*                       or of an object that has gone                     *)
(*   StatusInv           what is stored was published by one reconciliation*)
(***************************************************************************)
EXTENDS Reconciler, ConditionsProofs

\* Copies only age: the cache is not ahead of the API server, nor the worker
\* ahead of the cache.
CopiesAge ==
    /\ cache.uid <= obj.uid
    /\ pc # "idle" => res.present /\ res.uid <= cache.uid

\* An object that is gone is marked as nothing, and the last generation is
\* left for the mark of deletion.
GoneIsClean ==
    /\ ~obj.present => ~obj.fin /\ ~obj.deleting
    /\ ~obj.deleting => obj.gen <= MaxGen - 1

\* A cached copy with the finalizer that is not being deleted speaks of an
\* object that is still there and guarded; a cached copy that is being
\* deleted, of one that still is.
CacheGuards ==
    /\ cache.present /\ cache.fin /\ ~cache.deleting
         => obj.present /\ obj.uid = cache.uid /\ obj.fin
    /\ cache.present /\ cache.deleting /\ obj.present /\ obj.uid = cache.uid
         => obj.deleting

AddsOnlyToTheLiving == pc = "addFinalizer" => ~res.deleting

\* While finalizers run, neither the cache nor the API server has a copy of
\* the object that is not being deleted.
FinalizesOnlyTheDoomed ==
    pc \in {"finalize", "removeFinalizer"} =>
        /\ res.deleting
        /\ cache.uid = res.uid /\ cache.present => cache.deleting
        /\ obj.uid = res.uid /\ obj.present => obj.deleting

\* Effects exist only behind the finalizer of an object the cache knows.
EffectsAreGuarded ==
    effects # {} => obj.present /\ obj.fin /\ cache.uid = obj.uid

\* While finalizers run, what is left is the work of those still to run, and
\* belongs to the object they run for.
FinalizersProgress ==
    /\ pc = "finalize" =>
         /\ effects \subseteq step .. NumFinalizers
         /\ effects # {} => obj.uid = res.uid
    /\ pc = "removeFinalizer" => effects = {}

\* What holds whatever finalizer actions return.
GuardInv ==
    /\ TypeOK
    /\ CopiesAge
    /\ GoneIsClean
    /\ CacheGuards
    /\ AddsOnlyToTheLiving
    /\ FinalizesOnlyTheDoomed
    /\ PipelineIsGuarded

\* What holds if no finalizer action returns a StopError.
EffectsInv == EffectsAreGuarded /\ FinalizersProgress

-----------------------------------------------------------------------------
(***************************************************************************)
(* Types.                                                                  *)
(***************************************************************************)

LEMMA NoStatusType == NoStatus \in Status
BY ReconcilerAssumption DEF NoStatus, NoConds, Status, Slot

LEMMA GoneType ==
    ASSUME NEW u \in 0 .. MaxUid
    PROVE  /\ Gone(u) \in Object
           /\ ~Gone(u).present /\ ~Gone(u).fin /\ ~Gone(u).deleting
           /\ Gone(u).uid = u /\ Gone(u).gen = 0
BY NoStatusType, ReconcilerAssumption DEF Gone, Object

LEMMA MarkType ==
    ASSUME NEW cs \in Lists, NEW t \in Types, NEW st \in Statuses, NEW r \in Reasons,
           NEW sev \in Severities, NEW g \in Generations
    PROVE  Mark(cs, t, st, r, sev, g) \in Lists
<1>1. PICK c : c = [status |-> st, reason |-> r, severity |-> sev, gen |-> g]
  OBVIOUS
<1>2. c \in Condition
  BY <1>1 DEF Condition
<1>3. SetCondition(cs, t, c) \in Lists
  BY <1>2, OperationsKeepLists
<1> QED BY <1>1, <1>3 DEF Mark

LEMMA WithMarkType ==
    ASSUME NEW cs \in Lists, NEW m \in UserMarks, res.gen \in Generations
    PROVE  WithMark(cs, m) \in Lists /\ MarkedType(m) \subseteq Types
<1>1. CASE m = <<>>
  BY <1>1 DEF WithMark, MarkedType
<1>2. CASE m \in (Types \ {Target}) \X {TRUE, FALSE}
  <2>1. m # <<>> /\ m[1] \in Types
    BY <1>2
  <2>2. HealthyStatus(m[1]) \in Statuses /\ UnhealthyStatus(m[1]) \in Statuses
    BY DEF HealthyStatus, UnhealthyStatus, Statuses
  <2>3. PICK st \in Statuses : WithMark(cs, m) = Mark(cs, m[1], st, NoReason, "", res.gen)
    BY <2>1, <2>2 DEF WithMark
  <2>4. Mark(cs, m[1], st, NoReason, "", res.gen) \in Lists
    BY <2>1, MarkType, ValuesAssumption DEF Severities
  <2> QED BY <2>1, <2>3, <2>4 DEF MarkedType
<1> QED BY <1>1, <1>2 DEF UserMarks

LEMMA FinalStatusType ==
    ASSUME TypeOK
    PROVE  FinalStatus \in Status
<1>1. /\ res.gen \in 0 .. MaxGen
      /\ res.status.observed \in 0 .. MaxGen
      /\ res.status.conds \in Lists
  BY DEF TypeOK, Object, Status, Lists
<1>2. /\ res.gen \in Generations
      /\ Provisioning \in Types
      /\ NoReason \in Reasons /\ PreConditionFailed \in Reasons /\ ErrorReason \in Reasons
  BY <1>1, ReconcilerAssumption, ValuesAssumption
<1>3. Provisioned(res.status.conds) \in Lists
  BY <1>1, <1>2, MarkType DEF Provisioned, Statuses, Severities
<1>4. active \union {Provisioning} \in SUBSET Types
  BY <1>2 DEF TypeOK
<1>5. PICK cleaned : cleaned = IF SkipCleanup THEN Provisioned(res.status.conds)
                               ELSE CleanupStale(Provisioned(res.status.conds),
                                                 active \union {Provisioning})
  OBVIOUS
<1>6. cleaned \in Lists
  BY <1>3, <1>4, <1>5, OperationsKeepLists
<1>7. FinalConds = Recompute(cleaned)
  BY <1>5 DEF FinalConds
<1>8. FinalConds \in Lists
  BY <1>6, <1>7, RecomputeDerives
<1> QED BY <1>1, <1>8 DEF FinalStatus, Status, Lists

\* The worker's locals after Reconcile returns.
LEMMA ReturnType ==
    ASSUME NEW again \in BOOLEAN, queued \in BOOLEAN, Return(again)
    PROVE  /\ res' \in Object /\ queued' \in BOOLEAN /\ pc' = "idle" /\ step' \in Nat
           /\ active' \subseteq Types /\ requeue' \in BOOLEAN
           /\ perr' \in Outcomes \union {"preApply"}
<1>1. Gone(0) \in Object
  BY GoneType, ReconcilerAssumption
<1>2. queued' \in BOOLEAN
  BY DEF Return
<1> QED BY <1>1, <1>2 DEF Return, Outcomes

LEMMA FaultType ==
    ASSUME TypeOK, Fault
    PROVE  faults' \in 0 .. MaxFaults
BY ReconcilerAssumption DEF TypeOK, Fault

LEMMA EnvironmentType ==
    ASSUME TypeOK, GoneIsClean, Environment \/ InformerSync
    PROVE  TypeOK'
<1>1. CASE Create
  <2>1. PICK g : g = Gone(obj.uid + 1)
    OBVIOUS
  <2>2. g \in Object
    BY <1>1, <2>1, GoneType, ReconcilerAssumption DEF Create, TypeOK, Object
  <2>3. obj' = [g EXCEPT !.present = TRUE, !.gen = 1]
    BY <1>1, <2>1 DEF Create
  <2>4. obj' \in Object
    <3>1. 1 \in 0 .. MaxGen
      BY ReconcilerAssumption
    <3> QED BY <2>2, <2>3, <3>1 DEF Object
  <2> QED BY <1>1, <2>4 DEF Create, TypeOK, worker
<1>2. CASE UpdateSpec
  <2>1. obj' \in Object
    BY <1>2, ReconcilerAssumption DEF UpdateSpec, TypeOK, Object
  <2> QED BY <1>2, <2>1 DEF UpdateSpec, TypeOK, worker
<1>3. CASE Delete
  <2>1. Gone(obj.uid) \in Object
    BY GoneType DEF TypeOK, Object
  <2>2. obj' = [obj EXCEPT !.deleting = TRUE, !.gen = @ + 1] \/ obj' = Gone(obj.uid)
    BY <1>3 DEF Delete
  <2>3. obj.gen + 1 \in 0 .. MaxGen
    BY <1>3, ReconcilerAssumption DEF Delete, GoneIsClean, TypeOK, Object
  <2>4. [obj EXCEPT !.deleting = TRUE, !.gen = @ + 1] \in Object
    BY <2>3 DEF TypeOK, Object
  <2>5. obj' \in Object
    BY <2>1, <2>2, <2>4
  <2> QED BY <1>3, <2>5 DEF Delete, TypeOK, worker
<1>4. CASE Crash
  <2>1. Gone(0) \in Object
    BY GoneType, ReconcilerAssumption
  <2>2. faults' \in 0 .. MaxFaults
    BY <1>4, FaultType DEF Crash
  <2>3. obj.present \in BOOLEAN
    BY DEF TypeOK, Object
  <2> QED BY <1>4, <2>1, <2>2, <2>3 DEF Crash, TypeOK, Labels, Outcomes
<1>5. CASE InformerSync
  BY <1>5 DEF InformerSync, TypeOK, worker, PassesPredicate
<1> QED BY <1>1, <1>2, <1>3, <1>4, <1>5 DEF Environment

LEMMA FinalizerType ==
    ASSUME TypeOK,
           \/ StartReconcile \/ AddFinalizer \/ RemoveFinalizer
           \/ \E o \in FinalizerOutcomes : RunFinalizer(o)
    PROVE  TypeOK'
<1>1. CASE StartReconcile
  <2>1. CASE ~cache.present \/ (cache.deleting /\ ~cache.fin)
    BY <1>1, <2>1 DEF StartReconcile, TypeOK
  <2>2. CASE ~(~cache.present \/ (cache.deleting /\ ~cache.fin))
    <3>1. /\ pc' \in Labels
          /\ pc' = "finalize" => NumFinalizers # 0
          /\ pc' # "action"
      BY <1>1, <2>2 DEF StartReconcile, Labels
    <3>2. res' = cache /\ step' = 1 /\ queued' = FALSE
      BY <1>1, <2>2 DEF StartReconcile
    <3>3. pc' = "finalize" => step' \in 1 .. NumFinalizers
      BY <3>1, <3>2, ReconcilerAssumption
    <3> QED BY <1>1, <3>1, <3>2, <3>3 DEF StartReconcile, TypeOK
  <2> QED BY <2>1, <2>2
<1>2. CASE AddFinalizer
  <2>1. obj' \in Object
    BY <1>2 DEF AddFinalizer, TypeOK, Object
  <2>2. CASE res = obj /\ res' = obj' /\ Goto("apply")
             /\ UNCHANGED <<step, active, requeue, perr, faults>>
    BY <1>2, <2>1, <2>2 DEF AddFinalizer, Goto, TypeOK, Labels
  <2>3. CASE Return(TRUE) /\ (Fault \/ UNCHANGED faults)
    <3>1. faults' \in 0 .. MaxFaults
      BY <2>3, FaultType DEF TypeOK
    <3>2. /\ res' \in Object /\ queued' \in BOOLEAN /\ pc' = "idle" /\ step' \in Nat
          /\ active' \subseteq Types /\ requeue' \in BOOLEAN
          /\ perr' \in Outcomes \union {"preApply"}
      BY <2>3, ReturnType DEF TypeOK
    <3> QED BY <1>2, <2>1, <3>1, <3>2 DEF AddFinalizer, TypeOK, Labels
  <2> QED BY <1>2, <2>2, <2>3 DEF AddFinalizer
<1>3. ASSUME NEW o \in FinalizerOutcomes, RunFinalizer(o) PROVE TypeOK'
  <2>1. effects' \subseteq Effects
    BY <1>3 DEF RunFinalizer, TypeOK
  <2>2. CASE o = "ok" /\ step' = step + 1
             /\ Goto(IF step = NumFinalizers THEN "removeFinalizer" ELSE "finalize")
             /\ UNCHANGED <<res, active, requeue, perr, faults>>
    BY <1>3, <2>1, <2>2, ReconcilerAssumption DEF RunFinalizer, Goto, TypeOK, Labels
  <2>3. CASE Fault /\ Goto("removeFinalizer") /\ UNCHANGED worker
    <3>1. faults' \in 0 .. MaxFaults
      BY <2>3, FaultType
    <3> QED BY <1>3, <2>1, <2>3, <3>1 DEF RunFinalizer, Goto, TypeOK, Labels, worker
  <2>4. CASE Fault /\ Return(TRUE)
    <3>1. faults' \in 0 .. MaxFaults
      BY <2>4, FaultType
    <3>2. /\ res' \in Object /\ queued' \in BOOLEAN /\ pc' = "idle" /\ step' \in Nat
          /\ active' \subseteq Types /\ requeue' \in BOOLEAN
          /\ perr' \in Outcomes \union {"preApply"}
      BY <2>4, ReturnType DEF TypeOK
    <3> QED BY <1>3, <2>1, <3>1, <3>2 DEF RunFinalizer, TypeOK, Labels
  <2> QED BY <1>3, <2>2, <2>3, <2>4 DEF RunFinalizer
<1>4. CASE RemoveFinalizer
  <2>1. Gone(obj.uid) \in Object
    BY GoneType DEF TypeOK, Object
  <2>2. obj' \in Object /\ faults' \in 0 .. MaxFaults
    BY <1>4, <2>1, FaultType DEF RemoveFinalizer, TypeOK
  <2>3. Return(TRUE) \/ Return(FALSE)
    BY <1>4 DEF RemoveFinalizer
  <2>4. /\ res' \in Object /\ queued' \in BOOLEAN /\ pc' = "idle" /\ step' \in Nat
        /\ active' \subseteq Types /\ requeue' \in BOOLEAN
        /\ perr' \in Outcomes \union {"preApply"}
    BY <2>3, ReturnType DEF TypeOK
  <2> QED BY <1>4, <2>2, <2>4 DEF RemoveFinalizer, TypeOK, Labels
<1> QED BY <1>1, <1>2, <1>3, <1>4

LEMMA PreApplyType ==
    ASSUME TypeOK, NEW stop \in BOOLEAN, NEW m \in UserMarks, PreApply(stop, m)
    PROVE  TypeOK'
<1>1. res.gen \in Generations /\ res.status.conds \in Lists
  BY ReconcilerAssumption DEF TypeOK, Object, Status, Lists
<1>2. PICK new : new = WithMark(NewManager(res.status.conds), m)
  OBVIOUS
<1>3. new \in Lists /\ MarkedType(m) \subseteq Types
  BY <1>1, <1>2, NewManagerResult, WithMarkType
<1>4. res' = [res EXCEPT !.status.conds = new]
  BY <1>2 DEF PreApply
<1>5. res' \in Object
  BY <1>3, <1>4 DEF TypeOK, Object, Status, Lists
<1>6. faults' \in 0 .. MaxFaults
  BY FaultType DEF PreApply, TypeOK
<1> QED BY <1>3, <1>5, <1>6, ReconcilerAssumption DEF PreApply, Goto, TypeOK, Labels, Outcomes

LEMMA RunActionType ==
    ASSUME TypeOK, NEW o \in ActionOutcomes, NEW m \in UserMarks, RunAction(o, m)
    PROVE  TypeOK'
<1>1. res.gen \in Generations /\ res.status.conds \in Lists
  BY ReconcilerAssumption DEF TypeOK, Object, Status, Lists
<1>2. PICK new : new = WithMark(res.status.conds, m)
  OBVIOUS
<1>3. new \in Lists /\ MarkedType(m) \subseteq Types
  BY <1>1, <1>2, WithMarkType
<1>4. res' = [res EXCEPT !.status.conds = new]
  BY <1>2 DEF RunAction
<1>5. res' \in Object
  BY <1>3, <1>4 DEF TypeOK, Object, Status, Lists
<1>6. faults' \in 0 .. MaxFaults
  BY FaultType DEF RunAction, TypeOK
<1> QED BY <1>3, <1>5, <1>6, ReconcilerAssumption DEF RunAction, Goto, TypeOK, Labels, Outcomes

LEMMA PublishStatusType ==
    ASSUME TypeOK, NEW skip \in BOOLEAN, PublishStatus(skip)
    PROVE  TypeOK'
<1>1. PICK s : s = IF skip THEN NoStatus ELSE FinalStatus
  OBVIOUS
<1>2. s \in Status
  BY <1>1, FinalStatusType, NoStatusType
<1>3. obj' = obj \/ obj' = [obj EXCEPT !.status = s]
  BY <1>1 DEF PublishStatus
<1>4. obj' \in Object
  BY <1>2, <1>3 DEF TypeOK, Object
<1>5. faults' \in 0 .. MaxFaults
  BY FaultType DEF PublishStatus, TypeOK
<1>6. Again \in BOOLEAN
  BY ReconcilerAssumption DEF Again, TypeOK
<1>7. PICK again \in BOOLEAN : Return(again)
  BY <1>6 DEF PublishStatus
<1>8. /\ res' \in Object /\ queued' \in BOOLEAN /\ pc' = "idle" /\ step' \in Nat
      /\ active' \subseteq Types /\ requeue' \in BOOLEAN
      /\ perr' \in Outcomes \union {"preApply"}
  BY <1>7, ReturnType DEF TypeOK
<1>9. run' \in [uid : 0 .. MaxUid, gen : 0 .. MaxGen,
                outcome : Outcomes \union {"preApply"}, skipped : BOOLEAN,
                set : SUBSET Types]
  <2>1. CASE UNCHANGED run
    BY <2>1 DEF TypeOK
  <2>2. CASE run' = [uid |-> res.uid, gen |-> res.gen, outcome |-> perr,
                     skipped |-> skip, set |-> active \union {Provisioning}]
    <3>1. Provisioning \in Types
      BY ReconcilerAssumption
    <3>2. res.uid \in 0 .. MaxUid /\ res.gen \in 0 .. MaxGen
      BY DEF TypeOK, Object
    <3>3. active \union {Provisioning} \in SUBSET Types
      BY <3>1 DEF TypeOK
    <3>4. perr \in Outcomes \union {"preApply"}
      BY DEF TypeOK
    <3> QED BY <2>2, <3>2, <3>3, <3>4
  <2> QED BY <2>1, <2>2 DEF PublishStatus
<1> QED BY <1>4, <1>5, <1>8, <1>9 DEF PublishStatus, TypeOK, Labels

-----------------------------------------------------------------------------
(***************************************************************************)
(* The finalizer protocol: each action keeps GuardInv, and EffectsInv with *)
(* it (RunFinalizer, unless it was stopped).                               *)
(***************************************************************************)

\* The fields the protocol is about, with their types.
LEMMA Fields ==
    ASSUME TypeOK
    PROVE  /\ obj.uid \in Nat /\ cache.uid \in Nat /\ res.uid \in Nat
           /\ obj.gen \in Nat /\ step \in Nat
           /\ obj.present \in BOOLEAN /\ obj.fin \in BOOLEAN /\ obj.deleting \in BOOLEAN
BY ReconcilerAssumption DEF TypeOK, Object

LEMMA CreateKeeps ==
    ASSUME GuardInv, Create
    PROVE  GuardInv' /\ (EffectsInv => EffectsInv')
<1> USE DEF GuardInv
<1>1. TypeOK'
  BY EnvironmentType DEF Environment
<1>2. /\ obj'.present /\ ~obj'.fin /\ ~obj'.deleting
      /\ obj'.uid = obj.uid + 1 /\ obj'.gen = 1
      /\ ~obj.present
  BY DEF Create, Gone
<1>3. UNCHANGED <<cache, pc, res, step, effects>>
  BY DEF Create, worker
<1>4. CopiesAge'
  BY <1>2, <1>3, Fields, ReconcilerAssumption DEF CopiesAge
<1>5. GoneIsClean'
  BY <1>2, <1>3, Fields, ReconcilerAssumption DEF GoneIsClean
<1>6. CacheGuards'
  BY <1>2, <1>3, Fields, ReconcilerAssumption DEF CacheGuards, CopiesAge
<1>7. FinalizesOnlyTheDoomed'
  BY <1>2, <1>3, Fields, ReconcilerAssumption DEF FinalizesOnlyTheDoomed, CopiesAge
<1>8. PipelineIsGuarded'
  BY <1>2, <1>3, Fields, ReconcilerAssumption DEF PipelineIsGuarded
<1>9. AddsOnlyToTheLiving'
  BY <1>2, <1>3, Fields DEF AddsOnlyToTheLiving
<1>10. EffectsInv => EffectsAreGuarded'
  BY <1>2, <1>3, Fields, ReconcilerAssumption DEF EffectsInv, EffectsAreGuarded
<1>11. EffectsInv => FinalizersProgress'
  BY <1>2, <1>3, Fields, ReconcilerAssumption
  DEF EffectsInv, FinalizersProgress, EffectsAreGuarded
<1> QED BY <1>1, <1>4, <1>5, <1>6, <1>7, <1>8, <1>9, <1>10, <1>11 DEF EffectsInv

LEMMA UpdateSpecKeeps ==
    ASSUME GuardInv, UpdateSpec
    PROVE  GuardInv' /\ (EffectsInv => EffectsInv')
<1> USE DEF GuardInv
<1>1. TypeOK'
  BY EnvironmentType DEF Environment
<1>2. /\ obj'.present = obj.present /\ obj'.fin = obj.fin
      /\ obj'.deleting = obj.deleting /\ obj'.uid = obj.uid
      /\ obj'.gen = obj.gen + 1 /\ obj.gen < MaxGen - 1
  BY DEF UpdateSpec, TypeOK, Object
<1>3. UNCHANGED <<cache, pc, res, step, effects>>
  BY DEF UpdateSpec, worker
<1>4. GoneIsClean'
  BY <1>2, <1>3, Fields, ReconcilerAssumption DEF GoneIsClean
<1>5. /\ CopiesAge' /\ CacheGuards' /\ AddsOnlyToTheLiving'
      /\ FinalizesOnlyTheDoomed' /\ PipelineIsGuarded'
  BY <1>2, <1>3, Fields
  DEF CopiesAge, CacheGuards, AddsOnlyToTheLiving, FinalizesOnlyTheDoomed,
      PipelineIsGuarded
<1>6. EffectsInv => EffectsInv'
  BY <1>2, <1>3, Fields, ReconcilerAssumption
  DEF EffectsInv, EffectsAreGuarded, FinalizersProgress
<1> QED BY <1>1, <1>4, <1>5, <1>6

LEMMA DeleteKeeps ==
    ASSUME GuardInv, Delete
    PROVE  GuardInv' /\ (EffectsInv => EffectsInv')
<1> USE DEF GuardInv
<1>1. TypeOK'
  BY EnvironmentType DEF Environment
<1>2. /\ obj.present /\ obj'.uid = obj.uid
      /\ obj.fin => obj'.present /\ obj'.fin /\ obj'.deleting /\ obj'.gen \in Nat
      /\ ~obj.fin => ~obj'.present /\ ~obj'.fin /\ ~obj'.deleting /\ obj'.gen = 0
  BY DEF Delete, Gone, TypeOK, Object
<1>3. UNCHANGED <<cache, pc, res, step, effects>>
  BY DEF Delete, worker
<1>4. GoneIsClean'
  BY <1>2, <1>3, Fields, ReconcilerAssumption DEF GoneIsClean
<1>5. CacheGuards'
  BY <1>2, <1>3, Fields, ReconcilerAssumption DEF CacheGuards
<1>6. FinalizesOnlyTheDoomed'
  BY <1>2, <1>3, Fields, ReconcilerAssumption DEF FinalizesOnlyTheDoomed
<1>7. PipelineIsGuarded'
  BY <1>2, <1>3, Fields, ReconcilerAssumption DEF PipelineIsGuarded
<1>8. CopiesAge' /\ AddsOnlyToTheLiving'
  BY <1>2, <1>3, Fields DEF CopiesAge, AddsOnlyToTheLiving
<1>9. EffectsInv => EffectsAreGuarded'
  BY <1>2, <1>3, Fields, ReconcilerAssumption DEF EffectsInv, EffectsAreGuarded
<1>10. EffectsInv => FinalizersProgress'
  BY <1>2, <1>3, Fields, ReconcilerAssumption DEF EffectsInv, FinalizersProgress
<1> QED BY <1>1, <1>4, <1>5, <1>6, <1>7, <1>8, <1>9, <1>10 DEF EffectsInv

LEMMA InformerSyncKeeps ==
    ASSUME GuardInv, InformerSync
    PROVE  GuardInv' /\ (EffectsInv => EffectsInv')
<1> USE DEF GuardInv
<1>1. TypeOK'
  BY EnvironmentType DEF Environment
<1>2. cache' = obj /\ UNCHANGED <<obj, pc, res, step, effects>>
  BY DEF InformerSync, worker
<1>3. CopiesAge'
  BY <1>2, Fields, ReconcilerAssumption DEF CopiesAge
<1>4. CacheGuards'
  BY <1>2, Fields, ReconcilerAssumption DEF CacheGuards, GoneIsClean
<1>5. FinalizesOnlyTheDoomed'
  BY <1>2, Fields, ReconcilerAssumption DEF FinalizesOnlyTheDoomed
<1>6. GoneIsClean' /\ AddsOnlyToTheLiving' /\ PipelineIsGuarded'
  BY <1>2, Fields DEF GoneIsClean, AddsOnlyToTheLiving, PipelineIsGuarded
<1>7. EffectsInv => EffectsAreGuarded'
  BY <1>2, Fields, ReconcilerAssumption DEF EffectsInv, EffectsAreGuarded
<1>8. EffectsInv => FinalizersProgress'
  BY <1>2, Fields, ReconcilerAssumption DEF EffectsInv, FinalizersProgress
<1> QED BY <1>1, <1>3, <1>4, <1>5, <1>6, <1>7, <1>8 DEF EffectsInv

LEMMA CrashKeeps ==
    ASSUME GuardInv, Crash
    PROVE  GuardInv' /\ (EffectsInv => EffectsInv')
<1> USE DEF GuardInv
<1>1. TypeOK'
  BY EnvironmentType DEF Environment
<1>2. cache' = obj /\ pc' = "idle" /\ UNCHANGED <<obj, effects>>
  BY DEF Crash
<1>3. CopiesAge'
  BY <1>2, Fields, ReconcilerAssumption DEF CopiesAge
<1>4. CacheGuards'
  BY <1>2, Fields, ReconcilerAssumption DEF CacheGuards
<1>5. /\ GoneIsClean' /\ AddsOnlyToTheLiving' /\ FinalizesOnlyTheDoomed'
      /\ PipelineIsGuarded'
  BY <1>2, Fields
  DEF GoneIsClean, AddsOnlyToTheLiving, FinalizesOnlyTheDoomed, PipelineIsGuarded
<1>6. EffectsInv => EffectsAreGuarded'
  BY <1>2, Fields, ReconcilerAssumption DEF EffectsInv, EffectsAreGuarded
<1>7. EffectsInv => FinalizersProgress'
  BY <1>2, Fields, ReconcilerAssumption DEF EffectsInv, FinalizersProgress
<1> QED BY <1>1, <1>3, <1>4, <1>5, <1>6, <1>7 DEF EffectsInv

LEMMA StartReconcileKeeps ==
    ASSUME GuardInv, StartReconcile
    PROVE  GuardInv' /\ (EffectsInv => EffectsInv')
<1> USE DEF GuardInv
<1>1. TypeOK'
  BY FinalizerType
<1>2. \/ UNCHANGED <<pc, res, step>>
      \/ /\ cache.present /\ res' = cache /\ step' = 1
         /\ \/ pc' = "removeFinalizer" /\ cache.deleting /\ NumFinalizers = 0
            \/ pc' = "finalize" /\ cache.deleting
            \/ pc' = "addFinalizer" /\ ~cache.deleting
            \/ pc' = "apply" /\ ~cache.deleting /\ (NumFinalizers > 0 => cache.fin)
  BY ReconcilerAssumption DEF StartReconcile
<1>3. UNCHANGED <<obj, cache, effects>>
  BY DEF StartReconcile
<1>4. CopiesAge'
  BY <1>2, <1>3, Fields, ReconcilerAssumption DEF CopiesAge
<1>5. AddsOnlyToTheLiving'
  BY <1>2, <1>3, Fields, ReconcilerAssumption DEF AddsOnlyToTheLiving
<1>6. FinalizesOnlyTheDoomed'
  BY <1>2, <1>3, Fields, ReconcilerAssumption DEF FinalizesOnlyTheDoomed, CacheGuards
<1>7. PipelineIsGuarded'
  BY <1>2, <1>3, Fields, ReconcilerAssumption DEF PipelineIsGuarded, CacheGuards
<1>8. GoneIsClean' /\ CacheGuards'
  BY <1>2, <1>3, Fields DEF GoneIsClean, CacheGuards
<1>9. EffectsInv => EffectsAreGuarded'
  BY <1>2, <1>3, Fields, ReconcilerAssumption DEF EffectsInv, EffectsAreGuarded
<1>10. EffectsInv => FinalizersProgress'
  BY <1>2, <1>3, Fields, ReconcilerAssumption
  DEF EffectsInv, FinalizersProgress, TypeOK, Effects, EffectsAreGuarded
<1> QED BY <1>1, <1>4, <1>5, <1>6, <1>7, <1>8, <1>9, <1>10 DEF EffectsInv

LEMMA AddFinalizerKeeps ==
    ASSUME GuardInv, AddFinalizer
    PROVE  GuardInv' /\ (EffectsInv => EffectsInv')
<1> USE DEF GuardInv
<1>1. TypeOK'
  BY FinalizerType
<1>2. \/ pc' = "idle" /\ UNCHANGED obj
      \/ /\ pc' = "apply" /\ res = obj /\ res' = obj'
         /\ obj'.fin /\ obj'.present = obj.present /\ obj'.uid = obj.uid
         /\ obj'.deleting = obj.deleting /\ obj'.gen = obj.gen
  BY DEF AddFinalizer, Return, Goto, TypeOK, Object
<1>3. pc = "addFinalizer" /\ UNCHANGED <<cache, effects>>
  BY DEF AddFinalizer
<1>4. CopiesAge'
  BY <1>2, <1>3, Fields, ReconcilerAssumption DEF CopiesAge
<1>5. GoneIsClean'
  BY <1>2, <1>3, Fields, ReconcilerAssumption DEF GoneIsClean, CopiesAge
<1>6. CacheGuards'
  BY <1>2, <1>3, Fields, ReconcilerAssumption DEF CacheGuards
<1>7. FinalizesOnlyTheDoomed'
  BY <1>2, <1>3, Fields, ReconcilerAssumption DEF FinalizesOnlyTheDoomed
<1>8. PipelineIsGuarded'
  BY <1>2, <1>3, Fields, ReconcilerAssumption DEF PipelineIsGuarded, CopiesAge
<1>9. AddsOnlyToTheLiving'
  BY <1>2, <1>3, Fields DEF AddsOnlyToTheLiving
<1>10. EffectsInv => EffectsAreGuarded'
  BY <1>2, <1>3, Fields, ReconcilerAssumption DEF EffectsInv, EffectsAreGuarded
<1>11. EffectsInv => FinalizersProgress'
  BY <1>2, <1>3, Fields, ReconcilerAssumption DEF EffectsInv, FinalizersProgress
<1> QED BY <1>1, <1>4, <1>5, <1>6, <1>7, <1>8, <1>9, <1>10, <1>11 DEF EffectsInv

LEMMA RunFinalizerKeeps ==
    ASSUME GuardInv, NEW o \in FinalizerOutcomes, RunFinalizer(o)
    PROVE  GuardInv' /\ (o # "stop" /\ EffectsInv => EffectsInv')
<1> USE DEF GuardInv
<1>1. TypeOK'
  BY FinalizerType
<1>2. \/ pc' = "idle" /\ UNCHANGED effects
      \/ o = "stop" /\ pc' = "removeFinalizer" /\ UNCHANGED <<res, step, effects>>
      \/ /\ res' = res /\ step' = step + 1 /\ effects' = effects \ {step}
         /\ pc' = IF step = NumFinalizers THEN "removeFinalizer" ELSE "finalize"
  BY DEF RunFinalizer, Return, Goto, worker
<1>3. pc = "finalize" /\ UNCHANGED <<obj, cache>>
  BY DEF RunFinalizer
<1>4. CopiesAge'
  BY <1>2, <1>3, Fields, ReconcilerAssumption DEF CopiesAge
<1>5. FinalizesOnlyTheDoomed'
  BY <1>2, <1>3, Fields, ReconcilerAssumption DEF FinalizesOnlyTheDoomed
<1>6. GoneIsClean' /\ CacheGuards' /\ AddsOnlyToTheLiving' /\ PipelineIsGuarded'
  BY <1>2, <1>3, Fields
  DEF GoneIsClean, CacheGuards, AddsOnlyToTheLiving, PipelineIsGuarded
<1>7. o # "stop" /\ EffectsInv => EffectsInv'
  BY <1>2, <1>3, Fields, ReconcilerAssumption
  DEF EffectsInv, EffectsAreGuarded, FinalizersProgress, TypeOK
<1> QED BY <1>1, <1>4, <1>5, <1>6, <1>7

LEMMA RemoveFinalizerKeeps ==
    ASSUME GuardInv, RemoveFinalizer
    PROVE  GuardInv' /\ (EffectsInv => EffectsInv')
<1> USE DEF GuardInv
<1>1. TypeOK'
  BY FinalizerType
<1>2. obj' = obj \/ (res = obj /\ obj' = Gone(obj.uid))
  BY DEF RemoveFinalizer
<1>3. \/ UNCHANGED obj
      \/ /\ res = obj /\ obj'.uid = obj.uid /\ obj'.gen = 0
         /\ ~obj'.present /\ ~obj'.fin /\ ~obj'.deleting
  BY <1>2, GoneType DEF TypeOK, Object
<1>4. pc = "removeFinalizer" /\ pc' = "idle" /\ UNCHANGED <<cache, effects>>
  BY DEF RemoveFinalizer, Return
<1>5. CopiesAge'
  BY <1>2, <1>3, <1>4, Fields, ReconcilerAssumption DEF CopiesAge
<1>6. GoneIsClean'
  BY <1>2, <1>3, <1>4, Fields, ReconcilerAssumption DEF GoneIsClean
<1>7. CacheGuards'
  BY <1>2, <1>3, <1>4, Fields, ReconcilerAssumption
  DEF CacheGuards, CopiesAge, FinalizesOnlyTheDoomed
<1>8. AddsOnlyToTheLiving' /\ FinalizesOnlyTheDoomed' /\ PipelineIsGuarded'
  BY <1>2, <1>3, <1>4, Fields
  DEF AddsOnlyToTheLiving, FinalizesOnlyTheDoomed, PipelineIsGuarded
<1>9. EffectsInv => EffectsAreGuarded'
  BY <1>2, <1>3, <1>4, Fields, ReconcilerAssumption
  DEF EffectsInv, EffectsAreGuarded, FinalizersProgress
<1>10. EffectsInv => FinalizersProgress'
  BY <1>2, <1>3, <1>4, Fields, ReconcilerAssumption DEF EffectsInv, FinalizersProgress
<1> QED BY <1>1, <1>5, <1>6, <1>7, <1>8, <1>9, <1>10 DEF EffectsInv

LEMMA PreApplyKeeps ==
    ASSUME GuardInv, NEW stop \in BOOLEAN, NEW m \in UserMarks, PreApply(stop, m)
    PROVE  GuardInv' /\ (EffectsInv => EffectsInv')
<1> USE DEF GuardInv
<1>1. TypeOK'
  BY PreApplyType
<1>2. pc = "apply" /\ pc' \in {"action", "status"} /\ UNCHANGED <<obj, cache, effects>>
  BY DEF PreApply, Goto
<1>3. res'.present = res.present /\ res'.uid = res.uid
  BY DEF PreApply, TypeOK, Object
<1>4. CopiesAge'
  BY <1>2, <1>3, Fields, ReconcilerAssumption DEF CopiesAge
<1>5. PipelineIsGuarded'
  BY <1>2, <1>3, Fields, ReconcilerAssumption DEF PipelineIsGuarded
<1>6. /\ GoneIsClean' /\ CacheGuards' /\ AddsOnlyToTheLiving'
      /\ FinalizesOnlyTheDoomed'
  BY <1>2, <1>3, Fields
  DEF GoneIsClean, CacheGuards, AddsOnlyToTheLiving, FinalizesOnlyTheDoomed
<1>7. EffectsInv => EffectsInv'
  BY <1>2, <1>3, Fields, ReconcilerAssumption
  DEF EffectsInv, EffectsAreGuarded, FinalizersProgress
<1> QED BY <1>1, <1>4, <1>5, <1>6, <1>7

LEMMA RunActionKeeps ==
    ASSUME GuardInv, NEW o \in ActionOutcomes, NEW m \in UserMarks, RunAction(o, m)
    PROVE  GuardInv' /\ (EffectsInv => EffectsInv')
<1> USE DEF GuardInv
<1>1. TypeOK'
  BY RunActionType
<1>2. /\ pc = "action" /\ pc' \in {"action", "status"}
      /\ effects' = Effects /\ UNCHANGED <<obj, cache>>
  BY DEF RunAction, Goto
<1>3. res'.present = res.present /\ res'.uid = res.uid
  BY DEF RunAction, TypeOK, Object
<1>4. CopiesAge'
  BY <1>2, <1>3, Fields, ReconcilerAssumption DEF CopiesAge
<1>5. PipelineIsGuarded'
  BY <1>2, <1>3, Fields, ReconcilerAssumption DEF PipelineIsGuarded
<1>6. /\ GoneIsClean' /\ CacheGuards' /\ AddsOnlyToTheLiving'
      /\ FinalizesOnlyTheDoomed'
  BY <1>2, <1>3, Fields
  DEF GoneIsClean, CacheGuards, AddsOnlyToTheLiving, FinalizesOnlyTheDoomed
<1>7. EffectsInv => EffectsAreGuarded'
  BY <1>2, <1>3, Fields, ReconcilerAssumption
  DEF EffectsInv, EffectsAreGuarded, CopiesAge, PipelineIsGuarded, Effects
<1>8. EffectsInv => FinalizersProgress'
  BY <1>2, <1>3, Fields, ReconcilerAssumption DEF EffectsInv, FinalizersProgress
<1> QED BY <1>1, <1>4, <1>5, <1>6, <1>7, <1>8 DEF EffectsInv

LEMMA PublishStatusKeeps ==
    ASSUME GuardInv, NEW skip \in BOOLEAN, PublishStatus(skip)
    PROVE  GuardInv' /\ (EffectsInv => EffectsInv')
<1> USE DEF GuardInv
<1>1. TypeOK'
  BY PublishStatusType
<1>2. pc' = "idle" /\ UNCHANGED <<cache, effects>>
  BY DEF PublishStatus, Return
<1>3. /\ obj'.present = obj.present /\ obj'.fin = obj.fin /\ obj'.deleting = obj.deleting
      /\ obj'.uid = obj.uid /\ obj'.gen = obj.gen
  BY DEF PublishStatus, TypeOK, Object
<1>4. /\ CopiesAge' /\ GoneIsClean' /\ CacheGuards' /\ AddsOnlyToTheLiving'
      /\ FinalizesOnlyTheDoomed' /\ PipelineIsGuarded'
  BY <1>2, <1>3, Fields
  DEF CopiesAge, GoneIsClean, CacheGuards, AddsOnlyToTheLiving,
      FinalizesOnlyTheDoomed, PipelineIsGuarded
<1>5. EffectsInv => EffectsInv'
  BY <1>2, <1>3, Fields, ReconcilerAssumption
  DEF EffectsInv, EffectsAreGuarded, FinalizersProgress
<1> QED BY <1>1, <1>4, <1>5

-----------------------------------------------------------------------------
(***************************************************************************)
(* The theorems.                                                           *)
(***************************************************************************)

LEMMA InitInv == Init => GuardInv /\ EffectsInv
<1> SUFFICES ASSUME Init PROVE GuardInv /\ EffectsInv
  OBVIOUS
<1>1. PICK g : g = Gone(0)
  OBVIOUS
<1>2. /\ g \in Object
      /\ ~g.present /\ ~g.fin /\ ~g.deleting /\ g.uid = 0 /\ g.gen = 0
  BY <1>1, GoneType, ReconcilerAssumption
<1>3. /\ obj = g /\ cache = g /\ res = g
      /\ queued = FALSE /\ pc = "idle" /\ step = 1 /\ active = {} /\ requeue = FALSE
      /\ perr = "ok" /\ effects = {} /\ faults = 0
  BY <1>1 DEF Init
<1>4. run \in [uid : 0 .. MaxUid, gen : 0 .. MaxGen,
               outcome : Outcomes \union {"preApply"}, skipped : BOOLEAN,
               set : SUBSET Types]
  BY ReconcilerAssumption DEF Init, Outcomes
<1>5. TypeOK
  <2>1. perr \in Outcomes \union {"preApply"}
    BY <1>3 DEF Outcomes
  <2>2. faults \in 0 .. MaxFaults /\ step \in Nat
    BY <1>3, ReconcilerAssumption
  <2> QED BY <1>2, <1>3, <1>4, <2>1, <2>2 DEF TypeOK, Labels
<1>6. GuardInv
  BY <1>2, <1>3, <1>5, ReconcilerAssumption
  DEF GuardInv, CopiesAge, GoneIsClean, CacheGuards, AddsOnlyToTheLiving,
      FinalizesOnlyTheDoomed, PipelineIsGuarded
<1> QED BY <1>3, <1>6 DEF EffectsInv, EffectsAreGuarded, FinalizersProgress

LEMMA StepInv ==
    ASSUME GuardInv, [Next]_vars
    PROVE  GuardInv' /\ ("stop" \notin FinalizerOutcomes /\ EffectsInv => EffectsInv')
<1>1. CASE Create
  BY <1>1, CreateKeeps
<1>2. CASE UpdateSpec
  BY <1>2, UpdateSpecKeeps
<1>3. CASE Delete
  BY <1>3, DeleteKeeps
<1>4. CASE Crash
  BY <1>4, CrashKeeps
<1>5. CASE InformerSync
  BY <1>5, InformerSyncKeeps
<1>6. CASE StartReconcile
  BY <1>6, StartReconcileKeeps
<1>7. CASE AddFinalizer
  BY <1>7, AddFinalizerKeeps
<1>8. CASE \E o \in FinalizerOutcomes : RunFinalizer(o)
  BY <1>8, RunFinalizerKeeps
<1>9. CASE RemoveFinalizer
  BY <1>9, RemoveFinalizerKeeps
<1>10. CASE \E stop \in BOOLEAN, m \in UserMarks : PreApply(stop, m)
  BY <1>10, PreApplyKeeps
<1>11. CASE \E o \in ActionOutcomes, m \in UserMarks : RunAction(o, m)
  BY <1>11, RunActionKeeps
<1>12. CASE \E skip \in BOOLEAN : PublishStatus(skip)
  BY <1>12, PublishStatusKeeps
<1>13. CASE UNCHANGED vars
  BY <1>13 DEF vars, GuardInv, TypeOK, CopiesAge, GoneIsClean, CacheGuards,
     AddsOnlyToTheLiving, FinalizesOnlyTheDoomed, PipelineIsGuarded,
     EffectsInv, EffectsAreGuarded, FinalizersProgress
<1> QED BY <1>1, <1>2, <1>3, <1>4, <1>5, <1>6, <1>7, <1>8, <1>9, <1>10, <1>11,
           <1>12, <1>13 DEF Next, Environment, Worker

(* The inductive invariant of the finalizer protocol holds for every        *)
(* interleaving of users, informer, crashes and worker.                     *)
THEOREM GuardInvariant == Spec => []GuardInv
<1>1. Init => GuardInv
  BY InitInv
<1>2. GuardInv /\ [Next]_vars => GuardInv'
  BY StepInv
<1> QED BY <1>1, <1>2, PTL DEF Spec

(* Every variable keeps its type; the loops over actions and finalizers     *)
(* stay within their lists.                                                 *)
THEOREM TypeCorrect == Spec => []TypeOK
BY GuardInvariant, PTL DEF GuardInv

(* While apply() runs its actions, the object they run for exists and       *)
(* carries the finalizer in the API server, however stale the copy          *)
(* Reconcile started from: the object cannot go under its own pipeline.     *)
THEOREM PipelineGuarded == Spec => []PipelineIsGuarded
BY GuardInvariant, PTL DEF GuardInv

(* If no finalizer action returns a StopError, effects stay behind the      *)
(* finalizer and finalizers work through them in order.                     *)
THEOREM EffectsInvariant ==
    ASSUME "stop" \notin FinalizerOutcomes
    PROVE  Spec => [](GuardInv /\ EffectsInv)
<1>1. Init => GuardInv /\ EffectsInv
  BY InitInv
<1>2. (GuardInv /\ EffectsInv) /\ [Next]_vars => (GuardInv /\ EffectsInv)'
  BY StepInv
<1> QED BY <1>1, <1>2, PTL DEF Spec

(* No external state outlives its object, unless a finalizer action returns *)
(* a StopError: delete() then skips the remaining finalizers and            *)
(* removeFinalizer lets the object go.                                      *)
THEOREM NothingIsOrphaned ==
    ASSUME "stop" \notin FinalizerOutcomes
    PROVE  Spec => []NoOrphans
<1>1. EffectsInv => NoOrphans
  BY DEF EffectsInv, EffectsAreGuarded, NoOrphans
<1> QED BY <1>1, EffectsInvariant, PTL

-----------------------------------------------------------------------------
\* Every step of the reconciler is a step of the contract or leaves what it
\* speaks of alone.
LEMMA StepImplements ==
    ASSUME GuardInv, EffectsInv, "stop" \notin FinalizerOutcomes, [Next]_vars
    PROVE  [Contract!Next]_(Contract!contract)
<1> USE DEF GuardInv, Contract!contract, Contract!Next
<1>0. /\ obj.present \in BOOLEAN /\ obj.fin \in BOOLEAN /\ obj.deleting \in BOOLEAN
      /\ effects \subseteq Effects
  BY Fields DEF TypeOK
<1>1. CASE Create
  <2>1. /\ ~obj.present /\ obj'.present /\ ~obj'.fin /\ ~obj'.deleting
        /\ UNCHANGED effects
    BY <1>1 DEF Create, Gone
  <2>2. obj'.fin = obj.fin /\ obj'.deleting = obj.deleting
    <3>1. obj.fin = FALSE /\ obj.deleting = FALSE
      BY <1>0, <2>1 DEF GoneIsClean
    <3>2. obj'.fin = FALSE /\ obj'.deleting = FALSE
      BY <1>1 DEF Create, Gone
    <3> QED BY <3>1, <3>2
  <2> QED BY <2>1, <2>2 DEF Contract!Create
<1>2. CASE UpdateSpec
  <2>1. /\ obj'.present = obj.present /\ obj'.fin = obj.fin
        /\ obj'.deleting = obj.deleting /\ UNCHANGED effects
    BY <1>2 DEF UpdateSpec, TypeOK, Object
  <2> QED BY <2>1
<1>3. CASE Delete
  <2>1. obj.present /\ ~obj.deleting /\ UNCHANGED effects
    BY <1>3 DEF Delete
  <2>2. CASE obj.fin
    <3>1. obj'.present = obj.present /\ obj'.fin = obj.fin /\ obj'.deleting
      BY <1>3, <2>2 DEF Delete, TypeOK, Object
    <3> QED BY <2>1, <2>2, <3>1 DEF Contract!Doom
  <2>3. CASE ~obj.fin
    <3>1. ~obj'.present /\ ~obj'.fin /\ ~obj'.deleting
      BY <1>3, <2>3 DEF Delete, Gone
    <3>2. effects = {}
      BY <2>3 DEF EffectsInv, EffectsAreGuarded
    <3> QED BY <2>1, <2>3, <3>1, <3>2 DEF Contract!Release
  <2> QED BY <2>2, <2>3
<1>4. CASE Crash \/ InformerSync \/ StartReconcile
  BY <1>4 DEF Crash, InformerSync, StartReconcile
<1>5. CASE AddFinalizer
  <2>1. CASE UNCHANGED obj
    BY <1>5, <2>1 DEF AddFinalizer
  <2>2. CASE res = obj /\ obj' = [obj EXCEPT !.fin = TRUE]
    <3>1. obj'.present = obj.present /\ obj'.deleting = obj.deleting /\ obj'.fin
      BY <2>2 DEF TypeOK, Object
    <3>2. obj.present /\ ~obj.deleting
      BY <1>5, <2>2 DEF AddFinalizer, CopiesAge, AddsOnlyToTheLiving
    <3>3. UNCHANGED effects
      BY <1>5 DEF AddFinalizer
    <3> QED BY <3>1, <3>2, <3>3 DEF Contract!Guard
  <2> QED BY <1>5, <2>1, <2>2 DEF AddFinalizer
<1>6. ASSUME NEW o \in FinalizerOutcomes, RunFinalizer(o)
      PROVE  [Contract!Next]_(Contract!contract)
  <2>1. pc = "finalize" /\ UNCHANGED obj
    BY <1>6 DEF RunFinalizer
  <2>2. effects' = effects \/ effects' = effects \ {step}
    BY <1>6 DEF RunFinalizer
  <2>3. CASE effects' = effects
    BY <2>1, <2>3
  <2>4. CASE effects' # effects
    <3>1. effects # {} /\ step \in Effects /\ effects' = effects \ {step}
      BY <2>1, <2>2, <2>4 DEF TypeOK, Effects
    <3>2. obj.deleting
      BY <2>1, <3>1 DEF EffectsInv, EffectsAreGuarded, FinalizersProgress,
                        FinalizesOnlyTheDoomed
    <3> QED BY <2>1, <3>1, <3>2 DEF Contract!CleanUp
  <2> QED BY <2>3, <2>4
<1>7. CASE RemoveFinalizer
  <2>1. UNCHANGED effects /\ pc = "removeFinalizer"
    BY <1>7 DEF RemoveFinalizer
  <2>2. CASE UNCHANGED obj
    BY <2>1, <2>2
  <2>3. CASE res = obj /\ obj' = Gone(obj.uid)
    <3>1. ~obj'.present /\ ~obj'.fin /\ ~obj'.deleting
      BY <2>3, GoneType DEF TypeOK, Object
    <3>2. obj.present /\ obj.deleting /\ effects = {}
      BY <2>1, <2>3 DEF CopiesAge, FinalizesOnlyTheDoomed, EffectsInv, FinalizersProgress
    <3> QED BY <2>1, <3>1, <3>2 DEF Contract!Release
  <2> QED BY <1>7, <2>2, <2>3 DEF RemoveFinalizer
<1>8. CASE \E stop \in BOOLEAN, m \in UserMarks : PreApply(stop, m)
  BY <1>8 DEF PreApply
<1>9. ASSUME NEW o \in ActionOutcomes, NEW m \in UserMarks, RunAction(o, m)
      PROVE  [Contract!Next]_(Contract!contract)
  <2>1. pc = "action" /\ UNCHANGED obj /\ effects' = Effects
    BY <1>9 DEF RunAction
  <2>2. CASE NumFinalizers = 0
    <3>1. effects' = effects
      BY <1>0, <2>1, <2>2 DEF Effects
    <3> QED BY <2>1, <3>1
  <2>3. CASE NumFinalizers # 0
    <3>1. obj.present /\ obj.fin
      BY <2>1, <2>3, ReconcilerAssumption DEF PipelineIsGuarded
    <3> QED BY <2>1, <3>1 DEF Contract!Provision
  <2> QED BY <2>2, <2>3
<1>10. ASSUME NEW skip \in BOOLEAN, PublishStatus(skip)
       PROVE  [Contract!Next]_(Contract!contract)
  <2>1. /\ obj'.present = obj.present /\ obj'.fin = obj.fin
        /\ obj'.deleting = obj.deleting /\ UNCHANGED effects
    BY <1>10 DEF PublishStatus, TypeOK, Object
  <2> QED BY <2>1
<1>11. CASE UNCHANGED vars
  BY <1>11 DEF vars
<1> QED BY <1>1, <1>2, <1>3, <1>4, <1>5, <1>6, <1>7, <1>8, <1>9, <1>10, <1>11
        DEF Next, Environment, Worker

(* The reconciler implements the finalizer contract: effects only behind    *)
(* the finalizer, cleanup only after deletion was asked for, release only   *)
(* when nothing is left (unless a finalizer action returns a StopError).    *)
THEOREM ImplementsContract ==
    ASSUME "stop" \notin FinalizerOutcomes
    PROVE  Spec => HonoursFinalizerContract
<1>1. Init => Contract!Init
  BY GoneType, ReconcilerAssumption DEF Init, Contract!Init
<1>2. GuardInv /\ EffectsInv /\ [Next]_vars => [Contract!Next]_(Contract!contract)
  BY StepImplements
<1> QED BY <1>1, <1>2, EffectsInvariant, PTL DEF Spec, HonoursFinalizerContract, Contract!Spec

-----------------------------------------------------------------------------
(***************************************************************************)
(* The status and the queue.  What happens to the object, its cached copy  *)
(* and the worker's copy, as far as identity and generation go.            *)
(***************************************************************************)

\* b is a at the same generation; b is a, or what stands in its place, later.
Alike(a, b) ==
    /\ a.uid = b.uid /\ a.present = b.present
    /\ a.gen = b.gen /\ a.deleting = b.deleting

Older(a, b) ==
    /\ a.uid <= b.uid
    /\ a.uid = b.uid /\ b.present =>
        /\ a.present /\ a.gen <= b.gen
        /\ a.gen = b.gen => a.deleting = b.deleting

\* An object has a generation, and one that is being deleted its finalizer.
Sound(x) == (x.present => x.gen >= 1) /\ (x.deleting => x.fin)

\* Copies are of earlier moments, the pipeline runs for an object that was
\* not being deleted, and a precondition that stopped it asks for a retry.
AgeInv ==
    /\ Older(cache, obj)
    /\ pc # "idle" => Older(res, cache)
    /\ Sound(obj) /\ Sound(cache) /\ Sound(res)
    /\ pc \in {"apply", "action", "status"} => ~res.deleting
    /\ perr = "preApply" => requeue

\* The queue: a cached object whose generation the worker is not at, and has
\* not published for, is queued, unless the object has gone meanwhile.
Released == ~(obj.present /\ obj.uid = cache.uid)
Processing == pc # "idle" /\ res.uid = cache.uid /\ res.gen = cache.gen
Processed ==
    /\ pc = "idle" /\ ~cache.deleting
    /\ run.uid = cache.uid /\ run.gen = cache.gen /\ run.outcome = "ok"

NothingIsForgotten == cache.present => queued \/ Released \/ Processing \/ Processed
RunIsPast == run.uid <= obj.uid

\* The fields of an object.
LEMMA ObjectParts ==
    ASSUME NEW x \in Object
    PROVE  /\ x.uid \in Nat /\ x.gen \in Nat
           /\ x.present \in BOOLEAN /\ x.fin \in BOOLEAN /\ x.deleting \in BOOLEAN
           /\ x.status \in Status
BY ReconcilerAssumption DEF Object

LEMMA OlderIsOrder ==
    ASSUME NEW a \in Object, NEW b \in Object, NEW c \in Object
    PROVE  /\ Older(a, a)
           /\ Older(a, b) /\ Older(b, c) => Older(a, c)
           /\ Alike(a, b) /\ Older(a, c) => Older(b, c)
BY ObjectParts DEF Older, Alike

\* What each step does to the object in the API server.
LEMMA ObjectAges ==
    ASSUME GuardInv, Sound(obj), [Next]_vars
    PROVE  Older(obj, obj') /\ Sound(obj')
<1> USE DEF GuardInv
<1>0. obj \in Object
  BY DEF TypeOK
<1>1. CASE Create
  <2>1. /\ obj'.present /\ ~obj'.deleting /\ obj'.uid = obj.uid + 1 /\ obj'.gen = 1
    BY <1>1 DEF Create, Gone
  <2> QED BY <1>0, <2>1, ObjectParts DEF Older, Sound
<1>2. CASE UpdateSpec
  <2>1. /\ obj'.present = obj.present /\ obj'.fin = obj.fin /\ obj'.uid = obj.uid
        /\ obj'.deleting = obj.deleting /\ obj'.gen = obj.gen + 1
    BY <1>2 DEF UpdateSpec, TypeOK, Object
  <2> QED BY <1>0, <2>1, ObjectParts DEF Older, Sound
<1>3. CASE Delete
  <2>1. /\ obj'.uid = obj.uid
        /\ obj.fin => obj'.present = obj.present /\ obj'.fin /\ obj'.gen = obj.gen + 1
        /\ ~obj.fin => ~obj'.present /\ ~obj'.deleting
    BY <1>3 DEF Delete, Gone, TypeOK, Object
  <2> QED BY <1>0, <2>1, ObjectParts DEF Older, Sound
<1>4. CASE AddFinalizer
  <2>1. \/ obj' = obj
        \/ /\ obj'.present = obj.present /\ obj'.fin /\ obj'.uid = obj.uid
           /\ obj'.deleting = obj.deleting /\ obj'.gen = obj.gen
    BY <1>4 DEF AddFinalizer, TypeOK, Object
  <2> QED BY <1>0, <2>1, ObjectParts DEF Older, Sound
<1>5. CASE RemoveFinalizer
  <2>1. obj' = obj \/ obj' = Gone(obj.uid)
    BY <1>5 DEF RemoveFinalizer
  <2>2. \/ obj' = obj
        \/ ~obj'.present /\ ~obj'.deleting /\ obj'.uid = obj.uid
    BY <2>1, GoneType DEF TypeOK, Object
  <2> QED BY <1>0, <2>2, ObjectParts DEF Older, Sound
<1>6. CASE \E skip \in BOOLEAN : PublishStatus(skip)
  <2>1. /\ obj'.present = obj.present /\ obj'.fin = obj.fin /\ obj'.uid = obj.uid
        /\ obj'.deleting = obj.deleting /\ obj'.gen = obj.gen
    BY <1>6 DEF PublishStatus, TypeOK, Object
  <2> QED BY <1>0, <2>1, ObjectParts DEF Older, Sound
<1>7. CASE obj' = obj
  BY <1>0, <1>7, OlderIsOrder
<1> QED
  BY <1>1, <1>2, <1>3, <1>4, <1>5, <1>6, <1>7
  DEF Next, Environment, Worker, Crash, InformerSync, StartReconcile, RunFinalizer, PreApply,
      RunAction, vars

\* What each step does to the copies.
LEMMA CopiesShape ==
    ASSUME GuardInv, [Next]_vars
    PROVE  /\ cache' = cache \/ (cache' = obj /\ obj' = obj)
           /\ \/ pc' = "idle" /\ res' \in {res, Gone(0)}
              \/ pc # "idle" /\ Alike(res, res') /\ (res.fin => res'.fin)
              \/ pc = "idle" /\ res' = cache /\ cache' = cache
           /\ pc' \in {"apply", "action", "status"} =>
                \/ pc \in {"addFinalizer", "apply", "action", "status"} /\ Alike(res, res')
                \/ pc = "idle" /\ res' = cache /\ ~cache.deleting
<1> USE DEF GuardInv
<1>0. res \in Object /\ obj \in Object
  BY DEF TypeOK
<1>1. CASE Environment \/ InformerSync \/ UNCHANGED vars
  <2>1. \/ Crash
        \/ /\ UNCHANGED <<pc, res, obj>> /\ cache' \in {obj, cache}
        \/ /\ UNCHANGED <<pc, res, cache>>
    BY <1>1 DEF Environment, Create, UpdateSpec, Delete, InformerSync, worker, vars
  <2> QED BY <2>1 DEF Crash, Alike, TypeOK, Labels
<1>2. CASE StartReconcile
  BY <1>2 DEF StartReconcile
<1>3. CASE AddFinalizer
  <2>1. \/ pc' = "idle" /\ res' = Gone(0)
        \/ pc' = "apply" /\ res = obj /\ res' = obj' /\ obj' = [obj EXCEPT !.fin = TRUE]
    BY <1>3 DEF AddFinalizer, Return, Goto
  <2>2. pc = "addFinalizer" /\ cache' = cache
    BY <1>3 DEF AddFinalizer
  <2> QED BY <1>0, <2>1, <2>2 DEF Alike, Object
<1>4. CASE \E o \in FinalizerOutcomes : RunFinalizer(o)
  <2>1. \/ pc' = "idle" /\ res' = Gone(0)
        \/ pc' \in {"finalize", "removeFinalizer"} /\ res' = res
    BY <1>4 DEF RunFinalizer, Return, Goto, worker
  <2>2. pc = "finalize" /\ cache' = cache
    BY <1>4 DEF RunFinalizer
  <2> QED BY <2>1, <2>2 DEF Alike
<1>5. CASE RemoveFinalizer \/ \E skip \in BOOLEAN : PublishStatus(skip)
  BY <1>5 DEF RemoveFinalizer, PublishStatus, Return
<1>6. CASE \/ \E stop \in BOOLEAN, m \in UserMarks : PreApply(stop, m)
           \/ \E o \in ActionOutcomes, m \in UserMarks : RunAction(o, m)
  <2>1. /\ pc \in {"apply", "action"} /\ pc' \in {"action", "status"} /\ cache' = cache
    BY <1>6 DEF PreApply, RunAction, Goto
  <2>2. Alike(res, res') /\ res'.fin = res.fin
    BY <1>0, <1>6 DEF PreApply, RunAction, Alike, Object
  <2> QED BY <2>1, <2>2
<1> QED BY <1>1, <1>2, <1>3, <1>4, <1>5, <1>6 DEF Next, Worker

\* A precondition that stopped the pipeline asks for a retry.
LEMMA StepKeepsRetry ==
    ASSUME perr = "preApply" => requeue, [Next]_vars, GuardInv
    PROVE  perr' = "preApply" => requeue'
<1>1. CASE \E o \in ActionOutcomes, m \in UserMarks : RunAction(o, m)
  BY <1>1, ReconcilerAssumption DEF RunAction, Outcomes
<1>2. CASE \E stop \in BOOLEAN, m \in UserMarks : PreApply(stop, m)
  BY <1>2 DEF PreApply
<1>3. CASE perr' = "ok"
  BY <1>3
<1>4. CASE UNCHANGED <<perr, requeue>>
  BY <1>4
<1> QED
  BY <1>1, <1>2, <1>3, <1>4
  DEF Next, Environment, Worker, Create, UpdateSpec, Delete, Crash, InformerSync, StartReconcile,
      AddFinalizer, RunFinalizer, RemoveFinalizer, PublishStatus, Return, worker, vars

LEMMA StepAge ==
    ASSUME GuardInv, AgeInv, [Next]_vars
    PROVE  AgeInv'
<1> USE DEF GuardInv
<1>1. TypeOK' /\ CopiesAge'
  BY StepInv
<1>2. /\ obj \in Object /\ cache \in Object /\ res \in Object
      /\ obj' \in Object /\ cache' \in Object /\ res' \in Object
  BY <1>1 DEF TypeOK
<1>3. Older(obj, obj') /\ Sound(obj')
  BY ObjectAges DEF AgeInv
<1>4. Older(cache', obj')
  BY <1>2, <1>3, CopiesShape, OlderIsOrder DEF AgeInv
<1>5. Sound(cache')
  BY CopiesShape DEF AgeInv
<1>6. Older(cache, cache')
  BY <1>2, CopiesShape, OlderIsOrder DEF AgeInv
<1>7. pc' # "idle" => Older(res', cache')
  BY <1>2, <1>6, CopiesShape, OlderIsOrder DEF AgeInv
<1>8. Sound(Gone(0))
  BY GoneType, ReconcilerAssumption DEF Sound
<1>9. Sound(res')
  BY <1>8, CopiesShape DEF AgeInv, Sound, Alike
<1>10. pc' \in {"apply", "action", "status"} => ~res'.deleting
  BY CopiesShape DEF AgeInv, Alike, AddsOnlyToTheLiving
<1>11. perr' = "preApply" => requeue'
  BY StepKeepsRetry DEF AgeInv
<1> QED BY <1>3, <1>4, <1>5, <1>7, <1>9, <1>10, <1>11 DEF AgeInv

LEMMA InitAge == Init => AgeInv /\ NothingIsForgotten
<1> SUFFICES ASSUME Init PROVE AgeInv /\ NothingIsForgotten
  OBVIOUS
<1>1. PICK g : g = Gone(0)
  OBVIOUS
<1>2. /\ g \in Object
      /\ ~g.present /\ ~g.fin /\ ~g.deleting /\ g.uid = 0 /\ g.gen = 0
  BY <1>1, GoneType, ReconcilerAssumption
<1>3. obj = g /\ cache = g /\ res = g /\ pc = "idle" /\ perr = "ok"
  BY <1>1 DEF Init
<1> QED BY <1>2, <1>3, OlderIsOrder DEF AgeInv, Sound, NothingIsForgotten

\* A reconciliation that ends, other than by a crash, has put the key back,
\* or the object has gone, or it was published without a failure.
LEMMA ReturnShape ==
    ASSUME GuardInv, AgeInv, [Next]_vars, ~Crash, pc # "idle", pc' = "idle"
    PROVE  /\ UNCHANGED cache
           /\ \/ queued' \/ ~obj'.present
              \/ /\ pc = "status" /\ run'.uid = res.uid /\ run'.gen = res.gen
                 /\ run'.outcome = "ok" /\ queued' = queued
<1> USE DEF GuardInv
<1>1. CASE AddFinalizer
  BY <1>1 DEF AddFinalizer, Return, Goto
<1>2. CASE \E o \in FinalizerOutcomes : RunFinalizer(o)
  BY <1>2 DEF RunFinalizer, Return, Goto
<1>3. CASE RemoveFinalizer
  <2>1. UNCHANGED cache /\ (queued' \/ obj' = Gone(obj.uid))
    BY <1>3 DEF RemoveFinalizer, Return
  <2> QED BY <2>1, GoneType DEF TypeOK, Object
<1>4. ASSUME NEW skip \in BOOLEAN, PublishStatus(skip)
      PROVE  /\ UNCHANGED cache
             /\ \/ queued' \/ ~obj'.present
                \/ /\ pc = "status" /\ run'.uid = res.uid /\ run'.gen = res.gen
                   /\ run'.outcome = "ok" /\ queued' = queued
  <2>1. perr # "ok" => Again
    BY DEF Again, AgeInv
  <2>2. UNCHANGED cache /\ pc = "status"
    BY <1>4 DEF PublishStatus
  <2>3. CASE ~obj.present
    <3>1. obj' = obj
      BY <1>4, <2>3 DEF PublishStatus
    <3> QED BY <2>2, <2>3, <3>1
  <2>4. CASE Return(TRUE)
    BY <2>2, <2>4 DEF Return
  <2>5. CASE /\ run' = [uid |-> res.uid, gen |-> res.gen, outcome |-> perr,
                     skipped |-> skip, set |-> active \union {Provisioning}]
             /\ Return(Again)
    <3>1. CASE Again
      BY <2>2, <2>5, <3>1 DEF Return
    <3>2. CASE ~Again
      <4>1. queued' = queued
        BY <2>5, <3>2 DEF Return, TypeOK
      <4>2. run'.uid = res.uid /\ run'.gen = res.gen /\ run'.outcome = "ok"
        BY <2>1, <2>5, <3>2
      <4> QED BY <2>2, <4>1, <4>2
    <3> QED BY <3>1, <3>2
  <2> QED BY <1>4, <2>3, <2>4, <2>5 DEF PublishStatus
<1> QED
  BY <1>1, <1>2, <1>3, <1>4
  DEF Next, Environment, Worker, Create, UpdateSpec, Delete, InformerSync, StartReconcile,
      PreApply, RunAction, Goto, worker, vars

LEMMA StepForgetsNothing ==
    ASSUME GuardInv, AgeInv, NothingIsForgotten, [Next]_vars
    PROVE  NothingIsForgotten'
<1> USE DEF GuardInv
<1>1. /\ obj \in Object /\ cache \in Object /\ res \in Object /\ obj' \in Object
      /\ Older(obj, obj') /\ Older(cache, obj)
  <2>1. TypeOK'
    BY StepInv
  <2> QED BY <2>1, ObjectAges DEF AgeInv, TypeOK
<1>2. Released /\ cache' = cache => Released'
  BY <1>1, ObjectParts DEF Older, Released
<1>3. CASE Crash
  BY <1>3 DEF Crash, NothingIsForgotten
<1>4. CASE InformerSync
  <2>1. /\ cache' = obj /\ obj' = obj /\ UNCHANGED <<pc, res, run>>
        /\ queued' = (queued \/ PassesPredicate(cache, obj))
    BY <1>4 DEF InformerSync, worker
  <2>2. CASE PassesPredicate(cache, obj)
    BY <2>1, <2>2 DEF NothingIsForgotten
  <2>3. CASE ~PassesPredicate(cache, obj)
    <3>1. cache.present = obj.present /\ cache.uid = obj.uid /\ cache.gen = obj.gen
      BY <2>3 DEF PassesPredicate
    <3>2. obj.present => cache.deleting = obj.deleting
      BY <1>1, <3>1 DEF Older
    <3>3. queued => queued'
      BY <2>1
    <3> QED BY <2>1, <3>1, <3>2, <3>3 DEF NothingIsForgotten, Released, Processing, Processed
  <2> QED BY <2>2, <2>3
<1>5. CASE Create \/ UpdateSpec \/ Delete \/ UNCHANGED vars
  <2>1. UNCHANGED <<cache, queued, pc, res, run>>
    BY <1>5 DEF Create, UpdateSpec, Delete, worker, vars
  <2> QED BY <1>2, <2>1 DEF NothingIsForgotten, Processing, Processed
<1>6. CASE StartReconcile
  <2>1. cache' = cache /\ (cache.present => res' = cache /\ pc' # "idle")
    BY <1>6 DEF StartReconcile, AgeInv, Sound
  <2> QED BY <2>1 DEF NothingIsForgotten, Processing
<1>7. CASE pc # "idle" /\ pc' # "idle" /\ ~InformerSync /\ ~(Create \/ UpdateSpec \/ Delete)
           /\ ~UNCHANGED vars
  <2>1. cache' = cache /\ queued' = queued
    BY <1>7 DEF Next, Environment, Worker, Crash, StartReconcile, AddFinalizer, RunFinalizer,
                RemoveFinalizer, PreApply, RunAction, PublishStatus, Return, Goto
  <2>2. Alike(res, res')
    BY <1>7, CopiesShape
  <2> QED BY <1>2, <1>7, <2>1, <2>2 DEF NothingIsForgotten, Processing, Processed, Alike
<1>8. CASE pc # "idle" /\ pc' = "idle" /\ ~Crash
  <2>1. cache' = cache
    BY <1>8, ReturnShape
  <2>2. CASE queued'
    BY <2>2 DEF NothingIsForgotten
  <2>3. CASE ~obj'.present
    BY <2>3 DEF NothingIsForgotten, Released
  <2>4. CASE /\ pc = "status" /\ run'.uid = res.uid /\ run'.gen = res.gen
             /\ run'.outcome = "ok" /\ queued' = queued
    <3>1. CASE Processing
      <4>1. ~res.deleting /\ Older(res, cache)
        BY <2>4 DEF AgeInv
      <4>2. cache.present => ~cache.deleting
        BY <1>1, <3>1, <4>1, ObjectParts DEF Older, Processing
      <4> QED BY <1>8, <2>1, <2>4, <3>1, <4>2 DEF NothingIsForgotten, Processing, Processed
    <3>2. CASE ~Processing
      BY <1>2, <1>8, <2>1, <2>4, <3>2 DEF NothingIsForgotten, Processed
    <3> QED BY <3>1, <3>2
  <2> QED BY <1>8, <2>2, <2>3, <2>4, ReturnShape
<1>9. CASE pc = "idle"
  BY <1>3, <1>4, <1>5, <1>6, <1>9
  DEF Next, Environment, Worker, AddFinalizer, RunFinalizer, RemoveFinalizer, PreApply,
      RunAction, PublishStatus
<1> QED BY <1>3, <1>4, <1>5, <1>7, <1>8, <1>9

(* Nothing is forgotten, for any user code, whatever fails and however      *)
(* late events arrive: a quiet reconciler has published the object's        *)
(* current generation without a failure (reconciler.go:345).                *)
THEOREM QuietMeansProcessed == Spec => []QuiescentMeansProcessed
<1> DEFINE Inv == GuardInv /\ AgeInv /\ NothingIsForgotten
<1>1. Init => Inv
  BY InitInv, InitAge
<1>2. Inv /\ [Next]_vars => Inv'
  BY StepInv, StepAge, StepForgetsNothing
<1>3. Inv => QuiescentMeansProcessed
  BY DEF NothingIsForgotten, Released, Processing, Processed, QuiescentMeansProcessed
<1> QED BY <1>1, <1>2, <1>3, PTL DEF Spec

-----------------------------------------------------------------------------
(***************************************************************************)
(* The published conditions.                                               *)
(***************************************************************************)

\* The provisioning condition has a say in the target's health, as it does
\* for a reconciler built by ReconcilerFor (reconciler_support.go:149): it
\* is a dependent, healthy when True.
ProvisioningCounts ==
    /\ Provisioning \notin HealthyWhenFalse
    /\ Provisioning \in Dependents \/ Dependents = {}

\* A happy derived list has no unhealthy condition, and the other way round.
LEMMA HappyMeansHealthy ==
    ASSUME NEW cs, Derived(cs)
    PROVE  IsHappy(cs) <=> Unhealthy(cs) = {}
<1>1. Unhealthy(cs) = {t \in Types \ {Target} :
                  /\ cs[t] # Absent
                  /\ cs[t].severity # "Info"
                  /\ t \in Dependents \/ Dependents = {}
                  /\ cs[t].status # HealthyStatus(t)}
  BY DEF Unhealthy, Considered, ShouldConsider, IsHealthy
<1> QED BY <1>1 DEF Derived, Reflects, IsHappy

LEMMA MarkResult ==
    ASSUME NEW cs \in Lists, NEW t \in Types \ {Target}, NEW st \in Statuses, NEW r \in Reasons,
           NEW sev \in Severities, NEW g \in Generations
    PROVE  LET new == Mark(cs, t, st, r, sev, g)
           IN  new[t].status = st /\ new[t].severity = sev /\ new[t].gen = g
<1> DEFINE c == [status |-> st, reason |-> r, severity |-> sev, gen |-> g]
           ds == [cs EXCEPT ![t] = c]
<1>1. c \in Condition /\ c.status = st /\ c.severity = sev /\ c.gen = g
  BY DEF Condition
<1> HIDE DEF c
<1>2. ds \in Lists /\ ds[t] = c
  BY <1>1 DEF Lists, Slot
<1>3. Mark(cs, t, st, r, sev, g) = IF cs[t] = c THEN cs ELSE Recompute(ds)
  BY DEF Mark, SetCondition, SetStatusCondition, c
<1> HIDE DEF ds
<1>4. Recompute(ds)[t] = c
  BY <1>2, RecomputeDerives
<1> QED BY <1>1, <1>3, <1>4

\* What this reconciliation will publish.
LEMMA FinalCondsResult ==
    ASSUME TypeOK
    PROVE  /\ FinalConds \in Lists /\ Derived(FinalConds)
           /\ FinalConds[Provisioning].status = IF perr = "ok" THEN "True" ELSE "False"
           /\ FinalConds[Provisioning].gen = res.gen
           /\ FinalConds[Provisioning].severity # "Info"
           /\ ~SkipCleanup => \A t \in Dependents \ (active \union {Provisioning}) :
                                 FinalConds[t] = NotSetCondition(t)
<1> DEFINE marked == Provisioned(res.status.conds)
           A == active \union {Provisioning}
           cleaned == IF SkipCleanup THEN marked ELSE CleanupStale(marked, A)
<1>1. /\ res.gen \in Generations /\ res.status.conds \in Lists
      /\ Provisioning \in Types \ {Target}
      /\ NoReason \in Reasons /\ PreConditionFailed \in Reasons /\ ErrorReason \in Reasons
      /\ "True" \in Statuses /\ "False" \in Statuses
      /\ "" \in Severities \ {"Info"} /\ "Error" \in Severities \ {"Info"}
  BY ReconcilerAssumption, ValuesAssumption
  DEF TypeOK, Object, Status, Lists, Statuses, Severities
<1>2. PICK st \in Statuses, r \in Reasons, sev \in Severities \ {"Info"} :
        /\ marked = Mark(res.status.conds, Provisioning, st, r, sev, res.gen)
        /\ st = IF perr = "ok" THEN "True" ELSE "False"
  <2> DEFINE cs == res.status.conds
  <2>1. CASE perr = "ok"
    <3>1. marked = Mark(cs, Provisioning, "True", NoReason, "", res.gen)
      BY <2>1 DEF Provisioned
    <3> QED BY <1>1, <2>1, <3>1
  <2>2. CASE perr = "preApply"
    <3>1. marked = Mark(cs, Provisioning, "False", PreConditionFailed, "", res.gen)
      BY <2>2 DEF Provisioned
    <3> QED BY <1>1, <2>2, <3>1
  <2>3. CASE perr \notin {"ok", "preApply"}
    <3>1. marked = Mark(cs, Provisioning, "False", ErrorReason, "Error", res.gen)
      BY <2>3 DEF Provisioned
    <3> QED BY <1>1, <2>3, <3>1
  <2> QED BY <2>1, <2>2, <2>3
<1> HIDE DEF marked
<1> DEFINE cs == res.status.conds
           g == res.gen
<1> HIDE DEF cs, g
<1>2a. /\ st \in Statuses /\ sev \in Severities /\ g \in Generations /\ cs \in Lists
      /\ marked = Mark(cs, Provisioning, st, r, sev, g)
  BY <1>1, <1>2 DEF cs, g
<1>3. marked \in Lists
  BY <1>1, <1>2a, MarkType
<1>4. /\ marked[Provisioning].status = IF perr = "ok" THEN "True" ELSE "False"
      /\ marked[Provisioning].gen = res.gen
      /\ marked[Provisioning].severity # "Info"
  <2>1. Provisioning \in Types \ {Target} /\ r \in Reasons
    BY <1>1
  <2>2. /\ marked[Provisioning].status = st /\ marked[Provisioning].severity = sev
        /\ marked[Provisioning].gen = g
    BY <1>2a, <2>1, MarkResult
  <2>3. sev # "Info"
    BY <1>2
  <2> QED BY <1>2, <2>2, <2>3, Zenon DEF g
<1>5. A \in SUBSET Types
  BY <1>1 DEF TypeOK
<1>6. cleaned \in Lists
  BY <1>3, <1>5, OperationsKeepLists
<1>7. ~SkipCleanup => \A t \in Types \ {Target} : cleaned[t] = Swept(marked, A)[t]
  <2>1. Swept(marked, A) \in Lists
    BY <1>3, <1>5, SweptIsList
  <2> QED BY <2>1, RecomputeDerives DEF CleanupStale
<1>8. cleaned[Provisioning] = marked[Provisioning]
  BY <1>1, <1>7 DEF Swept
<1>9. ~SkipCleanup => \A t \in Dependents \ A : cleaned[t] = NotSetCondition(t)
  BY <1>7, TypesAssumption DEF Swept
<1>10. FinalConds = Recompute(cleaned)
  BY DEF FinalConds, marked
<1> HIDE DEF cleaned
<1>11. /\ FinalConds \in Lists /\ Derived(FinalConds)
       /\ \A t \in Types \ {Target} : FinalConds[t] = cleaned[t]
  BY <1>6, <1>10, RecomputeDerives
<1>12. FinalConds[Provisioning] = marked[Provisioning]
  BY <1>1, <1>8, <1>11
<1>13. ~SkipCleanup => \A t \in Dependents \ A : FinalConds[t] = NotSetCondition(t)
  BY <1>9, <1>11, TypesAssumption
<1> QED BY <1>4, <1>11, <1>12, <1>13

\* Ready means: no condition that counts is unhealthy, every dependent was
\* set in this reconciliation, and provisioning succeeded.
LEMMA ReadyResult ==
    ASSUME TypeOK, IsHappy(FinalConds)
    PROVE  /\ Unhealthy(FinalConds) = {}
           /\ ~SkipCleanup => Dependents \subseteq active \union {Provisioning}
           /\ ProvisioningCounts => perr = "ok"
<1>0. Provisioning \in Types \ {Target}
  BY ReconcilerAssumption
<1>1. Unhealthy(FinalConds) = {}
  BY FinalCondsResult, HappyMeansHealthy
<1>2. ASSUME NEW t \in Types \ {Target}, FinalConds[t] # Absent, FinalConds[t].severity # "Info",
             t \in Dependents \/ Dependents = {}
      PROVE  FinalConds[t].status = HealthyStatus(t)
  BY <1>1, <1>2 DEF Unhealthy, Considered, ShouldConsider, IsHealthy
<1>3. ASSUME ~SkipCleanup, NEW t \in Dependents \ (active \union {Provisioning}) PROVE FALSE
  <2>1. FinalConds[t] = NotSetCondition(t)
    BY <1>3, FinalCondsResult
  <2>2. /\ NotSetCondition(t).status = UnhealthyStatus(t)
        /\ NotSetCondition(t).severity = "Error"
    BY DEF NotSetCondition, Bare
  <2>3. NotSetCondition(t) # Absent
    <3>1. Absent.severity = ""
      BY DEF Absent
    <3> QED BY <2>2, <3>1
  <2>4. UnhealthyStatus(t) = HealthyStatus(t)
    BY <1>2, <2>1, <2>2, <2>3, TypesAssumption
  <2> QED BY <2>4 DEF UnhealthyStatus, HealthyStatus
<1>4. ASSUME ProvisioningCounts PROVE perr = "ok"
  <2> DEFINE c == FinalConds[Provisioning]
  <2>1. c.severity # "Info" /\ c.status = IF perr = "ok" THEN "True" ELSE "False"
    BY FinalCondsResult
  <2>2. c # Absent
    <3>1. Absent.status = "Absent"
      BY DEF Absent
    <3> QED BY <2>1, <3>1
  <2>3. c.status = HealthyStatus(Provisioning)
    BY <1>0, <1>2, <1>4, <2>1, <2>2 DEF ProvisioningCounts
  <2> QED BY <1>4, <2>1, <2>3 DEF HealthyStatus, ProvisioningCounts
<1> QED BY <1>1, <1>3, <1>4

\* What a step does to the stored status: nothing, or the object is new or
\* gone, or the worker publishes.
LEMMA StatusShape ==
    ASSUME GuardInv, AgeInv, [Next]_vars
    PROVE  \/ /\ obj'.status = obj.status /\ obj'.uid = obj.uid /\ obj'.gen >= obj.gen
              /\ obj'.present = obj.present /\ run' = run
           \/ /\ obj'.status = NoStatus /\ run' = run
              /\ obj'.uid >= obj.uid /\ (obj'.present => obj'.uid > obj.uid)
           \/ \E skip \in BOOLEAN :
              /\ pc = "status"
              /\ obj.present /\ obj.uid = res.uid
              /\ obj'.status = IF skip THEN NoStatus ELSE FinalStatus
              /\ obj'.uid = obj.uid /\ obj'.gen = obj.gen /\ obj'.present = obj.present
              /\ run' = [uid |-> res.uid, gen |-> res.gen, outcome |-> perr,
                         skipped |-> skip, set |-> active \union {Provisioning}]
<1> USE DEF GuardInv
<1>0. obj \in Object /\ obj.uid \in Nat /\ obj.gen \in Nat
  BY ObjectParts DEF TypeOK
<1>1. \A u \in 0 .. MaxUid : /\ Gone(u).status = NoStatus /\ Gone(u).uid = u
                             /\ ~Gone(u).present
  BY DEF Gone
<1>2. CASE Create
  <2>1. obj'.status = NoStatus /\ obj'.uid = obj.uid + 1 /\ run' = run
    BY <1>2 DEF Create, Gone
  <2> QED BY <1>0, <2>1
<1>3. CASE UpdateSpec
  <2>1. /\ obj'.status = obj.status /\ obj'.uid = obj.uid /\ obj'.gen = obj.gen + 1
        /\ obj'.present = obj.present /\ run' = run
    BY <1>0, <1>3 DEF UpdateSpec, Object
  <2> QED BY <1>0, <2>1
<1>4. CASE Delete
  <2>1. CASE obj.fin
    <3>1. /\ obj'.status = obj.status /\ obj'.uid = obj.uid /\ obj'.gen = obj.gen + 1
          /\ obj'.present = obj.present /\ run' = run
      BY <1>0, <1>4, <2>1 DEF Delete, Object
    <3> QED BY <1>0, <3>1
  <2>2. CASE ~obj.fin
    <3>1. obj' = Gone(obj.uid) /\ run' = run
      BY <1>4, <2>2 DEF Delete
    <3> QED BY <1>0, <1>1, <3>1 DEF TypeOK, Object
  <2> QED BY <2>1, <2>2
<1>5. CASE AddFinalizer
  <2>1. /\ obj'.status = obj.status /\ obj'.uid = obj.uid /\ obj'.gen = obj.gen
        /\ obj'.present = obj.present /\ run' = run
    BY <1>0, <1>5 DEF AddFinalizer, Object
  <2> QED BY <1>0, <2>1
<1>6. CASE RemoveFinalizer
  <2>1. run' = run /\ (obj' = obj \/ obj' = Gone(obj.uid))
    BY <1>6 DEF RemoveFinalizer
  <2> QED BY <1>0, <1>1, <2>1 DEF TypeOK, Object
<1>7. ASSUME NEW skip \in BOOLEAN, PublishStatus(skip)
      PROVE  \/ obj' = obj /\ run' = run
             \/ /\ pc = "status"
                /\ obj.present /\ obj.uid = res.uid
                /\ obj'.status = IF skip THEN NoStatus ELSE FinalStatus
                /\ obj'.uid = obj.uid /\ obj'.gen = obj.gen /\ obj'.present = obj.present
                /\ run' = [uid |-> res.uid, gen |-> res.gen, outcome |-> perr,
                           skipped |-> skip, set |-> active \union {Provisioning}]
  <2> DEFINE s == IF skip THEN NoStatus ELSE FinalStatus
  <2> HIDE DEF s
  <2>1. CASE /\ obj.present /\ obj.uid = res.uid
             /\ obj' = [obj EXCEPT !.status = s]
             /\ run' = [uid |-> res.uid, gen |-> res.gen, outcome |-> perr,
                        skipped |-> skip, set |-> active \union {Provisioning}]
    <3>1. /\ obj'.status = s /\ obj'.uid = obj.uid /\ obj'.gen = obj.gen
          /\ obj'.present = obj.present
      BY <1>0, <2>1 DEF Object
    <3> QED BY <1>7, <2>1, <3>1 DEF PublishStatus, s
  <2>2. CASE obj' = obj /\ run' = run
    BY <2>2
  <2> QED BY <1>7, <2>1, <2>2 DEF PublishStatus, s
<1>8. CASE obj' = obj /\ run' = run
  BY <1>0, <1>8
<1> QED
  BY <1>2, <1>3, <1>4, <1>5, <1>6, <1>7, <1>8
  DEF Next, Environment, Worker, Crash, InformerSync, StartReconcile, RunFinalizer, PreApply,
      RunAction, vars

StatusInv ==
    /\ RunIsPast /\ ReadyIsCurrent
    /\ ProvisioningCounts => ReadyIsHonest /\ FailureIsReported

LEMMA NoStatusPhase == NoStatus.phase = ""
BY Zenon DEF NoStatus

LEMMA PublishKeepsStatus ==
    ASSUME GuardInv, AgeInv, NEW skip \in BOOLEAN,
           pc = "status", obj.present, obj.uid = res.uid,
           obj'.status = IF skip THEN NoStatus ELSE FinalStatus,
           obj'.uid = obj.uid, obj'.gen = obj.gen, obj'.present = obj.present,
           run' = [uid |-> res.uid, gen |-> res.gen, outcome |-> perr,
                   skipped |-> skip, set |-> active \union {Provisioning}]
    PROVE  StatusInv'
<1> USE DEF GuardInv
<1>1. /\ run'.uid = obj'.uid /\ run'.gen = res.gen /\ run'.outcome = perr
      /\ run'.skipped = skip /\ run'.set = active \union {Provisioning}
  OBVIOUS
<1>2. /\ obj \in Object /\ res \in Object /\ cache \in Object
      /\ obj.uid \in Nat /\ obj.gen \in Nat /\ res.gen \in Nat
  BY ObjectParts DEF TypeOK
<1>3. RunIsPast'
  BY <1>1, <1>2 DEF RunIsPast
<1>4. CASE skip
  <2>1. obj'.status.phase = ""
    BY <1>4, NoStatusPhase
  <2> QED BY <1>1, <1>3, <1>4, <2>1 DEF StatusInv, ReadyIsCurrent, ReadyIsHonest, FailureIsReported
<1>5. CASE ~skip
  <2>1. /\ obj'.status.conds = FinalConds
        /\ obj'.status.phase = IF IsHappy(FinalConds) THEN "Ready" ELSE "NotReady"
        /\ IsHappy(FinalConds) => obj'.status.observed = res.gen
    BY <1>5 DEF FinalStatus
  <2>2. ReadyIsCurrent'
    BY <1>1, <2>1, ReadyResult DEF ReadyIsCurrent
  <2>3. ASSUME ProvisioningCounts PROVE ReadyIsHonest'
    <3> SUFFICES ASSUME IsHappy(FinalConds)
                 PROVE  /\ IsHappy(obj'.status.conds)
                        /\ obj'.status.conds[Provisioning].status = "True"
                        /\ obj'.status.conds[Provisioning].gen = obj'.status.observed
                        /\ obj'.status.observed \in 1 .. obj'.gen
                        /\ Unhealthy(obj'.status.conds) = {}
      BY <2>1 DEF ReadyIsHonest
    <3>1. perr = "ok" /\ Unhealthy(FinalConds) = {}
      BY <2>3, ReadyResult
    <3>2. FinalConds[Provisioning].status = "True" /\ FinalConds[Provisioning].gen = res.gen
      BY <3>1, FinalCondsResult
    <3>3. res.gen \in 1 .. obj.gen
      <4>1. Older(res, obj)
        BY <1>2, OlderIsOrder DEF AgeInv
      <4>2. res.gen <= obj.gen /\ res.present
        BY <4>1 DEF Older
      <4> QED BY <1>2, <4>2 DEF AgeInv, Sound
    <3> QED BY <2>1, <3>1, <3>2, <3>3
  <2>4. ASSUME ProvisioningCounts PROVE FailureIsReported'
    <3> SUFFICES ASSUME perr # "ok"
                 PROVE  /\ obj'.status.phase = "NotReady"
                        /\ obj'.status.conds[Provisioning].status = "False"
                        /\ obj'.status.conds[Provisioning].gen = run'.gen
      BY <1>1 DEF FailureIsReported
    <3>1. ~IsHappy(FinalConds)
      BY <2>4, ReadyResult
    <3> QED BY <1>1, <2>1, <3>1, FinalCondsResult
  <2> QED BY <1>3, <2>2, <2>3, <2>4 DEF StatusInv
<1> QED BY <1>4, <1>5

LEMMA StepStatus ==
    ASSUME GuardInv, AgeInv, StatusInv, [Next]_vars
    PROVE  StatusInv'
<1>0. /\ obj.uid \in Nat /\ obj.gen \in Nat /\ run.uid \in Nat
      /\ obj'.uid \in Nat /\ obj'.gen \in Nat
  <2>1. TypeOK'
    BY StepInv DEF GuardInv
  <2>2. run.uid \in 0 .. MaxUid
    BY DEF GuardInv, TypeOK
  <2> QED BY <2>1, <2>2, ObjectParts, ReconcilerAssumption DEF GuardInv, TypeOK
<1>1. CASE /\ obj'.status = obj.status /\ obj'.uid = obj.uid /\ obj'.gen >= obj.gen
           /\ obj'.present = obj.present /\ run' = run
  <2>1. RunIsPast' /\ ReadyIsCurrent' /\ (FailureIsReported => FailureIsReported')
    BY <1>1 DEF StatusInv, RunIsPast, ReadyIsCurrent, FailureIsReported
  <2>2. ReadyIsHonest => ReadyIsHonest'
    BY <1>0, <1>1 DEF ReadyIsHonest
  <2>3. ProvisioningCounts' <=> ProvisioningCounts
    BY DEF ProvisioningCounts
  <2> QED BY <2>1, <2>2, <2>3 DEF StatusInv
<1>2. CASE /\ obj'.status = NoStatus /\ run' = run
           /\ obj'.uid >= obj.uid /\ (obj'.present => obj'.uid > obj.uid)
  <2>1. obj'.status.phase = ""
    BY <1>2, NoStatusPhase
  <2>2. RunIsPast' /\ FailureIsReported'
    BY <1>0, <1>2 DEF StatusInv, RunIsPast, FailureIsReported
  <2>3. ReadyIsCurrent' /\ ReadyIsHonest'
    BY <2>1 DEF ReadyIsCurrent, ReadyIsHonest
  <2> QED BY <2>2, <2>3 DEF StatusInv
<1> QED BY <1>1, <1>2, StatusShape, PublishKeepsStatus

LEMMA InitStatus == Init => StatusInv
<1> SUFFICES ASSUME Init PROVE StatusInv
  OBVIOUS
<1>1. obj = Gone(0) /\ run.uid = 0
  BY DEF Init
<1>2. obj.uid = 0 /\ ~obj.present /\ obj.status = NoStatus
  BY <1>1 DEF Gone
<1>3. obj.status.phase = ""
  BY <1>2, NoStatusPhase
<1>4. RunIsPast
  BY <1>1, <1>2 DEF RunIsPast
<1>5. ReadyIsCurrent /\ ReadyIsHonest /\ FailureIsReported
  BY <1>2, <1>3, Zenon DEF ReadyIsCurrent, ReadyIsHonest, FailureIsReported
<1> QED BY <1>4, <1>5 DEF StatusInv

(* What the stored status says is bound to one reconciliation.              *)
THEOREM StatusInvariant == Spec => []StatusInv
<1> DEFINE Inv == GuardInv /\ AgeInv /\ StatusInv
<1>1. Init => Inv
  BY InitInv, InitAge, InitStatus
<1>2. Inv /\ [Next]_vars => Inv'
  BY StepInv, StepAge, StepStatus
<1>3. Inv => StatusInv
  OBVIOUS
<1> QED BY <1>1, <1>2, <1>3, PTL DEF Spec

(* Health is never inherited: with the cleanup of stale conditions, an      *)
(* object is only ever published as Ready by a reconciliation that set      *)
(* every dependent condition itself (CleanupStaleConditions).               *)
THEOREM ReadyIsAlwaysCurrent == Spec => []ReadyIsCurrent
BY StatusInvariant, PTL DEF StatusInv

(* For a reconciler whose provisioning condition counts, as ReconcilerFor   *)
(* builds it: a stored Ready is the truth about the observed generation,    *)
(* with provisioning True for it and nothing unhealthy, whatever the user's *)
(* actions mark or return and whatever copy the worker started from.        *)
THEOREM ReadyIsAlwaysHonest == ProvisioningCounts => (Spec => []ReadyIsHonest)
<1> SUFFICES ASSUME ProvisioningCounts PROVE Spec => []ReadyIsHonest
  OBVIOUS
<1>1. StatusInv => ReadyIsHonest
  BY DEF StatusInv
<1> QED BY <1>1, StatusInvariant, PTL

(* For such a reconciler: after a reconciliation that failed or was stopped *)
(* the stored status says so, for its generation, until another one is      *)
(* published or the object is created anew.                                 *)
THEOREM FailureIsAlwaysReported == ProvisioningCounts => (Spec => []FailureIsReported)
<1> SUFFICES ASSUME ProvisioningCounts PROVE Spec => []FailureIsReported
  OBVIOUS
<1>1. StatusInv => FailureIsReported
  BY DEF StatusInv
<1> QED BY <1>1, StatusInvariant, PTL

=============================================================================
