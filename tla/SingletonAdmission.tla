------------------------- MODULE SingletonAdmission -------------------------
(***************************************************************************)
(* Creations of a cluster-scoped singleton that pass through               *)
(* ValidateSingletonCreation (pkg/webhook): the webhook lists, answers,    *)
(* and the API server stores the object afterwards, while other requests   *)
(* are at other stages.  GetSingleton (pkg/cluster) reads the result.      *)
(***************************************************************************)
EXTENDS Naturals, FiniteSets

CONSTANTS Creations  \* requests; each creates an object of its own name

VARIABLES
    stage,     \* of each request: new, listing, admitted, denied, stored, deleted
    overlap    \* pairs of requests that were under way at the same time

admissionVars == <<stage, overlap>>

Existing == {r \in Creations : stage[r] = "stored"}
UnderWay == {r \in Creations : stage[r] \in {"listing", "admitted"}}

AdmissionInit == stage = [r \in Creations |-> "new"] /\ overlap = {}

Submit(r) ==
    /\ stage[r] = "new"
    /\ stage' = [stage EXCEPT ![r] = "listing"]
    /\ overlap' = overlap \union ({r} \X UnderWay) \union (UnderWay \X {r})

\* Mutant: a list that fails lets the request through.
ValidateFailsOpen(r) ==
    /\ stage[r] = "listing"
    /\ \E listed \in BOOLEAN :
        stage' = [stage EXCEPT ![r] =
                    IF listed /\ Existing # {} THEN "denied" ELSE "admitted"]
    /\ UNCHANGED overlap

\* CountObjects and DenyCountGtZero; a list that fails is an error response.
ValidateSingletonCreation(r) ==
    /\ stage[r] = "listing"
    /\ \E listed \in BOOLEAN :
        stage' = [stage EXCEPT ![r] =
                    IF ~listed \/ Existing # {} THEN "denied" ELSE "admitted"]
    /\ UNCHANGED overlap

StoreSingleton(r) ==
    /\ stage[r] = "admitted"
    /\ stage' = [stage EXCEPT ![r] = "stored"]
    /\ UNCHANGED overlap

\* Other operations are always admitted.
DeleteSingleton(r) ==
    /\ stage[r] = "stored"
    /\ stage' = [stage EXCEPT ![r] = "deleted"]
    /\ UNCHANGED overlap

AdmissionNext ==
    \E r \in Creations :
        \/ Submit(r) \/ ValidateSingletonCreation(r) \/ StoreSingleton(r)
        \/ DeleteSingleton(r)

AdmissionSpec == AdmissionInit /\ [][AdmissionNext]_admissionVars

GetSingleton ==
    IF Existing = {} THEN "ErrNoInstance"
    ELSE IF Cardinality(Existing) > 1 THEN "ErrMultipleInstances" ELSE "found"

-----------------------------------------------------------------------------

\* Two instances exist only if one was under way while the other was: the
\* webhook excludes everything but creations that overlap (singleton.go:31).
OnlyOverlapsDuplicate ==
    GetSingleton = "ErrMultipleInstances" =>
        \A r, s \in Existing : r = s \/ <<r, s>> \in overlap
=============================================================================
