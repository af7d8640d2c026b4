--------------------------- MODULE PipelineProofs ---------------------------
(***************************************************************************)
(* Proofs about the children of a platform object (Pipeline), for any set  *)
(* of children, manifests, options of the actions, users and failures.     *)
(*                                                                         *)
(*   TypeCorrect           Spec => []TypeOK, from TypeInv.                 *)
(*   OwnedIsAlwaysCurrent  what is owned and wanted is current once all is *)
(*                         quiet, from CurrentInv: whatever is not as its  *)
(*                         manifest says is queued, about to be noticed by *)
(*                         the watch, or still to be deployed by the run.  *)
(*   OnlyStaleIsCollected  gc spares the children being deployed, from     *)
(*                         CollectInv: what the run is done with carries   *)
(*                         its stamp, is released or is only created.      *)
(*                                                                         *)
(* The effect of a write to the API server is worked out once per kind of  *)
(* write (the lemmas ending in Effect), and StepKinds says that every step *)
(* that changes a child is one of them.                                    *)
(***************************************************************************)
EXTENDS Pipeline, WellFoundedInduction, TLAPS

\* A non-empty set of children has a first one (SortByApplyOrder).
LEMMA MinIsMember ==
    ASSUME NEW S \in SUBSET Nat, S # {}
    PROVE  Min(S) \in S
<1> DEFINE R == {ss \in Nat \X Nat : ss[1] < ss[2]}
<1>1. IsWellFoundedOn(R, Nat)
  BY NatLessThanWellFounded, Zenon DEF OpToRel
<1>2. PICK x \in S : \A y \in S : ~(<<y, x>> \in R)
  <2> HIDE DEF R
  <2> QED BY <1>1, WFMin
<1>3. ASSUME NEW y \in S
      PROVE  x <= y
  <2>1. x \in Nat /\ y \in Nat
    OBVIOUS
  <2>2. ~(<<y, x>> \in R)
    BY <1>2, Zenon
  <2>3. ~(y < x)
    BY <2>1, <2>2
  <2> QED
    BY <2>1, <2>3
<1> QED
  BY <1>3 DEF Min

-----------------------------------------------------------------------------
(***************************************************************************)
(* Types.                                                                  *)
(***************************************************************************)

Deploying == pc \in {"lookup", "disown", "release", "deploy"}
Holding == pc \in {"disown", "release", "deploy"}
Phases == {"idle", "lookup", "disown", "release", "deploy", "gc", "list", "collect"}

\* The instance only moves on, and a run is of a generation it has had.
GenerationsOK ==
    /\ gen \in 1 .. MaxGen /\ inst \in 1 .. gen /\ rgen \in 0 .. inst
    /\ rkey \in 0 .. inst
    /\ pc # "idle" => rgen # 0

\* A run works on children of its generation while it deploys.
WorkOK ==
    /\ pc \in Phases
    /\ todo \subseteq Names
    /\ pc \in {"disown", "release", "deploy", "collect"} => todo # {}
    /\ Deploying => todo \subseteq Desired[rgen]

\* The informer's copies are of versions that were given out.
ChildrenOK ==
    /\ live \in [Names -> Child] /\ view \in [Names -> Child] /\ cur \in Child
    /\ \A n \in Names : view[n].rv <= live[n].rv

\* So are the versions the deploy cache remembers.
KeysOK ==
    /\ dcache \subseteq Names \X Nat \X (1 .. MaxGen)
    /\ \A k \in dcache : k[2] <= live[k[1]].rv /\ k[3] <= inst

FlagsOK == queued \in BOOLEAN /\ generated \in BOOLEAN /\ failed \in BOOLEAN

BoundsOK == edits \in 0 .. MaxEdits /\ faults \in 0 .. MaxFaults

TypeInv == GenerationsOK /\ WorkOK /\ ChildrenOK /\ KeysOK /\ FlagsOK /\ BoundsOK

LEMMA GenerationsStep ==
    ASSUME GenerationsOK, [Next]_vars
    PROVE  GenerationsOK'
<1> USE PipelineAssumption DEF GenerationsOK
<1>1. CASE UpdateInstance BY <1>1 DEF UpdateInstance, worker, caches
<1>2. CASE \E n \in Names : UserEdit(n) \/ UserDelete(n) \/ SyncChild(n) \/ Vanish(n)
  BY <1>2 DEF UserEdit, UserDelete, SyncChild, Vanish, worker, caches
<1>3. CASE SyncInstance BY <1>3 DEF SyncInstance, worker, caches
<1>4. CASE Render
  <2>1. CASE rgen' = inst /\ rkey' = IF RenderCaching THEN inst ELSE 0
    BY <1>4, <2>1 DEF Render
  <2>2. CASE UNCHANGED <<queued, worker, rkey>>
    BY <1>4, <2>2 DEF Render, worker
  <2> QED BY <1>4, <2>1, <2>2 DEF Render
<1>5. CASE Lookup BY <1>5 DEF Lookup, ChildError, NextChild, Return, Idle, caches
<1>6. CASE \E owner \in {"us", "other"} : Disown(owner)
  BY <1>6 DEF Disown, NextChild, Return, Idle, caches
<1>7. CASE SkipChild \/ Apply
  BY <1>7 DEF SkipChild, Apply, ChildError, NextChild, Return, Idle
<1>8. CASE EndDeploy \/ StartCollect
  BY <1>8 DEF EndDeploy, StartCollect, Return, Idle, caches
<1>9. CASE List \/ Collect \/ EndCollect
  BY <1>9 DEF List, Collect, EndCollect, Return, Idle, caches
<1>10. CASE Crash BY <1>10 DEF Crash, Idle
<1>11. CASE \E k \in dcache : Expire(k) BY <1>11 DEF Expire, worker
<1>12. CASE UNCHANGED vars BY <1>12 DEF vars
<1> QED
  BY <1>1, <1>2, <1>3, <1>4, <1>5, <1>6, <1>7, <1>8, <1>9, <1>10, <1>11, <1>12
     DEF Next, Users, Watch, Worker

LEMMA WorkStep ==
    ASSUME GenerationsOK, WorkOK, [Next]_vars
    PROVE  WorkOK'
<1> USE PipelineAssumption DEF WorkOK, Deploying, Phases
<1>0. todo # {} => Min(todo) \in todo
  BY MinIsMember
<1>1. CASE UpdateInstance BY <1>1 DEF UpdateInstance, worker, caches
<1>2. CASE \E n \in Names : UserEdit(n) \/ UserDelete(n) \/ SyncChild(n) \/ Vanish(n)
  BY <1>2 DEF UserEdit, UserDelete, SyncChild, Vanish, worker, caches
<1>3. CASE SyncInstance BY <1>3 DEF SyncInstance, worker, caches
<1>4. CASE Render
  <2>1. inst \in 1 .. MaxGen
    BY DEF GenerationsOK
  <2>2. Desired[inst] \subseteq Names
    BY <2>1
  <2>3. CASE rgen' = inst /\ todo' = Desired[inst] /\ pc' = "lookup"
    BY <2>2, <2>3
  <2>4. CASE UNCHANGED <<queued, worker, rkey>>
    BY <2>4 DEF worker
  <2> QED BY <1>4, <2>3, <2>4 DEF Render
<1>5. CASE Lookup BY <1>5 DEF Lookup, ChildError, NextChild, Return, Idle, caches
<1>6. CASE \E owner \in {"us", "other"} : Disown(owner)
  BY <1>6 DEF Disown, NextChild, Return, Idle, caches
<1>7. CASE SkipChild \/ Apply
  BY <1>7 DEF SkipChild, Apply, ChildError, NextChild, Return, Idle
<1>8. CASE EndDeploy \/ StartCollect
  BY <1>8 DEF EndDeploy, StartCollect, Return, Idle, caches
<1>9. CASE List \/ Collect \/ EndCollect
  BY <1>9 DEF List, Collect, EndCollect, Return, Idle, caches
<1>10. CASE Crash BY <1>10 DEF Crash, Idle
<1>11. CASE \E k \in dcache : Expire(k) BY <1>11 DEF Expire, worker
<1>12. CASE UNCHANGED vars BY <1>12 DEF vars
<1> QED
  BY <1>1, <1>2, <1>3, <1>4, <1>5, <1>6, <1>7, <1>8, <1>9, <1>10, <1>11, <1>12
     DEF Next, Users, Watch, Worker

LEMMA FlagsStep ==
    ASSUME FlagsOK, [Next]_vars
    PROVE  FlagsOK'
<1> USE DEF FlagsOK
<1>1. CASE UpdateInstance BY <1>1 DEF UpdateInstance, worker, caches
<1>2. CASE \E n \in Names : UserEdit(n) \/ UserDelete(n) \/ SyncChild(n) \/ Vanish(n)
  BY <1>2 DEF UserEdit, UserDelete, SyncChild, Vanish, worker, caches
<1>3. CASE SyncInstance BY <1>3 DEF SyncInstance, worker, caches
<1>4. CASE Render BY <1>4 DEF Render, Fault, worker
<1>5. CASE Lookup BY <1>5 DEF Lookup, ChildError, NextChild, Return, Idle, caches
<1>6. CASE \E owner \in {"us", "other"} : Disown(owner)
  BY <1>6 DEF Disown, NextChild, Return, Idle, caches
<1>7. CASE SkipChild \/ Apply
  BY <1>7 DEF SkipChild, Apply, ChildError, NextChild, Return, Idle
<1>8. CASE EndDeploy \/ StartCollect
  BY <1>8 DEF EndDeploy, StartCollect, Return, Idle, caches
<1>9. CASE List \/ Collect \/ EndCollect
  BY <1>9 DEF List, Collect, EndCollect, Return, Idle, caches
<1>10. CASE Crash BY <1>10 DEF Crash, Idle
<1>11. CASE \E k \in dcache : Expire(k) BY <1>11 DEF Expire, worker
<1>12. CASE UNCHANGED vars BY <1>12 DEF vars
<1> QED
  BY <1>1, <1>2, <1>3, <1>4, <1>5, <1>6, <1>7, <1>8, <1>9, <1>10, <1>11, <1>12
     DEF Next, Users, Watch, Worker

LEMMA BoundsStep ==
    ASSUME BoundsOK, [Next]_vars
    PROVE  BoundsOK'
<1> USE PipelineAssumption
<1> DEFINE Spent == edits < MaxEdits /\ edits' = edits + 1
<1>0. SUFFICES /\ UNCHANGED edits \/ Spent
               /\ UNCHANGED faults \/ Fault
  BY DEF BoundsOK, Fault
<1> HIDE DEF Spent
<1>1. CASE UpdateInstance BY <1>1 DEF UpdateInstance
<1>2. CASE \E n \in Names : UserEdit(n) \/ UserDelete(n) \/ SyncChild(n) \/ Vanish(n)
  BY <1>2 DEF UserEdit, UserDelete, SyncChild, Vanish, Spent
<1>3. CASE SyncInstance BY <1>3 DEF SyncInstance
<1>4. CASE Render BY <1>4, Zenon DEF Render
<1>5. CASE Lookup BY <1>5, Zenon DEF Lookup
<1>6. CASE \E owner \in {"us", "other"} : Disown(owner)
  BY <1>6, Zenon DEF Disown
<1>7. CASE SkipChild \/ Apply
  BY <1>7, Zenon DEF SkipChild, Apply
<1>8. CASE EndDeploy \/ StartCollect
  BY <1>8, Zenon DEF EndDeploy, StartCollect
<1>9. CASE List \/ Collect \/ EndCollect
  BY <1>9, Zenon DEF List, Collect, EndCollect
<1>10. CASE Crash BY <1>10 DEF Crash
<1>11. CASE \E k \in dcache : Expire(k) BY <1>11 DEF Expire
<1>12. CASE UNCHANGED vars BY <1>12 DEF vars
<1> QED
  BY <1>1, <1>2, <1>3, <1>4, <1>5, <1>6, <1>7, <1>8, <1>9, <1>10, <1>11, <1>12
     DEF Next, Users, Watch, Worker

-----------------------------------------------------------------------------
(***************************************************************************)
(* Versions of a child.                                                    *)
(***************************************************************************)

\* The same but for the resource version.
Like(a, b) ==
    /\ a.exists = b.exists /\ a.stamp = b.stamp /\ a.drift = b.drift
    /\ a.managed = b.managed /\ a.partOf = b.partOf /\ a.owners = b.owners
    /\ a.deleting = b.deleting

LEMMA LikeIsEqual ==
    ASSUME NEW a \in Child, NEW b \in Child, Like(a, b), a.rv = b.rv
    PROVE  a = b
<1> DEFINE F(c) == [exists |-> c.exists, rv |-> c.rv, stamp |-> c.stamp, drift |-> c.drift,
                    managed |-> c.managed, partOf |-> c.partOf, owners |-> c.owners,
                    deleting |-> c.deleting]
<1>1. a = F(a)
  BY DEF Child
<1>2. b = F(b)
  BY DEF Child
<1>3. F(a) = F(b)
  BY Zenon DEF Like
<1> QED BY <1>1, <1>2, <1>3, Zenon

LEMMA ChildFields ==
    ASSUME NEW c \in Child
    PROVE  /\ c.rv \in Nat /\ c.stamp \in 0 .. MaxGen /\ c.stamp \in Nat /\ c.managed \in {"", "false"}
           /\ c.owners \in SUBSET {"us", "other"}
           /\ c.exists \in BOOLEAN /\ c.drift \in BOOLEAN
           /\ c.partOf \in BOOLEAN /\ c.deleting \in BOOLEAN
<1>1. c.stamp \in 0 .. MaxGen
  BY DEF Child
<1>2. c.stamp \in Nat
  BY <1>1, PipelineAssumption
<1> QED BY <1>1, <1>2 DEF Child

LEMMA NoChildFields ==
    /\ NoChild \in Child
    /\ ~NoChild.exists /\ NoChild.stamp = 0 /\ ~NoChild.drift /\ NoChild.managed = ""
    /\ ~NoChild.partOf /\ NoChild.owners = {} /\ ~NoChild.deleting /\ NoChild.rv = 0
BY PipelineAssumption DEF NoChild, Child

LEMMA FoundFields ==
    ASSUME NEW c \in Child
    PROVE  /\ Found(c) \in Child
           /\ c.exists => Found(c) = c
           /\ ~c.exists => Found(c) = NoChild
BY NoChildFields DEF Found

LEMMA GoneFields ==
    ASSUME NEW c \in Child
    PROVE  /\ Gone(c) \in Child
           /\ ~Gone(c).exists /\ Gone(c).managed = "" /\ ~Gone(c).deleting
           /\ ~Gone(c).partOf /\ Gone(c).stamp = 0
           /\ Gone(c).owners = c.owners
<1>1. c.owners \in SUBSET {"us", "other"}
  BY DEF Child
<1>2. Gone(c) = [NoChild EXCEPT !.owners = c.owners]
  BY DEF Gone
<1>3. /\ NoChild \in Child /\ ~NoChild.exists /\ NoChild.managed = "" /\ ~NoChild.deleting
      /\ ~NoChild.partOf /\ NoChild.stamp = 0
  BY NoChildFields
<1> QED BY <1>1, <1>2, <1>3 DEF Child

LEMMA DeletingFields ==
    ASSUME NEW c \in Child, NEW d, d = [c EXCEPT !.deleting = TRUE]
    PROVE  /\ d \in Child /\ d.deleting
           /\ d.exists = c.exists /\ d.stamp = c.stamp /\ d.drift = c.drift
           /\ d.managed = c.managed /\ d.partOf = c.partOf /\ d.owners = c.owners
BY DEF Child

\* What a user may do to a child, other than taking it back.
LEMMA UserVersionFields ==
    ASSUME NEW c \in Child, NEW edit \in Edits \ {"delete"}
    PROVE  LET d == UserVersion(c, edit) IN
           /\ d \in Child
           /\ d.exists = c.exists /\ d.partOf = c.partOf /\ d.owners = c.owners
           /\ d.deleting = c.deleting
           /\ edit # "manage" /\ c.managed = "false" => d.managed = "false"
           /\ edit # "unstamp" => d.stamp = c.stamp
           /\ d.stamp = c.stamp \/ d.stamp = 0
<1> DEFINE d == UserVersion(c, edit)
<1>1. edit \in {"drift", "release", "manage", "unstamp"}
  BY PipelineAssumption
<1>2. CASE edit = "drift" BY <1>2 DEF UserVersion, Child
<1>3. CASE edit = "release" BY <1>3 DEF UserVersion, Child
<1>4. CASE edit = "manage" BY <1>4 DEF UserVersion, Child
<1>5. CASE edit = "unstamp"
  <2>1. 0 \in 0 .. MaxGen
    BY PipelineAssumption
  <2>2. d = [c EXCEPT !.stamp = 0]
    BY <1>5 DEF UserVersion
  <2> QED BY <1>5, <2>1, <2>2 DEF Child
<1> QED BY <1>1, <1>2, <1>3, <1>4, <1>5

LEMMA StrippedFields ==
    ASSUME NEW c \in Child, NEW owner, NEW d, d = [c EXCEPT !.owners = @ \ {owner}]
    PROVE  /\ d \in Child /\ d.owners = c.owners \ {owner}
           /\ d.exists = c.exists /\ d.stamp = c.stamp /\ d.drift = c.drift
           /\ d.managed = c.managed /\ d.partOf = c.partOf /\ d.deleting = c.deleting
BY DEF Child

LEMMA AppliedFields ==
    ASSUME NEW n \in Names, live \in [Names -> Child], rgen \in 0 .. MaxGen,
           NEW d, d = Applied(n)
    PROVE  /\ d \in Child
           /\ d.exists /\ d.stamp = rgen /\ ~d.drift /\ d.partOf
           /\ d.managed = Found(live[n]).managed /\ d.deleting = Found(live[n]).deleting
           /\ d.owners = IF n \in Owned THEN Found(live[n]).owners \union {"us"}
                                        ELSE Found(live[n]).owners
<1> DEFINE f == Found(live[n])
<1>1. f \in Child
  BY FoundFields
<1>2. d = [f EXCEPT !.exists = TRUE, !.stamp = rgen, !.drift = FALSE, !.partOf = TRUE,
                    !.owners = IF n \in Owned THEN @ \union {"us"} ELSE @]
  BY DEF Applied
<1> DEFINE os == IF n \in Owned THEN f.owners \union {"us"} ELSE f.owners
<1>3. os \in SUBSET {"us", "other"}
  <2> HIDE DEF f
  <2> QED BY <1>1 DEF Child
<1> DEFINE d1 == [f EXCEPT !.exists = TRUE]
<1> DEFINE d2 == [d1 EXCEPT !.stamp = rgen]
<1> DEFINE d3 == [d2 EXCEPT !.drift = FALSE]
<1> DEFINE d4 == [d3 EXCEPT !.partOf = TRUE]
<1> DEFINE d5 == [d4 EXCEPT !.owners = os]
<1>4. d = d5
  BY <1>1, <1>2 DEF Child
<1>5. d1 \in Child /\ d1.exists /\ d1.managed = f.managed /\ d1.deleting = f.deleting
  <2> HIDE DEF f
  <2> QED BY <1>1 DEF Child
<1> HIDE DEF d1, f
<1>6. /\ d2 \in Child /\ d2.exists /\ d2.managed = f.managed /\ d2.deleting = f.deleting
      /\ d2.stamp = rgen
  BY <1>5 DEF Child
<1> HIDE DEF d2
<1>7. /\ d3 \in Child /\ d3.exists /\ d3.managed = f.managed /\ d3.deleting = f.deleting
      /\ d3.stamp = rgen /\ ~d3.drift
  BY <1>6 DEF Child
<1> HIDE DEF d3
<1>8. /\ d4 \in Child /\ d4.exists /\ d4.managed = f.managed /\ d4.deleting = f.deleting
      /\ d4.stamp = rgen /\ ~d4.drift /\ d4.partOf
  BY <1>7 DEF Child
<1> HIDE DEF d4, os
<1>9. /\ d5 \in Child /\ d5.exists /\ d5.managed = f.managed /\ d5.deleting = f.deleting
      /\ d5.stamp = rgen /\ ~d5.drift /\ d5.partOf /\ d5.owners = os
  BY <1>3, <1>8 DEF Child
<1> QED
  BY <1>4, <1>9 DEF os, f

LEMMA CreatedFields ==
    ASSUME rgen \in 0 .. MaxGen,
           NEW d, d = [NoChild EXCEPT !.exists = TRUE, !.stamp = rgen, !.partOf = TRUE]
    PROVE  /\ d \in Child
           /\ d.exists /\ d.stamp = rgen /\ ~d.drift /\ d.partOf /\ d.managed = ""
           /\ ~d.deleting /\ d.owners = {}
BY PipelineAssumption DEF NoChild, Child

\* The child n has a new version, or none.
Rewrites(n) ==
    /\ live' \in [Names -> Child]
    /\ \A m \in Names \ {n} : live'[m] = live[m]
    /\ live' = live \/ (live'[n].rv = live[n].rv + 1 /\ ~Like(live'[n], live[n]))

LEMMA StoreEffect ==
    ASSUME live \in [Names -> Child], NEW n \in Names, NEW c \in Child, Store(n, c)
    PROVE  Rewrites(n) /\ Like(live'[n], c)
<1>1. live[n] \in Child
  OBVIOUS
<1>2. CASE [c EXCEPT !.rv = live[n].rv] = live[n]
  <2>1. live' = live
    BY <1>2 DEF Store
  <2> DEFINE d == [c EXCEPT !.rv = live[n].rv]
  <2>2. Like(d, c)
    BY DEF Like, Child
  <2>3. d = live[n]
    BY <1>2
  <2> HIDE DEF d
  <2>4. Like(live[n], c)
    BY <2>2, <2>3
  <2> QED BY <2>1, <2>4 DEF Rewrites
<1>3. CASE [c EXCEPT !.rv = live[n].rv] # live[n]
  <2> DEFINE v == live[n].rv + 1
             d == [c EXCEPT !.rv = v]
  <2>1. live' = [live EXCEPT ![n] = d]
    BY <1>3 DEF Store
  <2>0. live[n].rv \in Nat
    BY <1>1, ChildFields
  <2>2. v \in Nat
    BY <2>0
  <2> HIDE DEF v
  <2>3. d \in Child /\ d.rv = v
    BY <2>2 DEF Child
  <2>4. Like(d, c)
    BY DEF Like, Child
  <2> HIDE DEF d
  <2>5. ASSUME Like(d, live[n])
        PROVE  FALSE
    <3> DEFINE e == [c EXCEPT !.rv = live[n].rv]
    <3>1. e \in Child /\ e.rv = live[n].rv
      BY <2>0 DEF Child
    <3>2. Like(e, c)
      BY DEF Like, Child
    <3>3. e # live[n]
      BY <1>3
    <3> HIDE DEF e
    <3>4. Like(e, live[n])
      BY <2>4, <2>5, <3>2, Zenon DEF Like
    <3> QED BY <1>1, <3>1, <3>3, <3>4, LikeIsEqual
  <2>6. live'[n] = d /\ live' \in [Names -> Child] /\ \A m \in Names \ {n} : live'[m] = live[m]
    BY <2>1, <2>3
  <2> QED BY <2>3, <2>4, <2>5, <2>6 DEF Rewrites, v
<1> QED BY <1>2, <1>3

-----------------------------------------------------------------------------
(***************************************************************************)
(* What each action does to a child.                                       *)
(***************************************************************************)

Edited(n) ==
    /\ Rewrites(n)
    /\ live[n].exists /\ live'[n].exists
    /\ live'[n].partOf = live[n].partOf /\ live'[n].owners = live[n].owners
    /\ live'[n].deleting = live[n].deleting
    /\ "manage" \notin Edits /\ live[n].managed = "false" => live'[n].managed = "false"
    /\ "unstamp" \notin Edits => live'[n].stamp = live[n].stamp
    /\ live'[n].stamp = live[n].stamp \/ live'[n].stamp = 0

Vanished(n) ==
    /\ Rewrites(n)
    /\ ~live'[n].exists /\ live'[n].managed = "" /\ ~live'[n].deleting
    /\ ~live'[n].partOf /\ live'[n].stamp = 0 /\ live'[n].owners = live[n].owners

Marked(n) ==
    /\ Rewrites(n)
    /\ live'[n].deleting
    /\ live'[n].exists = live[n].exists /\ live'[n].stamp = live[n].stamp
    /\ live'[n].drift = live[n].drift /\ live'[n].managed = live[n].managed
    /\ live'[n].partOf = live[n].partOf /\ live'[n].owners = live[n].owners

Stripped(n, owner) ==
    /\ Rewrites(n)
    /\ live'[n].owners = live[n].owners \ {owner}
    /\ live'[n].exists = live[n].exists /\ live'[n].stamp = live[n].stamp
    /\ live'[n].drift = live[n].drift /\ live'[n].managed = live[n].managed
    /\ live'[n].partOf = live[n].partOf /\ live'[n].deleting = live[n].deleting

Deployed(n) ==
    /\ Rewrites(n)
    /\ live'[n].exists /\ live'[n].stamp = rgen /\ ~live'[n].drift /\ live'[n].partOf
    /\ live'[n].managed = Found(live[n]).managed
    /\ live'[n].deleting = Found(live[n]).deleting
    /\ live'[n].owners = IF n \in Owned THEN Found(live[n]).owners \union {"us"}
                                        ELSE Found(live[n]).owners

Created(n) ==
    /\ Rewrites(n)
    /\ ~live[n].exists
    /\ live'[n].exists /\ live'[n].stamp = rgen /\ ~live'[n].drift /\ live'[n].partOf
    /\ live'[n].managed = "" /\ ~live'[n].deleting /\ live'[n].owners = {}

LEMMA UserEditEffect ==
    ASSUME ChildrenOK, NEW n \in Names, UserEdit(n)
    PROVE  Edited(n)
<1>1. live \in [Names -> Child] /\ live[n] \in Child /\ live[n].exists
  BY DEF ChildrenOK, UserEdit
<1>2. PICK edit \in Edits \ {"delete"} : Store(n, UserVersion(live[n], edit))
  BY DEF UserEdit
<1> DEFINE d == UserVersion(live[n], edit)
<1>3. /\ d \in Child
      /\ d.exists = live[n].exists /\ d.partOf = live[n].partOf
      /\ d.owners = live[n].owners /\ d.deleting = live[n].deleting
      /\ edit # "manage" /\ live[n].managed = "false" => d.managed = "false"
      /\ edit # "unstamp" => d.stamp = live[n].stamp
      /\ d.stamp = live[n].stamp \/ d.stamp = 0
  BY <1>1, UserVersionFields, ZenonT(30)
<1>4. Store(n, d)
  BY <1>2
<1> HIDE DEF d
<1>5. Rewrites(n) /\ Like(live'[n], d)
  BY <1>1, <1>3, <1>4, StoreEffect
<1> QED
  BY <1>1, <1>3, <1>5, Zenon DEF Edited, Like

LEMMA RemoveEffect ==
    ASSUME ChildrenOK, NEW n \in Names, Remove(n)
    PROVE  Vanished(n) \/ Marked(n)
<1>1. live \in [Names -> Child] /\ live[n] \in Child
  BY DEF ChildrenOK
<1>2. CASE Store(n, Gone(live[n]))
  <2>1. Rewrites(n) /\ Like(live'[n], Gone(live[n]))
    BY <1>1, <1>2, GoneFields, StoreEffect
  <2> QED BY <1>1, <2>1, GoneFields, Zenon DEF Vanished, Like
<1>3. CASE Store(n, [live[n] EXCEPT !.deleting = TRUE])
  <2> DEFINE d == [live[n] EXCEPT !.deleting = TRUE]
  <2>1. /\ d \in Child /\ d.deleting
        /\ d.exists = live[n].exists /\ d.stamp = live[n].stamp /\ d.drift = live[n].drift
        /\ d.managed = live[n].managed /\ d.partOf = live[n].partOf
        /\ d.owners = live[n].owners
    BY <1>1, DeletingFields
  <2> HIDE DEF d
  <2>2. Rewrites(n) /\ Like(live'[n], d)
    BY <1>1, <1>3, <2>1, StoreEffect DEF d
  <2> QED BY <2>1, <2>2, Zenon DEF Marked, Like
<1> QED BY <1>2, <1>3 DEF Remove

LEMMA VanishEffect ==
    ASSUME ChildrenOK, NEW n \in Names, Vanish(n)
    PROVE  Vanished(n)
<1>1. live \in [Names -> Child] /\ live[n] \in Child /\ Store(n, Gone(live[n]))
  BY DEF ChildrenOK, Vanish
<1>2. Rewrites(n) /\ Like(live'[n], Gone(live[n]))
  BY <1>1, GoneFields, StoreEffect
<1> QED BY <1>1, <1>2, GoneFields, Zenon DEF Vanished, Like

LEMMA StripEffect ==
    ASSUME ChildrenOK, NEW n \in Names, NEW owner, cur = live[n],
           Store(n, [cur EXCEPT !.owners = @ \ {owner}])
    PROVE  Stripped(n, owner)
<1>1. live \in [Names -> Child] /\ live[n] \in Child
  BY DEF ChildrenOK
<1> DEFINE d == [live[n] EXCEPT !.owners = @ \ {owner}]
<1>2. Store(n, d)
  OBVIOUS
<1>3. /\ d \in Child /\ d.owners = live[n].owners \ {owner}
      /\ d.exists = live[n].exists /\ d.stamp = live[n].stamp /\ d.drift = live[n].drift
      /\ d.managed = live[n].managed /\ d.partOf = live[n].partOf
      /\ d.deleting = live[n].deleting
  BY <1>1, StrippedFields
<1> HIDE DEF d
<1>4. Rewrites(n) /\ Like(live'[n], d)
  BY <1>1, <1>2, <1>3, StoreEffect
<1> QED BY <1>3, <1>4, Zenon DEF Stripped, Like

LEMMA DeployEffect ==
    ASSUME ChildrenOK, rgen \in 0 .. MaxGen, NEW n \in Names, Store(n, Applied(n))
    PROVE  Deployed(n)
<1>1. live \in [Names -> Child] /\ live[n] \in Child
  BY DEF ChildrenOK
<1>2. /\ Applied(n) \in Child
      /\ Applied(n).exists /\ Applied(n).stamp = rgen /\ ~Applied(n).drift /\ Applied(n).partOf
      /\ Applied(n).managed = Found(live[n]).managed
      /\ Applied(n).deleting = Found(live[n]).deleting
      /\ Applied(n).owners = IF n \in Owned THEN Found(live[n]).owners \union {"us"}
                                            ELSE Found(live[n]).owners
  BY <1>1, AppliedFields
<1>3. Rewrites(n) /\ Like(live'[n], Applied(n))
  BY <1>1, <1>2, StoreEffect
<1> QED BY <1>2, <1>3, Zenon DEF Deployed, Like

LEMMA CreateEffect ==
    ASSUME ChildrenOK, rgen \in 0 .. MaxGen, NEW n \in Names, ~live[n].exists,
           Store(n, [NoChild EXCEPT !.exists = TRUE, !.stamp = rgen, !.partOf = TRUE])
    PROVE  Created(n)
<1>1. live \in [Names -> Child]
  BY DEF ChildrenOK
<1> DEFINE d == [NoChild EXCEPT !.exists = TRUE, !.stamp = rgen, !.partOf = TRUE]
<1>2. /\ d \in Child
      /\ d.exists /\ d.stamp = rgen /\ ~d.drift /\ d.partOf /\ d.managed = ""
      /\ ~d.deleting /\ d.owners = {}
  BY CreatedFields
<1>3. Store(n, d)
  OBVIOUS
<1> HIDE DEF d
<1>4. Rewrites(n) /\ Like(live'[n], d)
  BY <1>1, <1>2, <1>3, StoreEffect
<1> QED BY <1>2, <1>4, Zenon DEF Created, Like

\* The worker's first child of those left.
LEMMA FirstChild ==
    ASSUME WorkOK, todo # {}
    PROVE  Min(todo) \in todo /\ Min(todo) \in Names
BY MinIsMember, PipelineAssumption DEF WorkOK

LEMMA DisownEffect ==
    ASSUME TypeInv, NEW owner \in {"us", "other"}, Disown(owner), NEW n, n = Min(todo)
    PROVE  /\ n \in todo /\ n \in Names
           /\ pc = (IF owner = "other" THEN "disown" ELSE "release")
           /\ UNCHANGED <<gen, inst, view, rkey, dcache, edits>>
           /\ \/ /\ owner = "other" /\ owner \in cur.owners /\ cur = live[n]
                 /\ Stripped(n, owner)
                 /\ cur' = live'[n]
                 /\ pc' = IF cur.managed = "false" THEN "release" ELSE "deploy"
                 /\ UNCHANGED <<queued, rgen, generated, todo, failed>>
              \/ /\ owner = "us" /\ owner \in cur.owners /\ cur = live[n]
                 /\ Stripped(n, owner)
                 /\ NextChild(FALSE)
              \/ Return(TRUE) /\ UNCHANGED live
              \/ owner \notin cur.owners /\ NextChild(FALSE) /\ UNCHANGED live
<1>1. pc = (IF owner = "other" THEN "disown" ELSE "release")
  BY DEF Disown
<1>2. n \in todo /\ n \in Names
  <2>1. todo # {}
    BY <1>1 DEF TypeInv, WorkOK
  <2> QED BY <2>1, FirstChild DEF TypeInv
<1>3. UNCHANGED <<gen, inst, view, rkey, dcache, edits>>
  BY DEF Disown, caches
<1>4. CASE /\ owner \in cur.owners
           /\ cur = live[n]
           /\ Store(n, [cur EXCEPT !.owners = @ \ {owner}])
           /\ IF owner = "other"
              THEN /\ cur' = live'[n]
                   /\ pc' = IF cur.managed = "false" THEN "release" ELSE "deploy"
                   /\ UNCHANGED <<queued, rgen, generated, todo, failed>>
              ELSE NextChild(FALSE)
  <2>1. Stripped(n, owner)
    BY <1>2, <1>4, StripEffect DEF TypeInv
  <2>2. CASE owner = "other"
    BY <1>1, <1>2, <1>3, <1>4, <2>1, <2>2, Zenon
  <2>3. CASE owner = "us"
    <3>1. owner # "other"
      BY <2>3
    <3> QED BY <1>1, <1>2, <1>3, <1>4, <2>1, <2>3, <3>1, Zenon
  <2> QED BY <2>2, <2>3
<1>5. CASE Return(TRUE) /\ UNCHANGED live
  BY <1>1, <1>2, <1>3, <1>5
<1>6. CASE owner \notin cur.owners /\ NextChild(FALSE) /\ UNCHANGED live
  BY <1>1, <1>2, <1>3, <1>6
<1> QED
  BY <1>4, <1>5, <1>6, Zenon DEF Disown

LEMMA ApplyEffect ==
    ASSUME TypeInv, Apply, NEW n, n = Min(todo)
    PROVE  /\ n \in todo /\ n \in Names /\ pc = "deploy" /\ ~Skip
           /\ UNCHANGED <<gen, inst, view, rkey, edits>>
           /\ \/ /\ n \notin CreateOnly /\ Deployed(n) /\ Remember(n, live'[n])
                 /\ NextChild(FALSE)
              \/ /\ n \in CreateOnly /\ live[n].exists /\ UNCHANGED live
                 /\ Remember(n, NoChild) /\ NextChild(FALSE)
              \/ /\ n \in CreateOnly /\ Created(n) /\ Remember(n, live'[n])
                 /\ NextChild(FALSE)
              \/ ChildError /\ UNCHANGED <<live, dcache>>
<1>1. pc = "deploy" /\ ~Skip
  BY DEF Apply
<1>2. n \in todo /\ n \in Names
  <2>1. todo # {}
    BY <1>1 DEF TypeInv, WorkOK
  <2> QED BY <2>1, FirstChild DEF TypeInv
<1>3. UNCHANGED <<gen, inst, view, rkey, edits>>
  BY DEF Apply
<1>4. rgen \in 0 .. MaxGen
  BY PipelineAssumption DEF TypeInv, GenerationsOK
<1>5. CASE n \notin CreateOnly /\ Store(n, Applied(n)) /\ Remember(n, live'[n]) /\ NextChild(FALSE)
  <2>1. Deployed(n)
    BY <1>2, <1>4, <1>5, DeployEffect DEF TypeInv
  <2> QED BY <1>1, <1>2, <1>3, <1>5, <2>1
<1>6. CASE n \in CreateOnly /\ live[n].exists /\ UNCHANGED live
           /\ Remember(n, NoChild) /\ NextChild(FALSE)
  BY <1>1, <1>2, <1>3, <1>6
<1>7. CASE /\ n \in CreateOnly /\ ~live[n].exists
           /\ Store(n, [NoChild EXCEPT !.exists = TRUE, !.stamp = rgen, !.partOf = TRUE])
           /\ Remember(n, live'[n]) /\ NextChild(FALSE)
  <2>1. Created(n)
    BY <1>2, <1>4, <1>7, CreateEffect DEF TypeInv
  <2> QED BY <1>1, <1>2, <1>3, <1>7, <2>1
<1>8. CASE ChildError /\ UNCHANGED <<live, dcache>>
  BY <1>1, <1>2, <1>3, <1>8
<1> QED
  BY <1>5, <1>6, <1>7, <1>8, Zenon DEF Apply

LEMMA CollectEffect ==
    ASSUME TypeInv, Collect, NEW n, n = Min(todo)
    PROVE  /\ n \in todo /\ n \in Names /\ pc = "collect"
           /\ UNCHANGED <<gen, inst, view, rkey, dcache, edits>>
           /\ \/ /\ UNCHANGED live \/ Vanished(n) \/ Marked(n)
                 /\ pc' = "list" /\ todo' = todo \ {n}
                 /\ UNCHANGED <<rgen, generated, cur, failed, queued>>
              \/ Return(TRUE) /\ UNCHANGED live
<1>1. pc = "collect"
  BY DEF Collect
<1>2. n \in todo /\ n \in Names
  <2>1. todo # {}
    BY <1>1 DEF TypeInv, WorkOK
  <2> QED BY <2>1, FirstChild DEF TypeInv
<1>3. UNCHANGED <<gen, inst, view, rkey, dcache, edits>>
  BY DEF Collect, caches
<1>4. CASE /\ Remove(n) \/ UNCHANGED live
           /\ pc' = "list" /\ todo' = todo \ {n}
           /\ UNCHANGED <<rgen, generated, cur, failed, queued>>
  <2>1. Remove(n) => Vanished(n) \/ Marked(n)
    BY <1>2, RemoveEffect DEF TypeInv
  <2> QED BY <1>1, <1>2, <1>3, <1>4, <2>1
<1>5. CASE Return(TRUE) /\ UNCHANGED live
  BY <1>1, <1>2, <1>3, <1>5
<1> QED
  BY <1>4, <1>5, Zenon DEF Collect

\* A step writes at most one child, and gives it the next version.
LEMMA LiveStep ==
    ASSUME TypeInv, [Next]_vars
    PROVE  /\ live' \in [Names -> Child]
           /\ \A m \in Names : live[m].rv <= live'[m].rv
           /\ \A m \in Names : live'[m].rv = live[m].rv => live'[m] = live[m]
<1> USE DEF TypeInv
<1>0. live \in [Names -> Child]
  BY DEF ChildrenOK
<1>A. CASE UNCHANGED live
  <2>1. \A m \in Names : live[m].rv \in Nat
    BY <1>0, ChildFields
  <2> QED BY <1>0, <1>A, <2>1
<1>B. CASE \E n \in Names : Rewrites(n)
  <2>1. PICK n \in Names : Rewrites(n)
    BY <1>B
  <2>2. \A m \in Names : live[m].rv \in Nat
    BY <1>0, ChildFields
  <2>3. CASE live' = live
    BY <1>0, <2>2, <2>3
  <2>4. CASE live'[n].rv = live[n].rv + 1
    BY <2>1, <2>2, <2>4 DEF Rewrites
  <2> QED BY <2>1, <2>3, <2>4 DEF Rewrites
<1>1. CASE UpdateInstance BY <1>1, <1>A DEF UpdateInstance
<1>2. ASSUME NEW n \in Names, UserEdit(n) PROVE \E m \in Names : Rewrites(m)
  BY <1>2, UserEditEffect DEF Edited
<1>3. ASSUME NEW n \in Names, UserDelete(n) PROVE \E m \in Names : Rewrites(m)
  BY <1>3, RemoveEffect DEF UserDelete, Vanished, Marked
<1>4. ASSUME NEW n \in Names, SyncChild(n) PROVE UNCHANGED live
  BY <1>4 DEF SyncChild
<1>5. ASSUME NEW n \in Names, Vanish(n) PROVE \E m \in Names : Rewrites(m)
  BY <1>5, VanishEffect DEF Vanished
<1>6. CASE SyncInstance BY <1>6, <1>A DEF SyncInstance
<1>7. CASE Render BY <1>7, <1>A DEF Render
<1>8. CASE Lookup BY <1>8, <1>A DEF Lookup
<1>9. ASSUME NEW owner \in {"us", "other"}, Disown(owner)
      PROVE  UNCHANGED live \/ \E n \in Names : Rewrites(n)
  BY <1>9, DisownEffect, Zenon DEF Stripped
<1>10. CASE SkipChild BY <1>10, <1>A DEF SkipChild
<1>11. CASE Apply
  <2>1. UNCHANGED live \/ \E n \in Names : Rewrites(n)
    BY <1>11, ApplyEffect, Zenon DEF Deployed, Created
  <2> QED BY <1>A, <1>B, <2>1
<1>12. CASE EndDeploy BY <1>12, <1>A DEF EndDeploy
<1>13. CASE StartCollect BY <1>13, <1>A DEF StartCollect
<1>14. CASE List BY <1>14, <1>A DEF List
<1>15. CASE Collect
  <2>1. UNCHANGED live \/ \E n \in Names : Rewrites(n)
    BY <1>15, CollectEffect, Zenon DEF Vanished, Marked
  <2> QED BY <1>A, <1>B, <2>1
<1>16. CASE EndCollect BY <1>16, <1>A DEF EndCollect
<1>17. CASE Crash BY <1>17, <1>A DEF Crash
<1>18. CASE \E k \in dcache : Expire(k) BY <1>18, <1>A DEF Expire
<1>19. CASE UNCHANGED vars BY <1>19, <1>A DEF vars
<1> QED
  BY <1>A, <1>B, <1>1, <1>2, <1>3, <1>4, <1>5, <1>6, <1>7, <1>8, <1>9, <1>10, <1>11, <1>12,
     <1>13, <1>14, <1>15, <1>16, <1>17, <1>18, <1>19
     DEF Next, Users, Watch, Worker

\* The informer's copies are the old ones, or current.
LEMMA ViewStep ==
    ASSUME TypeInv, [Next]_vars
    PROVE  \/ UNCHANGED view
           \/ UNCHANGED live /\ \E n \in Names : SyncChild(n)
           \/ UNCHANGED live /\ view' = live
<1>1. CASE UpdateInstance BY <1>1 DEF UpdateInstance
<1>2. CASE \E n \in Names : UserEdit(n) \/ UserDelete(n) \/ SyncChild(n) \/ Vanish(n)
  BY <1>2 DEF UserEdit, UserDelete, SyncChild, Vanish
<1>3. CASE SyncInstance BY <1>3 DEF SyncInstance
<1>4. CASE Render BY <1>4 DEF Render
<1>5. CASE Lookup BY <1>5 DEF Lookup
<1>6. CASE \E owner \in {"us", "other"} : Disown(owner) BY <1>6 DEF Disown
<1>7. CASE SkipChild \/ Apply BY <1>7 DEF SkipChild, Apply
<1>8. CASE EndDeploy \/ StartCollect BY <1>8 DEF EndDeploy, StartCollect
<1>9. CASE List \/ Collect \/ EndCollect BY <1>9 DEF List, Collect, EndCollect
<1>10. CASE Crash BY <1>10 DEF Crash
<1>11. CASE \E k \in dcache : Expire(k) BY <1>11 DEF Expire
<1>12. CASE UNCHANGED vars BY <1>12 DEF vars
<1> QED
  BY <1>1, <1>2, <1>3, <1>4, <1>5, <1>6, <1>7, <1>8, <1>9, <1>10, <1>11, <1>12
     DEF Next, Users, Watch, Worker

LEMMA CurStep ==
    ASSUME TypeInv, [Next]_vars
    PROVE  cur' \in Child
<1> USE DEF TypeInv
<1>0. cur \in Child /\ NoChild \in Child /\ \A n \in Names : Found(view[n]) \in Child
  BY NoChildFields, FoundFields DEF ChildrenOK
<1>L. live' \in [Names -> Child]
  BY LiveStep
<1>1. CASE UpdateInstance BY <1>1, <1>0 DEF UpdateInstance, worker
<1>2. CASE \E n \in Names : UserEdit(n) \/ UserDelete(n) \/ SyncChild(n) \/ Vanish(n)
  BY <1>2, <1>0 DEF UserEdit, UserDelete, SyncChild, Vanish, worker
<1>3. CASE SyncInstance BY <1>3, <1>0 DEF SyncInstance, worker
<1>4. CASE Render BY <1>4, <1>0 DEF Render, worker
<1>5. CASE Lookup
  <2>1. Min(todo) \in Names
    BY <1>5, FirstChild DEF Lookup
  <2> QED BY <1>5, <1>0, <2>1, Zenon DEF Lookup, ChildError, NextChild, Return, Idle
<1>6. ASSUME NEW owner \in {"us", "other"}, Disown(owner) PROVE cur' \in Child
  <2>1. cur' = NoChild \/ \E n \in Names : cur' = live'[n]
    BY <1>6, DisownEffect, Zenon DEF NextChild, Return, Idle
  <2> QED BY <1>0, <1>L, <2>1
<1>7. CASE SkipChild \/ Apply
  BY <1>7, <1>0, Zenon DEF SkipChild, Apply, ChildError, NextChild, Return, Idle
<1>8. CASE EndDeploy \/ StartCollect
  BY <1>8, <1>0 DEF EndDeploy, StartCollect, Return, Idle
<1>9. CASE List \/ Collect \/ EndCollect
  BY <1>9, <1>0, Zenon DEF List, Collect, EndCollect, Return, Idle
<1>10. CASE Crash BY <1>10, <1>0 DEF Crash, Idle
<1>11. CASE \E k \in dcache : Expire(k) BY <1>11, <1>0 DEF Expire, worker
<1>12. CASE UNCHANGED vars BY <1>12, <1>0 DEF vars
<1> QED
  BY <1>1, <1>2, <1>3, <1>4, <1>5, <1>6, <1>7, <1>8, <1>9, <1>10, <1>11, <1>12
     DEF Next, Users, Watch, Worker

LEMMA ChildrenStep ==
    ASSUME TypeInv, [Next]_vars
    PROVE  ChildrenOK'
<1> USE DEF TypeInv, ChildrenOK
<1>1. /\ live' \in [Names -> Child] /\ cur' \in Child
      /\ \A m \in Names : live[m].rv <= live'[m].rv
  BY LiveStep, CurStep
<1>2. \A m \in Names : live[m].rv \in Nat /\ live'[m].rv \in Nat /\ view[m].rv \in Nat
  BY <1>1, ChildFields
<1>3. CASE UNCHANGED view
  BY <1>1, <1>2, <1>3
<1>4. ASSUME UNCHANGED live, NEW n \in Names, SyncChild(n)
      PROVE  ChildrenOK'
  <2>1. view' = [view EXCEPT ![n] = live[n]]
    BY <1>4 DEF SyncChild
  <2> QED BY <1>1, <1>2, <1>4, <2>1
<1>5. CASE UNCHANGED live /\ view' = live
  BY <1>1, <1>2, <1>5
<1> QED
  BY <1>3, <1>4, <1>5, ViewStep

\* What becomes of the deploy cache.
LEMMA CacheStep ==
    ASSUME TypeInv, [Next]_vars
    PROVE  \/ dcache' \subseteq dcache
           \/ /\ Apply /\ Min(todo) \in Names
              /\ \/ /\ Min(todo) \notin CreateOnly /\ Deployed(Min(todo))
                    /\ dcache' = dcache \union {<<Min(todo), live'[Min(todo)].rv, rgen>>}
                 \/ /\ Min(todo) \in CreateOnly
                    /\ \/ dcache' = dcache \union {<<Min(todo), live'[Min(todo)].rv, rgen>>}
                       \/ dcache' = dcache \union {<<Min(todo), 0, rgen>>}
<1>1. CASE UpdateInstance BY <1>1 DEF UpdateInstance, caches
<1>2. CASE \E n \in Names : UserEdit(n) \/ UserDelete(n) \/ SyncChild(n) \/ Vanish(n)
  BY <1>2 DEF UserEdit, UserDelete, SyncChild, Vanish, caches
<1>3. CASE SyncInstance BY <1>3 DEF SyncInstance, caches
<1>4. CASE Render BY <1>4 DEF Render
<1>5. CASE Lookup BY <1>5 DEF Lookup, caches
<1>6. CASE \E owner \in {"us", "other"} : Disown(owner) BY <1>6 DEF Disown, caches
<1>7. CASE SkipChild BY <1>7 DEF SkipChild
<1>8. CASE Apply
  <2> DEFINE n == Min(todo)
  <2>1. /\ n \in Names
        /\ \/ n \notin CreateOnly /\ Deployed(n) /\ Remember(n, live'[n])
           \/ n \in CreateOnly /\ Remember(n, NoChild)
           \/ n \in CreateOnly /\ Remember(n, live'[n])
           \/ UNCHANGED dcache
    BY <1>8, ApplyEffect, Zenon
  <2>2. NoChild.rv = 0
    BY NoChildFields
  <2> HIDE DEF n
  <2>3. CASE n \notin CreateOnly /\ Deployed(n) /\ Remember(n, live'[n])
    BY <1>8, <2>1, <2>3, Zenon DEF Remember, Key, n
  <2>4. CASE n \in CreateOnly /\ Remember(n, NoChild)
    BY <1>8, <2>1, <2>2, <2>4, Zenon DEF Remember, Key, n
  <2>5. CASE n \in CreateOnly /\ Remember(n, live'[n])
    BY <1>8, <2>1, <2>5, Zenon DEF Remember, Key, n
  <2> QED BY <2>1, <2>3, <2>4, <2>5
<1>9. CASE EndDeploy \/ StartCollect BY <1>9 DEF EndDeploy, StartCollect, caches
<1>10. CASE List \/ Collect \/ EndCollect BY <1>10 DEF List, Collect, EndCollect, caches
<1>11. CASE Crash BY <1>11 DEF Crash
<1>12. CASE \E k \in dcache : Expire(k) BY <1>12 DEF Expire
<1>13. CASE UNCHANGED vars BY <1>13 DEF vars
<1> QED
  BY <1>1, <1>2, <1>3, <1>4, <1>5, <1>6, <1>7, <1>8, <1>9, <1>10, <1>11, <1>12, <1>13
     DEF Next, Users, Watch, Worker

\* The instance never goes back.
LEMMA InstStep ==
    ASSUME TypeInv, [Next]_vars
    PROVE  inst <= inst'
<1>0. inst \in Nat /\ gen \in Nat /\ inst <= gen
  BY DEF TypeInv, GenerationsOK
<1>1. UNCHANGED inst \/ inst' = gen
  <2>1. CASE UpdateInstance BY <2>1 DEF UpdateInstance
  <2>2. CASE \E n \in Names : UserEdit(n) \/ UserDelete(n) \/ SyncChild(n) \/ Vanish(n)
    BY <2>2 DEF UserEdit, UserDelete, SyncChild, Vanish
  <2>3. CASE SyncInstance BY <2>3 DEF SyncInstance
  <2>4. CASE Render BY <2>4 DEF Render
  <2>5. CASE Lookup BY <2>5 DEF Lookup
  <2>6. CASE \E owner \in {"us", "other"} : Disown(owner) BY <2>6 DEF Disown
  <2>7. CASE SkipChild \/ Apply BY <2>7 DEF SkipChild, Apply
  <2>8. CASE EndDeploy \/ StartCollect BY <2>8 DEF EndDeploy, StartCollect
  <2>9. CASE List \/ Collect \/ EndCollect BY <2>9 DEF List, Collect, EndCollect
  <2>10. CASE Crash BY <2>10 DEF Crash
  <2>11. CASE \E k \in dcache : Expire(k) BY <2>11 DEF Expire
  <2>12. CASE UNCHANGED vars BY <2>12 DEF vars
  <2> QED
    BY <2>1, <2>2, <2>3, <2>4, <2>5, <2>6, <2>7, <2>8, <2>9, <2>10, <2>11, <2>12
       DEF Next, Users, Watch, Worker
<1> QED BY <1>0, <1>1

LEMMA KeysStep ==
    ASSUME TypeInv, [Next]_vars
    PROVE  KeysOK'
<1>1. /\ live' \in [Names -> Child]
      /\ \A m \in Names : live[m].rv <= live'[m].rv
  BY LiveStep
<1>2. \A m \in Names : live[m].rv \in Nat /\ live'[m].rv \in Nat
  BY <1>1, ChildFields DEF TypeInv, ChildrenOK
<1>3. inst <= inst' /\ inst \in Nat /\ inst' \in Nat
  BY InstStep, GenerationsStep DEF TypeInv, GenerationsOK
<1> DEFINE Good(k) == /\ k \in Names \X Nat \X (1 .. MaxGen)
                      /\ k[2] <= live'[k[1]].rv /\ k[3] <= inst'
<1>4. ASSUME NEW k \in dcache
      PROVE  Good(k)
  <2>1. k \in Names \X Nat \X (1 .. MaxGen) /\ k[2] <= live[k[1]].rv /\ k[3] <= inst
    BY DEF TypeInv, KeysOK
  <2>2. k[1] \in Names /\ k[2] \in Nat /\ k[3] \in Nat
    BY <2>1
  <2> QED BY <1>1, <1>2, <1>3, <2>1, <2>2
<1>5. ASSUME NEW n \in Names, NEW v \in Nat, v <= live'[n].rv, Apply
      PROVE  Good(<<n, v, rgen>>)
  <2>1. rgen \in 1 .. MaxGen /\ rgen <= inst
    BY <1>5, PipelineAssumption DEF Apply, TypeInv, GenerationsOK
  <2> QED BY <1>3, <1>5, <2>1
<1>6. CASE dcache' \subseteq dcache
  BY <1>4, <1>6 DEF KeysOK
<1>7. CASE Apply /\ Min(todo) \in Names
           /\ \E v \in Nat : /\ v <= live'[Min(todo)].rv
                             /\ dcache' = dcache \union {<<Min(todo), v, rgen>>}
  <2> DEFINE n == Min(todo)
  <2>1. PICK v \in Nat : v <= live'[n].rv /\ dcache' = dcache \union {<<n, v, rgen>>}
    BY <1>7
  <2>2. n \in Names
    BY <1>7
  <2> HIDE DEF n
  <2>3. Good(<<n, v, rgen>>)
    BY <1>5, <1>7, <2>1, <2>2
  <2>4. \A k \in dcache' : Good(k)
    <3> HIDE DEF Good
    <3> QED BY <1>4, <2>1, <2>3
  <2> QED BY <2>4 DEF KeysOK
<1>8. Min(todo) \in Names =>
        0 <= live'[Min(todo)].rv /\ live'[Min(todo)].rv <= live'[Min(todo)].rv
          /\ live'[Min(todo)].rv \in Nat
  BY <1>2
<1> QED
  BY <1>6, <1>7, <1>8, CacheStep

\* The version of an adopted child at the start.
AdoptedChild == [NoChild EXCEPT !.exists = TRUE, !.rv = 1, !.owners = {"other"}]

LEMMA AdoptedFields ==
    /\ AdoptedChild \in Child
    /\ AdoptedChild.exists /\ AdoptedChild.rv = 1 /\ AdoptedChild.owners = {"other"}
    /\ ~AdoptedChild.partOf /\ AdoptedChild.stamp = 0 /\ ~AdoptedChild.deleting
    /\ AdoptedChild.managed = ""
<1> DEFINE d1 == [NoChild EXCEPT !.exists = TRUE]
           d2 == [d1 EXCEPT !.rv = 1]
           d3 == [d2 EXCEPT !.owners = {"other"}]
<1>0. /\ NoChild \in Child /\ ~NoChild.partOf /\ NoChild.stamp = 0 /\ ~NoChild.deleting
      /\ NoChild.managed = ""
  BY NoChildFields
<1>1. AdoptedChild = d3
  BY <1>0 DEF AdoptedChild, Child
<1>2. d1 \in Child /\ d1.exists /\ ~d1.partOf /\ d1.stamp = 0 /\ ~d1.deleting /\ d1.managed = ""
  BY <1>0 DEF Child
<1> HIDE DEF d1
<1>3. /\ d2 \in Child /\ d2.exists /\ ~d2.partOf /\ d2.stamp = 0 /\ ~d2.deleting
      /\ d2.managed = "" /\ d2.rv = 1
  BY <1>2 DEF Child
<1> HIDE DEF d2
<1>4. /\ d3 \in Child /\ d3.exists /\ ~d3.partOf /\ d3.stamp = 0 /\ ~d3.deleting
      /\ d3.managed = "" /\ d3.rv = 1 /\ d3.owners = {"other"}
  BY <1>3 DEF Child
<1> HIDE DEF d3
<1> QED BY <1>1, <1>4

LEMMA InitTypes ==
    ASSUME Init
    PROVE  TypeInv
<1> USE PipelineAssumption DEF Init
<1>1. AdoptedChild \in Child /\ NoChild \in Child
  BY AdoptedFields, NoChildFields
<1>2. live = [n \in Names |-> IF n \in Adopted THEN AdoptedChild ELSE NoChild]
  BY DEF AdoptedChild
<1>4. live \in [Names -> Child]
  BY <1>1, <1>2
<1>5. ChildrenOK
  <2>1. \A n \in Names : live[n].rv \in Nat
    BY <1>4, ChildFields
  <2>2. view = live /\ cur = NoChild
    OBVIOUS
  <2> QED BY <1>1, <1>4, <2>1, <2>2 DEF ChildrenOK
<1>6. GenerationsOK /\ BoundsOK
  BY DEF GenerationsOK, BoundsOK
<1>7. WorkOK
  BY DEF WorkOK, Phases, Deploying
<1>8. KeysOK
  BY DEF KeysOK
<1>9. FlagsOK
  BY Zenon DEF FlagsOK
<1> QED BY <1>5, <1>6, <1>7, <1>8, <1>9 DEF TypeInv

LEMMA TypeStep ==
    ASSUME TypeInv, [Next]_vars
    PROVE  TypeInv'
<1>1. ChildrenOK' /\ KeysOK'
  BY ChildrenStep, KeysStep
<1>2. GenerationsOK' /\ FlagsOK' /\ BoundsOK'
  BY GenerationsStep, FlagsStep, BoundsStep DEF TypeInv
<1>3. WorkOK'
  BY WorkStep DEF TypeInv
<1> QED BY <1>1, <1>2, <1>3 DEF TypeInv

LEMMA TypeInvImpliesTypeOK ==
    ASSUME TypeInv
    PROVE  TypeOK
<1>1. \A k \in dcache : k[1] \in Names /\ k[2] \in 0 .. live[k[1]].rv /\ k[3] \in 1 .. inst
  <2>1. ASSUME NEW k \in dcache
        PROVE  k[1] \in Names /\ k[2] \in 0 .. live[k[1]].rv /\ k[3] \in 1 .. inst
    <3>1. k \in Names \X Nat \X (1 .. MaxGen) /\ k[2] <= live[k[1]].rv /\ k[3] <= inst
      BY DEF TypeInv, KeysOK
    <3>2. k[1] \in Names /\ k[2] \in Nat /\ k[3] \in 1 .. MaxGen
      BY <3>1
    <3>3. live[k[1]].rv \in Nat
      BY <3>2, ChildFields DEF TypeInv, ChildrenOK
    <3>4. inst \in Nat
      BY DEF TypeInv, GenerationsOK
    <3> QED BY <3>1, <3>2, <3>3, <3>4, PipelineAssumption
  <2> QED BY <2>1
<1>2. {queued, generated, failed} \subseteq BOOLEAN
  BY Zenon DEF TypeInv, FlagsOK
<1> QED
  BY <1>1, <1>2 DEF TypeInv, TypeOK, GenerationsOK, WorkOK, Phases, ChildrenOK, BoundsOK

\* Every variable keeps its type, for any children, manifests, options and
\* numbers of writes and failures: in particular the copies the informer and
\* the deploy cache hold are of versions that were given out
\* (action_deploy.go:run).
THEOREM TypeCorrect == Spec => []TypeOK
<1>1. Init => TypeInv
  BY InitTypes
<1>2. TypeInv /\ [Next]_vars => TypeInv'
  BY TypeStep
<1>3. TypeInv => TypeOK
  BY TypeInvImpliesTypeOK
<1> QED
  BY <1>1, <1>2, <1>3, PTL DEF Spec

-----------------------------------------------------------------------------
(***************************************************************************)
(* OwnedIsCurrent.                                                         *)
(***************************************************************************)

\* The children that are owned once they are deployed.
Mine == Owned \ CreateOnly

OwnedBy(owner, c) == c.exists /\ owner \in c.owners

\* A copy with the current resource version is the current version.
ViewsLag ==
    \A n \in Names : view[n].rv = live[n].rv => view[n] = live[n]

\* Only managed children are owned by the instance, and by it alone; another
\* owner is in the informer's copy as well; and a child that was deployed and
\* is not owned has been released, as the informer's copy says too.
OwnersOf(n) ==
    /\ "us" \in live[n].owners => n \in Mine
    /\ OwnedBy("us", live[n]) => "other" \notin live[n].owners
    /\ OwnedBy("other", live[n]) => OwnedBy("other", view[n])
    /\ n \in Mine /\ live[n].exists /\ live[n].partOf /\ "us" \notin live[n].owners
          => live[n].managed = "false" /\ view[n].exists /\ view[n].managed = "false"

OwnersInv == \A n \in Names : OwnersOf(n)

\* The version of an owned child that the informer lacks will be noticed.
ChangesAreNoticed ==
    \A n \in Names :
        OwnedBy("us", live[n]) /\ view[n] # live[n] => Noticed(view[n], live[n])

\* A key of the deploy cache for the current version says what was applied.
KeysAreHonest ==
    \A k \in dcache :
        k[1] \notin CreateOnly /\ k[2] = live[k[1]].rv
            => live[k[1]].stamp = k[3] /\ ~live[k[1]].drift

\* The copy of the child n the worker holds, and the branch it has taken.
HeldInv(n) ==
    /\ cur.owners # {} => cur.exists
    /\ pc = "disown" => "other" \in cur.owners
    /\ pc = "release" => cur.managed = "false"
    /\ pc = "deploy" => cur.managed # "false"
    /\ pc # "disown" => ~OwnedBy("other", live[n])
    /\ pc = "release" /\ "us" \in cur.owners => cur.rv <= view[n].rv
    /\ pc = "deploy" /\ n \in Mine /\ live[n].exists /\ live[n].partOf
          => "us" \in live[n].owners
    /\ OwnedBy("us", live[n]) /\ view[n] = live[n] => queued \/ cur = live[n]

CursorInv == Holding => HeldInv(Min(todo))

\* A run for an older generation of the instance will be followed by another.
NewGenerationIsQueued == pc # "idle" /\ rgen # inst => queued

\* The child is owned and not as its manifest says.
NeedsWork(n) ==
    /\ OwnedBy("us", live[n]) /\ ~live[n].deleting
    /\ live[n].drift \/ live[n].stamp # inst \/ live[n].managed = "false"

\* The run under way will deploy the child, or fail.
Underway(n) == Deploying /\ (failed \/ n \in todo)

NoWorkIsForgotten ==
    \A n \in Desired[inst] : NeedsWork(n) => queued \/ view[n] # live[n] \/ Underway(n)

CurrentInv ==
    /\ TypeInv /\ ViewsLag /\ OwnersInv /\ ChangesAreNoticed /\ KeysAreHonest
    /\ CursorInv /\ NewGenerationIsQueued /\ NoWorkIsForgotten

\* Users do not take back the children they have released.
NoTakeBack == "manage" \notin Edits

-----------------------------------------------------------------------------
\* The ways a child is written.
Written(n) ==
    \/ UserEdit(n) /\ Edited(n)
    \/ UserDelete(n) /\ (Vanished(n) \/ Marked(n))
    \/ Vanish(n) /\ Vanished(n)
    \/ Collect /\ n = Min(todo) /\ (Vanished(n) \/ Marked(n))
    \/ \E owner \in {"us", "other"} :
          /\ Disown(owner) /\ n = Min(todo)
          /\ owner \in cur.owners /\ cur = live[n] /\ Stripped(n, owner)
    \/ Apply /\ n = Min(todo) /\ n \notin CreateOnly /\ Deployed(n)
    \/ Apply /\ n = Min(todo) /\ n \in CreateOnly /\ Created(n)

LEMMA StepKinds ==
    ASSUME TypeInv, [Next]_vars
    PROVE  \/ UNCHANGED <<live, view>>
           \/ UNCHANGED live /\ \E n \in Names : SyncChild(n)
           \/ UNCHANGED live /\ Crash
           \/ UNCHANGED view /\ \E n \in Names : Written(n)
<1> USE DEF TypeInv
<1>1. CASE UpdateInstance BY <1>1 DEF UpdateInstance
<1>2. ASSUME NEW n \in Names, UserEdit(n) PROVE UNCHANGED view /\ Written(n)
  BY <1>2, UserEditEffect, Zenon DEF UserEdit, Written
<1>3. ASSUME NEW n \in Names, UserDelete(n) PROVE UNCHANGED view /\ Written(n)
  <2>1. Vanished(n) \/ Marked(n)
    BY <1>3, RemoveEffect DEF UserDelete
  <2> QED BY <1>3, <2>1, Zenon DEF UserDelete, Written
<1>4. ASSUME NEW n \in Names, SyncChild(n) PROVE UNCHANGED live
  BY <1>4 DEF SyncChild
<1>5. ASSUME NEW n \in Names, Vanish(n) PROVE UNCHANGED view /\ Written(n)
  BY <1>5, VanishEffect, Zenon DEF Vanish, Written
<1>6. CASE SyncInstance BY <1>6 DEF SyncInstance
<1>7. CASE Render BY <1>7 DEF Render
<1>8. CASE Lookup BY <1>8 DEF Lookup
<1>9. ASSUME NEW owner \in {"us", "other"}, Disown(owner)
      PROVE  UNCHANGED view /\ (UNCHANGED live \/ \E n \in Names : Written(n))
  <2>1. /\ UNCHANGED view
        /\ \/ UNCHANGED live
           \/ \E n \in Names : /\ n = Min(todo)
                               /\ owner \in cur.owners /\ cur = live[n] /\ Stripped(n, owner)
    BY <1>9, DisownEffect, Zenon
  <2> QED BY <1>9, <2>1, Zenon DEF Written
<1>10. CASE SkipChild BY <1>10 DEF SkipChild
<1>11. CASE Apply
  <2>1. /\ UNCHANGED view
        /\ \/ UNCHANGED live
           \/ \E n \in Names : /\ n = Min(todo)
                               /\ \/ n \notin CreateOnly /\ Deployed(n)
                                  \/ n \in CreateOnly /\ Created(n)
    BY <1>11, ApplyEffect, Zenon
  <2> QED BY <1>11, <2>1, Zenon DEF Written
<1>12. CASE EndDeploy BY <1>12 DEF EndDeploy
<1>13. CASE StartCollect BY <1>13 DEF StartCollect
<1>14. CASE List BY <1>14 DEF List
<1>15. CASE Collect
  <2>1. /\ UNCHANGED view
        /\ \/ UNCHANGED live
           \/ \E n \in Names : n = Min(todo) /\ (Vanished(n) \/ Marked(n))
    BY <1>15, CollectEffect, Zenon
  <2> QED BY <1>15, <2>1, Zenon DEF Written
<1>16. CASE EndCollect BY <1>16 DEF EndCollect
<1>17. CASE Crash BY <1>17 DEF Crash
<1>18. CASE \E k \in dcache : Expire(k) BY <1>18 DEF Expire
<1>19. CASE UNCHANGED vars BY <1>19 DEF vars
<1> QED
  BY <1>1, <1>2, <1>3, <1>4, <1>5, <1>6, <1>7, <1>8, <1>9, <1>10, <1>11, <1>12,
     <1>13, <1>14, <1>15, <1>16, <1>17, <1>18, <1>19
     DEF Next, Users, Watch, Worker

LEMMA WrittenRewrites ==
    ASSUME NEW n \in Names, Written(n)
    PROVE  Rewrites(n)
BY Zenon DEF Written, Edited, Vanished, Marked, Stripped, Deployed, Created

LEMMA ViewsLagStep ==
    ASSUME TypeInv, ViewsLag, [Next]_vars
    PROVE  ViewsLag'
<1>1. /\ live' \in [Names -> Child]
      /\ \A m \in Names : live[m].rv <= live'[m].rv
      /\ \A m \in Names : live'[m].rv = live[m].rv => live'[m] = live[m]
  BY LiveStep
<1>2. \A m \in Names : /\ live[m].rv \in Nat /\ live'[m].rv \in Nat /\ view[m].rv \in Nat
                       /\ view[m].rv <= live[m].rv
  BY <1>1, ChildFields DEF TypeInv, ChildrenOK
<1>3. CASE UNCHANGED view
  BY <1>1, <1>2, <1>3 DEF ViewsLag
<1>4. ASSUME UNCHANGED live, NEW n \in Names, SyncChild(n)
      PROVE  ViewsLag'
  BY <1>4 DEF ViewsLag, SyncChild, TypeInv, ChildrenOK
<1>5. CASE UNCHANGED live /\ view' = live
  BY <1>5 DEF ViewsLag
<1> QED
  BY <1>3, <1>4, <1>5, ViewStep

\* A write leaves the informer's copy behind.
LEMMA WriteIsAhead ==
    ASSUME TypeInv, ViewsLag, NEW n \in Names, Rewrites(n), live'[n] # live[n]
    PROVE  view[n] # live'[n] /\ view[n].rv < live'[n].rv
<1>1. live'[n].rv = live[n].rv + 1 /\ live'[n] \in Child
  BY DEF Rewrites
<1>2. view[n].rv \in Nat /\ live[n].rv \in Nat /\ view[n].rv <= live[n].rv
  BY ChildFields DEF TypeInv, ChildrenOK
<1>3. view[n].rv < live'[n].rv
  BY <1>1, <1>2
<1> QED BY <1>1, <1>2, <1>3

\* So it is noticed, unless it is a change of the owners alone.
LEMMA WriteIsNoticed ==
    ASSUME TypeInv, ViewsLag, NEW n \in Names, Rewrites(n), live'[n] # live[n],
           \/ live'[n].owners = live[n].owners
           \/ live'[n].exists # live[n].exists
           \/ live'[n].partOf # live[n].partOf
    PROVE  Noticed(view[n], live'[n])
<1>1. /\ live'[n].rv = live[n].rv + 1 /\ live'[n] \in Child /\ ~Like(live'[n], live[n])
      /\ live[n] \in Child /\ view[n] \in Child
  BY DEF Rewrites, TypeInv, ChildrenOK
<1>2. view[n].rv \in Nat /\ live[n].rv \in Nat /\ view[n].rv <= live[n].rv
  BY ChildFields DEF TypeInv, ChildrenOK
<1>3. CASE view[n] # live[n]
  <2>1. view[n].rv # live[n].rv
    BY <1>3 DEF ViewsLag
  <2>2. live'[n].rv # view[n].rv + 1
    BY <1>1, <1>2, <2>1
  <2> QED BY <2>2, Zenon DEF Noticed
<1>4. CASE view[n] = live[n]
  <2> DEFINE c == live[n]
             d == live'[n]
             e == [c EXCEPT !.rv = d.rv, !.owners = d.owners]
  <2>1. /\ e.exists = c.exists /\ e.stamp = c.stamp /\ e.drift = c.drift
        /\ e.managed = c.managed /\ e.partOf = c.partOf /\ e.deleting = c.deleting
    BY <1>1 DEF Child
  <2> HIDE DEF e
  <2>2. ASSUME e = d
        PROVE  FALSE
    <3>1. c.exists = d.exists /\ c.partOf = d.partOf
      BY <2>1, <2>2, Zenon
    <3>2. d.owners = c.owners
      BY <3>1
    <3>3. Like(d, c)
      BY <2>1, <2>2, <3>2, Zenon DEF Like
    <3> QED BY <1>1, <3>3
  <2> QED BY <1>4, <2>2, Zenon DEF Noticed, e
<1> QED BY <1>3, <1>4

\* The facts about the copy the worker holds that a write needs.
LEMMA HeldFacts ==
    ASSUME TypeInv, CursorInv, Holding
    PROVE  Min(todo) \in Names /\ HeldInv(Min(todo))
<1>1. todo # {}
  BY DEF Holding, TypeInv, WorkOK
<1> QED BY <1>1, FirstChild DEF CursorInv, TypeInv

LEMMA OwnersStep ==
    ASSUME NoTakeBack, TypeInv, ViewsLag, OwnersInv, CursorInv, [Next]_vars
    PROVE  OwnersInv'
<1>0. live \in [Names -> Child] /\ view \in [Names -> Child]
  BY DEF TypeInv, ChildrenOK
<1>1. CASE UNCHANGED <<live, view>>
  BY <1>1, Zenon DEF OwnersInv, OwnersOf, OwnedBy
<1>2. ASSUME UNCHANGED live, NEW n \in Names, SyncChild(n)
      PROVE  OwnersInv'
  <2>1. view'[n] = live[n] /\ \A m \in Names \ {n} : view'[m] = view[m]
    BY <1>0, <1>2 DEF SyncChild
  <2>2. OwnersOf(n)'
    BY <1>2, <2>1, Zenon DEF OwnersInv, OwnersOf, OwnedBy
  <2>3. ASSUME NEW m \in Names \ {n}
        PROVE  OwnersOf(m)'
    BY <1>2, <2>1, Zenon DEF OwnersInv, OwnersOf, OwnedBy
  <2> QED BY <2>2, <2>3 DEF OwnersInv
<1>3. CASE UNCHANGED live /\ Crash
  <2>1. view' = live
    BY <1>3 DEF Crash
  <2> QED BY <1>3, <2>1, Zenon DEF OwnersInv, OwnersOf, OwnedBy
<1>4. ASSUME UNCHANGED view, NEW n \in Names, Written(n)
      PROVE  OwnersInv'
  <2>1. \A m \in Names \ {n} : live'[m] = live[m]
    BY <1>4, WrittenRewrites DEF Rewrites
  <2>2. ASSUME NEW m \in Names \ {n}
        PROVE  OwnersOf(m)'
    BY <1>4, <2>1, Zenon DEF OwnersInv, OwnersOf, OwnedBy
  <2> SUFFICES OwnersOf(n)'
    BY <2>2 DEF OwnersInv
  <2>o. OwnersOf(n)
    BY DEF OwnersInv
  <2>3. CASE Edited(n)
    BY <1>4, <2>3, <2>o, Zenon DEF NoTakeBack, Edited, OwnersOf, OwnedBy
  <2>4. CASE Vanished(n)
    BY <1>4, <2>4, <2>o, Zenon DEF Vanished, OwnersOf, OwnedBy
  <2>5. CASE Marked(n)
    BY <1>4, <2>5, <2>o, Zenon DEF Marked, OwnersOf, OwnedBy
  <2>6. ASSUME NEW owner \in {"us", "other"}, Disown(owner), n = Min(todo),
               owner \in cur.owners, cur = live[n], Stripped(n, owner)
        PROVE  OwnersOf(n)'
    <3>1. pc = (IF owner = "other" THEN "disown" ELSE "release")
      BY <2>6 DEF Disown
    <3>2. Holding
      BY <3>1 DEF Holding
    <3>3. HeldInv(n)
      BY <2>6, <3>2, HeldFacts
    <3>4. live[n].exists
      BY <2>6, <3>3 DEF HeldInv
    <3>5. CASE owner = "us"
      <4>1. pc = "release"
        BY <3>1, <3>5
      <4>2. cur.managed = "false" /\ cur.rv <= view[n].rv
        BY <2>6, <3>3, <3>5, <4>1 DEF HeldInv
      <4>3. view[n].rv \in Nat /\ live[n].rv \in Nat /\ view[n].rv <= live[n].rv
        BY ChildFields DEF TypeInv, ChildrenOK
      <4>4. view[n].rv = live[n].rv
        BY <2>6, <4>2, <4>3
      <4>5. view[n] = live[n]
        BY <4>4 DEF ViewsLag
      <4> QED BY <1>4, <2>6, <2>o, <3>4, <3>5, <4>2, <4>5 DEF Stripped, OwnersOf, OwnedBy
    <3>6. CASE owner = "other"
      BY <1>4, <2>6, <2>o, <3>6 DEF Stripped, OwnersOf, OwnedBy
    <3> QED BY <3>5, <3>6
  <2>7. CASE Apply /\ n = Min(todo) /\ n \notin CreateOnly /\ Deployed(n)
    <3>1. pc = "deploy" /\ Holding
      BY <2>7 DEF Apply, Holding
    <3>2. HeldInv(n)
      BY <2>7, <3>1, HeldFacts
    <3>3. ~OwnedBy("other", live[n])
      BY <3>1, <3>2 DEF HeldInv
    <3>4. "other" \notin Found(live[n]).owners
      BY <1>0, <3>3, FoundFields, NoChildFields DEF OwnedBy
    <3>5. "us" \in Found(live[n]).owners => n \in Mine
      BY <1>0, <2>o, FoundFields, NoChildFields DEF OwnersOf
    <3> QED BY <1>4, <2>7, <3>4, <3>5 DEF Deployed, OwnersOf, OwnedBy, Mine
  <2>8. CASE n \in CreateOnly /\ Created(n)
    BY <1>4, <2>8 DEF Created, OwnersOf, OwnedBy, Mine
  <2> QED
    BY <1>4, <2>3, <2>4, <2>5, <2>6, <2>7, <2>8, Zenon DEF Written
<1> QED BY <1>1, <1>2, <1>3, <1>4, StepKinds

LEMMA NoticedStep ==
    ASSUME TypeInv, ViewsLag, OwnersInv, ChangesAreNoticed, CursorInv, [Next]_vars
    PROVE  ChangesAreNoticed'
<1>0. live \in [Names -> Child] /\ view \in [Names -> Child]
  BY DEF TypeInv, ChildrenOK
<1> DEFINE N(m) == OwnedBy("us", live'[m]) /\ view'[m] # live'[m] => Noticed(view'[m], live'[m])
<1>1. CASE UNCHANGED <<live, view>>
  BY <1>1, Zenon DEF ChangesAreNoticed
<1>2. ASSUME UNCHANGED live, NEW n \in Names, SyncChild(n)
      PROVE  ChangesAreNoticed'
  <2>1. view'[n] = live[n] /\ \A m \in Names \ {n} : view'[m] = view[m]
    BY <1>0, <1>2 DEF SyncChild
  <2>2. N(n)
    BY <1>2, <2>1
  <2>3. ASSUME NEW m \in Names \ {n}
        PROVE  N(m)
    BY <1>2, <2>1, Zenon DEF ChangesAreNoticed
  <2> QED BY <2>2, <2>3, Zenon DEF ChangesAreNoticed
<1>3. CASE UNCHANGED live /\ Crash
  <2>1. view' = live
    BY <1>3 DEF Crash
  <2> QED BY <1>3, <2>1, Zenon DEF ChangesAreNoticed
<1>4. ASSUME UNCHANGED view, NEW n \in Names, Written(n)
      PROVE  ChangesAreNoticed'
  <2>0. Rewrites(n)
    BY <1>4, WrittenRewrites
  <2>1. \A m \in Names \ {n} : live'[m] = live[m]
    BY <2>0 DEF Rewrites
  <2>2. ASSUME NEW m \in Names \ {n}
        PROVE  N(m)
    BY <1>4, <2>1, Zenon DEF ChangesAreNoticed
  <2>o. OwnersOf(n)
    BY DEF OwnersInv
  <2>3. SUFFICES ASSUME OwnedBy("us", live'[n]), live'[n] # live[n]
                 PROVE  \/ live'[n].owners = live[n].owners
                        \/ live'[n].exists # live[n].exists
                        \/ live'[n].partOf # live[n].partOf
    <3>1. CASE live'[n] = live[n]
      <4>1. N(n)
        BY <1>4, <3>1, Zenon DEF ChangesAreNoticed
      <4> QED BY <2>2, <4>1, Zenon DEF ChangesAreNoticed
    <3>2. CASE ~OwnedBy("us", live'[n])
      <4>1. N(n)
        BY <3>2, Zenon
      <4> QED BY <2>2, <4>1, Zenon DEF ChangesAreNoticed
    <3>3. CASE Noticed(view[n], live'[n])
      <4>1. N(n)
        BY <1>4, <3>3, Zenon
      <4> QED BY <2>2, <4>1, Zenon DEF ChangesAreNoticed
    <3> QED BY <2>0, <3>1, <3>2, <3>3, WriteIsNoticed
  <2>4. CASE Edited(n) BY <2>4 DEF Edited
  <2>5. CASE Vanished(n) BY <2>5 DEF Vanished
  <2>6. CASE Marked(n) BY <2>6 DEF Marked
  <2>7. ASSUME NEW owner \in {"us", "other"}, owner \in cur.owners, cur = live[n],
               Stripped(n, owner)
        PROVE  FALSE
    BY <2>3, <2>7, <2>o DEF Stripped, OwnersOf, OwnedBy
  <2>8. CASE Apply /\ n = Min(todo) /\ n \notin CreateOnly /\ Deployed(n)
    <3>1. pc = "deploy" /\ Holding
      BY <2>8 DEF Apply, Holding
    <3>2. HeldInv(n)
      BY <2>8, <3>1, HeldFacts
    <3>3. CASE ~live[n].exists
      BY <2>8, <3>3, Zenon DEF Deployed
    <3>4. CASE live[n].exists /\ ~live[n].partOf
      BY <2>8, <3>4, Zenon DEF Deployed
    <3>5. CASE live[n].exists /\ live[n].partOf
      <4>1. Found(live[n]) = live[n]
        BY <1>0, <3>5, FoundFields
      <4>2. n \in Owned => "us" \in live[n].owners
        BY <2>8, <3>1, <3>2, <3>5 DEF HeldInv, Mine
      <4> QED BY <2>8, <4>1, <4>2 DEF Deployed
    <3> QED BY <3>3, <3>4, <3>5
  <2>9. CASE n \in CreateOnly /\ Created(n)
    BY <2>9 DEF Created
  <2> QED
    BY <1>4, <2>4, <2>5, <2>6, <2>7, <2>8, <2>9, Zenon DEF Written
<1> QED BY <1>1, <1>2, <1>3, <1>4, StepKinds

LEMMA KeysAreHonestStep ==
    ASSUME TypeInv, KeysAreHonest, [Next]_vars
    PROVE  KeysAreHonest'
<1> DEFINE H(k) == k[1] \notin CreateOnly /\ k[2] = live'[k[1]].rv
                     => live'[k[1]].stamp = k[3] /\ ~live'[k[1]].drift
<1>1. /\ live' \in [Names -> Child]
      /\ \A m \in Names : live[m].rv <= live'[m].rv
      /\ \A m \in Names : live'[m].rv = live[m].rv => live'[m] = live[m]
  BY LiveStep
<1>2. \A m \in Names : live[m].rv \in Nat /\ live'[m].rv \in Nat
  BY <1>1, ChildFields DEF TypeInv, ChildrenOK
<1>3. ASSUME NEW k \in dcache
      PROVE  H(k)
  <2>1. k \in Names \X Nat \X (1 .. MaxGen) /\ k[2] <= live[k[1]].rv
    BY DEF TypeInv, KeysOK
  <2>2. k[1] \in Names /\ k[2] \in Nat
    BY <2>1
  <2>3. k[2] = live'[k[1]].rv => live'[k[1]] = live[k[1]] /\ k[2] = live[k[1]].rv
    BY <1>1, <1>2, <2>1, <2>2
  <2> QED BY <2>3, Zenon DEF KeysAreHonest
<1>4. CASE dcache' \subseteq dcache
  BY <1>3, <1>4, Zenon DEF KeysAreHonest
<1>5. ASSUME NEW n, NEW v, dcache' = dcache \union {<<n, v, rgen>>},
             n \notin CreateOnly => Deployed(n)
      PROVE  KeysAreHonest'
  <2> DEFINE k == <<n, v, rgen>>
  <2>1. k[1] = n /\ k[3] = rgen
    OBVIOUS
  <2>2. n \notin CreateOnly => live'[n].stamp = rgen /\ ~live'[n].drift
    BY <1>5 DEF Deployed
  <2> HIDE DEF k
  <2>3. H(k)
    BY <2>1, <2>2
  <2>4. \A j \in dcache' : H(j)
    <3> HIDE DEF H
    <3> QED BY <1>3, <1>5, <2>3 DEF k
  <2> QED BY <2>4, Zenon DEF KeysAreHonest
<1> QED
  BY <1>4, <1>5, CacheStep

LEMMA HeldUnderWrites ==
    ASSUME TypeInv, ViewsLag, CursorInv, UNCHANGED <<pc, todo, cur, view, queued>>,
           NEW n \in Names, Edited(n) \/ Vanished(n) \/ Marked(n)
    PROVE  CursorInv'
<1> SUFFICES ASSUME Holding
             PROVE  HeldInv(Min(todo))'
  BY Zenon DEF CursorInv, Holding
<1>1. Min(todo) \in Names /\ HeldInv(Min(todo))
  BY HeldFacts
<1>2. Rewrites(n)
  BY DEF Edited, Vanished, Marked
<1> DEFINE m == Min(todo)
<1>3. m' = m
  OBVIOUS
<1> HIDE DEF m
<1>4. CASE m # n
  <2>1. live'[m] = live[m]
    BY <1>1, <1>2, <1>4 DEF Rewrites, m
  <2>2. HeldInv(m)'
    BY <1>1, <1>3, <2>1, Zenon DEF HeldInv, OwnedBy, m
  <2> QED BY <1>3, <2>2 DEF m
<1>5. CASE m = n
  <2>1. HeldInv(n)
    BY <1>1, <1>5 DEF m
  <2>2. live'[n] # live[n] => view[n] # live'[n]
    BY <1>2, WriteIsAhead
  <2>3. HeldInv(n)'
    <3>1. OwnedBy("us", live'[n]) /\ view[n] = live'[n] => queued \/ cur = live'[n]
      <4>1. CASE live'[n] = live[n]
        BY <2>1, <4>1, Zenon DEF HeldInv
      <4>2. CASE live'[n] # live[n]
        BY <2>2, <4>2, Zenon
      <4> QED BY <4>1, <4>2
    <3>2. CASE Edited(n)
      BY <2>1, <3>1, <3>2, Zenon DEF HeldInv, Edited, OwnedBy
    <3>3. CASE Vanished(n)
      BY <2>1, <3>1, <3>3, Zenon DEF HeldInv, Vanished, OwnedBy
    <3>4. CASE Marked(n)
      BY <2>1, <3>1, <3>4, Zenon DEF HeldInv, Marked, OwnedBy
    <3> QED BY <3>2, <3>3, <3>4
  <2> QED BY <1>3, <1>5, <2>3 DEF m
<1> QED BY <1>4, <1>5

LEMMA LookupHolds ==
    ASSUME TypeInv, OwnersInv, Lookup
    PROVE  CursorInv'
<1> DEFINE n == Min(todo)
           c == Found(view[n])
<1>1. n \in Names
  BY FirstChild DEF TypeInv, Lookup
<1>2. UNCHANGED <<live, view>>
  BY DEF Lookup
<1>3. view[n] \in Child /\ live[n] \in Child /\ c \in Child
  BY <1>1, FoundFields DEF TypeInv, ChildrenOK
<1>4. (view[n].exists => c = view[n]) /\ (~view[n].exists => c.owners = {} /\ c.managed = "")
  BY <1>3, FoundFields, NoChildFields
<1>o. OwnersOf(n)
  BY <1>1 DEF OwnersInv
<1>5. CASE /\ cur' = c
           /\ pc' = IF "other" \in c.owners THEN "disown"
                    ELSE IF c.managed = "false" THEN "release" ELSE "deploy"
           /\ UNCHANGED <<queued, rgen, generated, todo, failed>>
  <2>1. n' = n
    BY <1>5
  <2> HIDE DEF n, c
  <2>2. cur'.owners # {} => cur'.exists
    BY <1>4, <1>5
  <2>3. /\ pc' = "disown" => "other" \in cur'.owners
        /\ pc' = "release" => cur'.managed = "false"
        /\ pc' = "deploy" => cur'.managed # "false"
        /\ pc' # "disown" => "other" \notin c.owners
    BY <1>5
  <2>4. pc' # "disown" => ~OwnedBy("other", live'[n])
    BY <1>2, <1>4, <1>o, <2>3 DEF OwnersOf, OwnedBy
  <2>5. "us" \in cur'.owners => cur'.rv <= view'[n].rv
    <3>1. view[n].rv \in Nat
      BY <1>3, ChildFields
    <3>2. "us" \in c.owners => c = view[n]
      BY <1>4
    <3>3. "us" \in c.owners => c.rv <= view[n].rv
      BY <3>1, <3>2
    <3> QED BY <1>2, <1>5, <3>3
  <2>6. pc' = "deploy" /\ n \in Mine /\ live'[n].exists /\ live'[n].partOf
          => "us" \in live'[n].owners
    BY <1>2, <1>4, <1>5, <1>o, <2>3 DEF OwnersOf
  <2>7. OwnedBy("us", live'[n]) /\ view'[n] = live'[n] => cur' = live'[n]
    BY <1>2, <1>4, <1>5, Zenon DEF OwnedBy
  <2>8. HeldInv(n)'
    BY <2>1, <2>2, <2>3, <2>4, <2>5, <2>6, <2>7, Zenon DEF HeldInv, OwnedBy
  <2>9. HeldInv(Min(todo))'
    BY <2>8 DEF n
  <2> QED BY <2>9, Zenon DEF CursorInv
<1>6. CASE ChildError
  BY <1>6 DEF ChildError, NextChild, Return, Idle, CursorInv, Holding
<1> QED BY <1>5, <1>6, Zenon DEF Lookup

LEMMA DisownHolds ==
    ASSUME TypeInv, OwnersInv, CursorInv, NEW owner \in {"us", "other"}, Disown(owner)
    PROVE  CursorInv'
<1> DEFINE n == Min(todo)
<1>1. CASE /\ n \in Names
           /\ pc = "disown"
           /\ owner = "other" /\ owner \in cur.owners /\ cur = live[n]
           /\ Stripped(n, owner)
           /\ cur' = live'[n]
           /\ pc' = IF cur.managed = "false" THEN "release" ELSE "deploy"
           /\ UNCHANGED <<queued, rgen, generated, todo, failed>>
  <2>1. n' = n
    BY <1>1
  <2>2. HeldInv(n)
    BY <1>1, HeldFacts DEF Holding
  <2> HIDE DEF n
  <2>o. OwnersOf(n)
    BY <1>1 DEF OwnersInv
  <2>3. live[n].exists /\ "other" \in live[n].owners /\ "us" \notin live[n].owners
    BY <1>1, <2>2, <2>o DEF HeldInv, OwnersOf, OwnedBy
  <2>4. /\ live'[n].exists /\ "us" \notin live'[n].owners /\ "other" \notin live'[n].owners
        /\ live'[n].managed = live[n].managed /\ live'[n].partOf = live[n].partOf
    BY <1>1, <2>3 DEF Stripped
  <2>5. n \in Mine /\ live[n].partOf => live[n].managed = "false"
    BY <2>3, <2>o DEF OwnersOf
  <2>6. HeldInv(n)'
    <3>1. pc' # "disown" /\ (pc' = "release" => cur.managed = "false")
            /\ (pc' = "deploy" => cur.managed # "false")
      BY <1>1
    <3> QED BY <1>1, <2>1, <2>4, <2>5, <3>1, Zenon DEF HeldInv, OwnedBy
  <2>7. HeldInv(Min(todo))'
    BY <2>6 DEF n
  <2> QED BY <2>7, Zenon DEF CursorInv
<1>2. CASE NextChild(FALSE) \/ Return(TRUE)
  BY <1>2 DEF NextChild, Return, Idle, CursorInv, Holding
<1> QED BY <1>1, <1>2, DisownEffect, Zenon

LEMMA SyncQueues ==
    ASSUME TypeInv, OwnersInv, ChangesAreNoticed, NEW n \in Names, SyncChild(n)
    PROVE  /\ queued => queued'
           /\ OwnedBy("us", live[n]) => queued'
<1>1. queued => queued'
  BY Zenon DEF SyncChild
<1>2. ASSUME OwnedBy("us", live[n])
      PROVE  queued'
  <2>1. view[n] # live[n]
    BY DEF SyncChild
  <2>2. Noticed(view[n], live[n])
    BY <1>2, <2>1 DEF ChangesAreNoticed
  <2>3. n \in Owned /\ "us" \in view[n].owners \union live[n].owners
    BY <1>2 DEF OwnersInv, OwnersOf, OwnedBy, Mine
  <2> QED BY <2>2, <2>3, Zenon DEF SyncChild
<1> QED BY <1>1, <1>2

LEMMA CursorStep ==
    ASSUME TypeInv, ViewsLag, OwnersInv, ChangesAreNoticed, CursorInv, [Next]_vars
    PROVE  CursorInv'
<1> USE DEF CursorInv
<1>1. CASE UpdateInstance
  BY <1>1, Zenon DEF UpdateInstance, worker, Holding, HeldInv, OwnedBy
<1>2. ASSUME NEW n \in Names, UserEdit(n) PROVE CursorInv'
  BY <1>2, UserEditEffect, HeldUnderWrites DEF UserEdit, worker, TypeInv
<1>3. ASSUME NEW n \in Names, UserDelete(n) PROVE CursorInv'
  BY <1>3, RemoveEffect, HeldUnderWrites DEF UserDelete, worker, TypeInv
<1>4. ASSUME NEW n \in Names, SyncChild(n) PROVE CursorInv'
  <2>1. UNCHANGED <<pc, todo, cur, live>>
    BY <1>4 DEF SyncChild, worker
  <2> SUFFICES ASSUME Holding
               PROVE  HeldInv(Min(todo))'
    BY <2>1, Zenon DEF Holding
  <2> DEFINE m == Min(todo)
  <2>2. m' = m /\ m \in Names /\ HeldInv(m)
    BY <2>1, HeldFacts
  <2> HIDE DEF m
  <2>3. view'[n] = live[n] /\ \A i \in Names \ {n} : view'[i] = view[i]
    BY <1>4 DEF SyncChild, TypeInv, ChildrenOK
  <2>4. (queued => queued') /\ (OwnedBy("us", live[n]) => queued')
    BY <1>4, SyncQueues
  <2>5. CASE m # n
    <3>1. view'[m] = view[m]
      BY <2>2, <2>3, <2>5
    <3>2. HeldInv(m)'
      BY <2>1, <2>2, <2>4, <3>1, Zenon DEF HeldInv, OwnedBy
    <3> QED BY <2>2, <3>2 DEF m
  <2>6. CASE m = n
    <3>1. cur.rv \in Nat /\ view[n].rv \in Nat /\ live[n].rv \in Nat /\ view[n].rv <= live[n].rv
      BY ChildFields DEF TypeInv, ChildrenOK
    <3>2. cur.rv <= view[n].rv => cur.rv <= view'[n].rv
      BY <2>3, <3>1
    <3>3. HeldInv(n)'
      BY <2>1, <2>2, <2>4, <2>6, <3>2, Zenon DEF HeldInv, OwnedBy
    <3> QED BY <2>2, <2>6, <3>3 DEF m
  <2> QED BY <2>5, <2>6
<1>5. ASSUME NEW n \in Names, Vanish(n) PROVE CursorInv'
  BY <1>5, VanishEffect, HeldUnderWrites DEF Vanish, worker, TypeInv
<1>6. CASE SyncInstance
  BY <1>6, Zenon DEF SyncInstance, worker, Holding, HeldInv, OwnedBy
<1>7. CASE Render
  <2>1. pc' = "lookup" \/ (pc = "idle" /\ UNCHANGED pc)
    BY <1>7, Zenon DEF Render, worker
  <2> QED BY <2>1 DEF Holding
<1>8. CASE Lookup BY <1>8, LookupHolds
<1>9. ASSUME NEW owner \in {"us", "other"}, Disown(owner) PROVE CursorInv'
  BY <1>9, DisownHolds
<1>10. CASE SkipChild \/ Apply
  <2>1. pc' \in {"lookup", "idle"}
    BY <1>10, Zenon DEF SkipChild, Apply, ChildError, NextChild, Return, Idle
  <2> QED BY <2>1 DEF Holding
<1>11. CASE EndDeploy \/ StartCollect \/ List \/ Collect \/ EndCollect
  <2>1. pc' \in {"gc", "list", "collect", "idle"}
    <3>1. CASE EndDeploy BY <3>1, Zenon DEF EndDeploy, Return, Idle
    <3>2. CASE StartCollect BY <3>2, Zenon DEF StartCollect, Return, Idle
    <3>3. CASE List BY <3>3, Zenon DEF List, Return, Idle
    <3>4. CASE Collect BY <3>4, Zenon DEF Collect, Return, Idle
    <3>5. CASE EndCollect BY <3>5, Zenon DEF EndCollect, Return, Idle
    <3> QED BY <1>11, <3>1, <3>2, <3>3, <3>4, <3>5
  <2> QED BY <2>1 DEF Holding
<1>12. CASE Crash BY <1>12 DEF Crash, Idle, Holding
<1>13. CASE \E k \in dcache : Expire(k)
  <2>1. UNCHANGED <<pc, todo, cur, live, view, queued>>
    BY <1>13 DEF Expire, worker
  <2> QED BY <2>1, Zenon DEF Holding, HeldInv, OwnedBy
<1>14. CASE UNCHANGED vars BY <1>14, Zenon DEF vars, Holding, HeldInv, OwnedBy
<1> QED
  BY <1>1, <1>2, <1>3, <1>4, <1>5, <1>6, <1>7, <1>8, <1>9, <1>10, <1>11, <1>12, <1>13, <1>14
     DEF Next, Users, Watch, Worker

LEMMA NewGenerationStep ==
    ASSUME TypeInv, NewGenerationIsQueued, [Next]_vars
    PROVE  NewGenerationIsQueued'
<1> USE DEF NewGenerationIsQueued
<1>1. CASE UpdateInstance BY <1>1, Zenon DEF UpdateInstance, worker
<1>2. ASSUME NEW n \in Names, UserEdit(n) \/ UserDelete(n) \/ SyncChild(n) \/ Vanish(n)
      PROVE  NewGenerationIsQueued'
  BY <1>2, Zenon DEF UserEdit, UserDelete, SyncChild, Vanish, worker
<1>3. CASE SyncInstance BY <1>3, Zenon DEF SyncInstance
<1>4. CASE Render BY <1>4, Zenon DEF Render, worker
<1>5. CASE Lookup
  BY <1>5, Zenon DEF Lookup, ChildError, NextChild, Return, Idle
<1>6. ASSUME NEW owner \in {"us", "other"}, Disown(owner) PROVE NewGenerationIsQueued'
  <2>0. pc # "idle"
    BY <1>6 DEF Disown
  <2>1. /\ UNCHANGED inst
        /\ \/ pc' = "idle"
           \/ UNCHANGED <<queued, rgen>>
    BY <1>6, Zenon DEF Disown, NextChild, Return, Idle
  <2> QED BY <2>0, <2>1, Zenon
<1>7. CASE SkipChild \/ Apply
  <2>0. pc # "idle"
    BY <1>7 DEF SkipChild, Apply
  <2>1. /\ UNCHANGED inst
        /\ \/ pc' = "idle"
           \/ UNCHANGED <<queued, rgen>>
    BY <1>7, Zenon DEF SkipChild, Apply, ChildError, NextChild, Return, Idle
  <2> QED BY <2>0, <2>1, Zenon
<1>8. CASE EndDeploy \/ StartCollect \/ List \/ Collect \/ EndCollect
  <2>0. pc # "idle"
    BY <1>8 DEF EndDeploy, StartCollect, List, Collect, EndCollect
  <2>1. /\ UNCHANGED inst
        /\ \/ pc' = "idle"
           \/ UNCHANGED <<queued, rgen>>
    BY <1>8, Zenon DEF EndDeploy, StartCollect, List, Collect, EndCollect, Return, Idle
  <2> QED BY <2>0, <2>1, Zenon
<1>9. CASE Crash BY <1>9, Zenon DEF Crash, Idle
<1>10. CASE \E k \in dcache : Expire(k)
  <2>1. UNCHANGED <<pc, rgen, inst, queued>>
    BY <1>10 DEF Expire, worker
  <2> QED BY <2>1, Zenon
<1>11. CASE UNCHANGED vars BY <1>11, Zenon DEF vars
<1> QED
  BY <1>1, <1>2, <1>3, <1>4, <1>5, <1>6, <1>7, <1>8, <1>9, <1>10, <1>11
     DEF Next, Users, Watch, Worker

\* Work on a child is not forgotten by a step that leaves the child alone.
Pending(n) == NeedsWork(n) => queued \/ view[n] # live[n] \/ Underway(n)

LEMMA PendingFrame ==
    ASSUME NEW n, Pending(n), UNCHANGED inst, live'[n] = live[n], view'[n] = view[n],
           queued => queued', Underway(n) => queued' \/ Underway(n)'
    PROVE  Pending(n)'
BY Zenon DEF Pending, NeedsWork, OwnedBy

\* Nor is it by a write of the child.
LEMMA PendingWrite ==
    ASSUME TypeInv, ViewsLag, NEW m \in Names, NEW n \in Names, Rewrites(m), UNCHANGED <<view, inst>>,
           Pending(n), queued => queued', Underway(n) => queued' \/ Underway(n)'
    PROVE  Pending(n)'
<1>1. CASE live'[n] = live[n]
  BY <1>1, PendingFrame
<1>2. CASE live'[n] # live[n]
  <2>1. n = m
    BY <1>2 DEF Rewrites
  <2>2. view[n] # live'[n]
    BY <1>2, <2>1, WriteIsAhead
  <2> QED BY <2>2, Zenon DEF Pending
<1> QED BY <1>1, <1>2

\* The worker is done with its first child m: the work on the others is
\* pending as before.
LEMMA PendingNext ==
    ASSUME TypeInv, NEW err \in BOOLEAN, NextChild(err), pc \in {"lookup", "disown", "release", "deploy"},
           NEW n, n # Min(todo), Pending(n), UNCHANGED inst,
           live'[n] = live[n], view'[n] = view[n]
    PROVE  Pending(n)'
<1>1. Underway(n) => Underway(n)'
  <2>1. pc' = "lookup" /\ todo' = todo \ {Min(todo)} /\ (failed => failed')
    BY Zenon DEF NextChild
  <2> QED BY <2>1, Zenon DEF Underway, Deploying
<1>2. queued => queued'
  BY Zenon DEF NextChild
<1> QED BY <1>1, <1>2, PendingFrame

\* If work on the child the worker holds is not pending otherwise, the
\* worker's copy is current.
LEMMA HeldIsCurrent ==
    ASSUME TypeInv, OwnersInv, CursorInv, NewGenerationIsQueued, Holding,
           NEW n, n = Min(todo), OwnedBy("us", live[n]), ~queued, view[n] = live[n]
    PROVE  cur = live[n] /\ rgen = inst /\ n \in Names /\ HeldInv(n) /\ n \notin CreateOnly
<1>1. n \in Names /\ HeldInv(n)
  BY HeldFacts
<1>2. cur = live[n]
  BY <1>1, Zenon DEF HeldInv
<1>3. pc # "idle"
  BY DEF Holding
<1>4. rgen = inst
  BY <1>3, Zenon DEF NewGenerationIsQueued
<1>5. n \notin CreateOnly
  BY <1>1 DEF OwnersInv, OwnersOf, OwnedBy, Mine
<1> QED BY <1>1, <1>2, <1>4, <1>5

LEMMA FailureIsPending ==
    ASSUME ChildError, NEW n
    PROVE  Pending(n)'
<1>1. CASE NextChild(TRUE)
  BY <1>1, Zenon DEF NextChild, Pending, Underway, Deploying
<1>2. CASE Return(TRUE)
  BY <1>2, Zenon DEF Return, Pending
<1> QED BY <1>1, <1>2 DEF ChildError

LEMMA DisownPending ==
    ASSUME TypeInv, ViewsLag, OwnersInv, CursorInv, NewGenerationIsQueued,
           NEW owner \in {"us", "other"}, Disown(owner), NEW n \in Names, Pending(n)
    PROVE  Pending(n)'
<1> DEFINE m == Min(todo)
<1>1. /\ m \in todo /\ m \in Names /\ pc = (IF owner = "other" THEN "disown" ELSE "release")
      /\ UNCHANGED <<inst, view>>
  BY DisownEffect, Zenon
<1>2. Holding /\ Deploying
  BY <1>1 DEF Holding, Deploying
<1>3. HeldInv(m)
  BY <1>2, HeldFacts
<1>4. CASE /\ owner = "other" /\ Stripped(m, owner)
           /\ pc' = IF cur.managed = "false" THEN "release" ELSE "deploy"
           /\ UNCHANGED <<queued, rgen, generated, todo, failed>>
  <2>1. Underway(n) => Underway(n)'
    <3>1. pc' \in {"release", "deploy"}
      BY <1>4
    <3> QED BY <1>4, <3>1 DEF Underway, Deploying
  <2>2. Rewrites(m)
    BY <1>4 DEF Stripped
  <2>3. queued => queued'
    BY <1>4, Zenon
  <2> QED BY <1>1, <2>1, <2>2, <2>3, PendingWrite
<1>5. CASE owner = "us" /\ Stripped(m, owner) /\ NextChild(FALSE)
  <2>1. CASE n = m
    <3>1. "us" \notin live'[n].owners
      BY <1>5, <2>1 DEF Stripped
    <3> QED BY <3>1, Zenon DEF Pending, NeedsWork, OwnedBy
  <2>2. CASE n # m
    <3>1. live'[n] = live[n]
      BY <1>5, <2>2 DEF Stripped, Rewrites
    <3> QED BY <1>1, <1>2, <1>5, <2>2, <3>1, PendingNext DEF Deploying
  <2> QED BY <2>1, <2>2
<1>6. CASE Return(TRUE)
  BY <1>6, Zenon DEF Return, Pending
<1>7. CASE owner \notin cur.owners /\ NextChild(FALSE) /\ UNCHANGED live
  <2>1. owner = "us"
    BY <1>1, <1>3, <1>7 DEF HeldInv
  <2>2. CASE n = m
    <3> SUFFICES ASSUME NeedsWork(n), ~queued, view[n] = live[n]
                 PROVE  FALSE
      BY <1>1, <1>7, Zenon DEF Pending, NeedsWork, OwnedBy, NextChild
    <3>1. OwnedBy("us", live[n])
      BY DEF NeedsWork
    <3>2. cur = live[n]
      BY <1>2, <2>2, <3>1, HeldIsCurrent
    <3> QED BY <1>7, <2>1, <3>1, <3>2 DEF OwnedBy
  <2>3. CASE n # m
    BY <1>1, <1>2, <1>7, <2>3, PendingNext DEF Deploying
  <2> QED BY <2>2, <2>3
<1> QED BY <1>4, <1>5, <1>6, <1>7, DisownEffect, Zenon

LEMMA SkipPending ==
    ASSUME TypeInv, OwnersInv, KeysAreHonest, CursorInv, NewGenerationIsQueued,
           SkipChild, NEW n \in Names, Pending(n)
    PROVE  Pending(n)'
<1> DEFINE m == Min(todo)
<1>1. pc = "deploy" /\ Skip /\ NextChild(FALSE) /\ UNCHANGED <<live, view, inst>>
  BY DEF SkipChild
<1>2. Holding
  BY <1>1 DEF Holding
<1>3. CASE n = m
  <2> SUFFICES ASSUME NeedsWork(n), ~queued, view[n] = live[n]
               PROVE  FALSE
    BY <1>1, Zenon DEF Pending, NeedsWork, OwnedBy, NextChild
  <2>1. OwnedBy("us", live[n]) /\ ~live[n].deleting
    BY DEF NeedsWork
  <2>2. cur = live[n] /\ rgen = inst /\ HeldInv(n) /\ n \notin CreateOnly
    BY <1>2, <1>3, <2>1, HeldIsCurrent
  <2>3. <<n, live[n].rv, rgen>> \in dcache
    BY <1>1, <1>3, <2>1, <2>2, Zenon DEF Skip, Key
  <2> DEFINE k == <<n, live[n].rv, rgen>>
  <2>4. k[1] = n /\ k[2] = live[n].rv /\ k[3] = rgen
    OBVIOUS
  <2>5. k \in dcache
    BY <2>3
  <2> HIDE DEF k
  <2>6. live[n].stamp = rgen /\ ~live[n].drift
    BY <2>2, <2>4, <2>5 DEF KeysAreHonest
  <2>7. cur.managed # "false"
    BY <1>1, <2>2 DEF HeldInv
  <2> QED BY <2>2, <2>6, <2>7 DEF NeedsWork
<1>4. CASE n # m
  BY <1>1, <1>4, PendingNext
<1> QED BY <1>3, <1>4

LEMMA ApplyPending ==
    ASSUME TypeInv, ViewsLag, OwnersInv, CursorInv, NewGenerationIsQueued,
           Apply, NEW n \in Names, Pending(n)
    PROVE  Pending(n)'
<1> DEFINE m == Min(todo)
<1>1. m \in Names /\ pc = "deploy" /\ UNCHANGED <<inst, view>>
  BY ApplyEffect, Zenon
<1>2. Holding
  BY <1>1 DEF Holding
<1>3. HeldInv(m)
  BY <1>2, HeldFacts
<1>4. CASE ChildError
  BY <1>4, FailureIsPending
<1>5. CASE n # m /\ NextChild(FALSE) /\ (UNCHANGED live \/ Rewrites(m))
  <2>1. live'[n] = live[n]
    BY <1>5 DEF Rewrites
  <2> QED BY <1>1, <1>5, <2>1, PendingNext
<1>6. CASE n = m /\ m \in CreateOnly /\ (UNCHANGED live \/ Created(m))
  <2>1. "us" \notin live'[n].owners
    BY <1>6 DEF Created, OwnersInv, OwnersOf, Mine
  <2> QED BY <2>1, Zenon DEF Pending, NeedsWork, OwnedBy
<1>7. CASE n = m /\ m \notin CreateOnly /\ Deployed(m) /\ NextChild(FALSE)
  <2>1. CASE live'[n] # live[n]
    <3>1. view[n] # live'[n]
      BY <1>7, <2>1, WriteIsAhead DEF Deployed
    <3> QED BY <1>1, <3>1, Zenon DEF Pending
  <2>2. CASE live'[n] = live[n]
    <3> SUFFICES ASSUME NeedsWork(n), ~queued, view[n] = live[n]
                 PROVE  FALSE
      BY <1>1, <1>7, <2>2, Zenon DEF Pending, NeedsWork, OwnedBy, NextChild
    <3>1. OwnedBy("us", live[n])
      BY DEF NeedsWork
    <3>2. cur = live[n] /\ rgen = inst
      BY <1>2, <1>7, <3>1, HeldIsCurrent
    <3>3. live[n].stamp = rgen /\ ~live[n].drift
      BY <1>7, <2>2 DEF Deployed
    <3>4. cur.managed # "false"
      BY <1>1, <1>3 DEF HeldInv
    <3> QED BY <3>2, <3>3, <3>4 DEF NeedsWork
  <2> QED BY <2>1, <2>2
<1>8. \/ ChildError
      \/ NextChild(FALSE) /\ m \notin CreateOnly /\ Deployed(m)
      \/ NextChild(FALSE) /\ m \in CreateOnly /\ (UNCHANGED live \/ Created(m))
  BY ApplyEffect, Zenon
<1> QED BY <1>4, <1>5, <1>6, <1>7, <1>8, Zenon DEF Deployed, Created

LEMMA NoWorkStep ==
    ASSUME TypeInv, ViewsLag, OwnersInv, ChangesAreNoticed, KeysAreHonest, CursorInv,
           NewGenerationIsQueued, NoWorkIsForgotten, [Next]_vars
    PROVE  NoWorkIsForgotten'
<1>q. CASE queued'
  BY <1>q, Zenon DEF NoWorkIsForgotten
<1>p. ASSUME UNCHANGED inst, \A n \in Names : Pending(n) => Pending(n)'
      PROVE  NoWorkIsForgotten'
  <2>1. Desired[inst] \subseteq Names
    <3>1. inst \in 1 .. MaxGen
      BY PipelineAssumption DEF TypeInv, GenerationsOK
    <3> QED BY <3>1, PipelineAssumption
  <2> QED BY <1>p, <2>1, Zenon DEF NoWorkIsForgotten, Pending
<1>f. ASSUME UNCHANGED <<inst, live, view>>, queued => queued',
             \A n \in Names : Underway(n) => queued' \/ Underway(n)'
      PROVE  NoWorkIsForgotten'
  BY <1>f, <1>p, PendingFrame
<1>w. ASSUME NEW m \in Names, Rewrites(m), UNCHANGED <<inst, view>>, queued => queued',
             \A n \in Names : Underway(n) => queued' \/ Underway(n)'
      PROVE  NoWorkIsForgotten'
  BY <1>w, <1>p, PendingWrite
<1>1. CASE UpdateInstance
  BY <1>1, <1>f DEF UpdateInstance, worker, Underway, Deploying
<1>2. ASSUME NEW n \in Names, UserEdit(n) \/ UserDelete(n) \/ Vanish(n)
      PROVE  NoWorkIsForgotten'
  <2>1. UNCHANGED <<inst, view, queued, pc, todo, failed>>
    BY <1>2 DEF UserEdit, UserDelete, Vanish, worker
  <2>2. Rewrites(n)
    <3>1. CASE UserEdit(n) BY <3>1, UserEditEffect DEF Edited, TypeInv
    <3>2. CASE UserDelete(n)
      BY <3>2, RemoveEffect DEF UserDelete, Vanished, Marked, TypeInv
    <3>3. CASE Vanish(n) BY <3>3, VanishEffect DEF Vanished, TypeInv
    <3> QED BY <1>2, <3>1, <3>2, <3>3
  <2>3. (queued => queued') /\ \A m \in Names : Underway(m) => Underway(m)'
    BY <2>1, Zenon DEF Underway, Deploying
  <2> QED BY <1>w, <2>1, <2>2, <2>3
<1>3. ASSUME NEW m \in Names, SyncChild(m) PROVE NoWorkIsForgotten'
  <2>1. UNCHANGED <<inst, live, pc, todo, failed>>
    BY <1>3 DEF SyncChild, worker
  <2>2. (queued => queued') /\ (OwnedBy("us", live[m]) => queued')
    BY <1>3, SyncQueues
  <2>3. \A n \in Names \ {m} : view'[n] = view[n]
    BY <1>3 DEF SyncChild, TypeInv, ChildrenOK
  <2>4. ASSUME NEW n \in Names, Pending(n)
        PROVE  Pending(n)'
    <3>1. CASE n = m
      BY <2>1, <2>2, <3>1, Zenon DEF Pending, NeedsWork, OwnedBy
    <3>2. CASE n # m
      <4>1. view'[n] = view[n]
        BY <2>3, <3>2
      <4>2. Underway(n) => Underway(n)'
        BY <2>1, Zenon DEF Underway, Deploying
      <4> QED BY <2>1, <2>2, <2>4, <4>1, <4>2, PendingFrame
    <3> QED BY <3>1, <3>2
  <2> QED BY <1>p, <2>1, <2>4
<1>4. CASE SyncInstance \/ Crash
  BY <1>4, <1>q, Zenon DEF SyncInstance, Crash
<1>5. CASE Render
  <2>1. CASE inst' = inst /\ todo' = Desired[inst] /\ pc' = "lookup"
    BY <2>1 DEF NoWorkIsForgotten, Underway, Deploying
  <2>2. CASE UNCHANGED <<queued, worker, rkey>>
    BY <1>5, <1>q, <2>2, Zenon DEF Render
  <2> QED BY <1>5, <2>1, <2>2, Zenon DEF Render
<1>6. CASE Lookup
  <2>0. UNCHANGED <<inst, live, view>> /\ Deploying
    BY <1>6 DEF Lookup, Deploying
  <2>1. CASE ChildError
    BY <2>0, <2>1, <1>p, FailureIsPending
  <2>2. CASE pc' \in {"disown", "release", "deploy"} /\ UNCHANGED <<queued, todo, failed>>
    <3>1. (queued => queued') /\ \A n \in Names : Underway(n) => Underway(n)'
      BY <2>0, <2>2 DEF Underway, Deploying
    <3> QED BY <1>f, <2>0, <3>1
  <2> QED BY <1>6, <2>1, <2>2, Zenon DEF Lookup
<1>7. ASSUME NEW owner \in {"us", "other"}, Disown(owner) PROVE NoWorkIsForgotten'
  <2>1. UNCHANGED inst
    BY <1>7 DEF Disown
  <2> QED BY <1>7, <1>p, <2>1, DisownPending
<1>8. CASE SkipChild
  <2>1. UNCHANGED inst
    BY <1>8 DEF SkipChild
  <2> QED BY <1>8, <1>p, <2>1, SkipPending
<1>9. CASE Apply
  <2>1. UNCHANGED inst
    BY <1>9 DEF Apply
  <2> QED BY <1>9, <1>p, <2>1, ApplyPending
<1>10. CASE EndDeploy
  <2>1. UNCHANGED <<inst, live, view>> /\ todo = {}
    BY <1>10 DEF EndDeploy
  <2>2. CASE failed
    BY <1>10, <1>q, <2>2, Zenon DEF EndDeploy, Return
  <2>3. CASE ~failed
    <3>1. queued => queued'
      BY <1>10, <2>3, Zenon DEF EndDeploy
    <3>2. \A n \in Names : ~Underway(n)
      BY <2>1, <2>3 DEF Underway
    <3> QED BY <1>f, <2>1, <3>1, <3>2
  <2> QED BY <2>2, <2>3
<1>11. CASE StartCollect \/ List \/ EndCollect
  <2>1. UNCHANGED <<inst, live, view>> /\ ~Deploying
    <3>1. CASE StartCollect BY <3>1 DEF StartCollect, Deploying
    <3>2. CASE List BY <3>2 DEF List, Deploying
    <3>3. CASE EndCollect BY <3>3 DEF EndCollect, Deploying
    <3> QED BY <1>11, <3>1, <3>2, <3>3
  <2>2. queued => queued'
    BY <1>11, Zenon DEF StartCollect, List, EndCollect, Return
  <2> QED BY <1>f, <2>1, <2>2 DEF Underway
<1>12. CASE Collect
  <2>1. UNCHANGED <<inst, view>> /\ ~Deploying
    BY <1>12 DEF Collect, Deploying
  <2>2. queued => queued'
    BY <1>12, Zenon DEF Collect, Return
  <2>3. UNCHANGED live \/ \E m \in Names : Rewrites(m)
    BY <1>12, CollectEffect, Zenon DEF Vanished, Marked
  <2>4. \A n \in Names : ~Underway(n)
    BY <2>1 DEF Underway
  <2>5. CASE UNCHANGED live
    BY <1>f, <2>1, <2>2, <2>4, <2>5
  <2> QED BY <1>w, <2>1, <2>2, <2>3, <2>4, <2>5
<1>13. CASE \E k \in dcache : Expire(k)
  <2>1. UNCHANGED <<inst, live, view, queued, pc, todo, failed>>
    BY <1>13 DEF Expire, worker
  <2>2. (queued => queued') /\ \A n \in Names : Underway(n) => Underway(n)'
    BY <2>1, Zenon DEF Underway, Deploying
  <2> QED BY <1>f, <2>1, <2>2
<1>14. CASE UNCHANGED vars
  <2>1. UNCHANGED <<inst, live, view, queued, pc, todo, failed>>
    BY <1>14 DEF vars
  <2>2. (queued => queued') /\ \A n \in Names : Underway(n) => Underway(n)'
    BY <2>1, Zenon DEF Underway, Deploying
  <2> QED BY <1>f, <2>1, <2>2
<1> QED
  BY <1>1, <1>2, <1>3, <1>4, <1>5, <1>6, <1>7, <1>8, <1>9, <1>10, <1>11, <1>12, <1>13, <1>14
     DEF Next, Users, Watch, Worker

LEMMA CurrentStep ==
    ASSUME NoTakeBack, CurrentInv, [Next]_vars
    PROVE  CurrentInv'
<1> USE DEF CurrentInv
<1>1. TypeInv' /\ ViewsLag'
  BY TypeStep, ViewsLagStep
<1>2. OwnersInv' /\ ChangesAreNoticed'
  BY OwnersStep, NoticedStep
<1>3. KeysAreHonest' /\ CursorInv'
  BY KeysAreHonestStep, CursorStep
<1>4. NewGenerationIsQueued' /\ NoWorkIsForgotten'
  BY NewGenerationStep, NoWorkStep
<1> QED BY <1>1, <1>2, <1>3, <1>4

LEMMA CurrentInit ==
    ASSUME Init
    PROVE  CurrentInv
<1>1. TypeInv
  BY InitTypes
<1>2. view = live /\ queued /\ pc = "idle" /\ dcache = {}
  BY DEF Init
<1>3. ASSUME NEW n \in Names
      PROVE  live[n] = AdoptedChild \/ live[n] = NoChild
  BY DEF Init, AdoptedChild
<1>4. ViewsLag /\ ChangesAreNoticed
  BY <1>2, Zenon DEF ViewsLag, ChangesAreNoticed
<1>5. OwnersInv
  <2>1. ASSUME NEW n \in Names
        PROVE  OwnersOf(n)
    <3>1. CASE live[n] = AdoptedChild
      <4>0. "us" \notin {"other"}
        OBVIOUS
      <4>1. "us" \notin live[n].owners /\ ~live[n].partOf
        BY <3>1, <4>0, AdoptedFields, Zenon
      <4> QED BY <1>2, <4>1, Zenon DEF OwnersOf, OwnedBy
    <3>2. CASE live[n] = NoChild
      BY <1>2, <3>2, NoChildFields DEF OwnersOf, OwnedBy
    <3> QED BY <1>3, <3>1, <3>2
  <2> QED BY <2>1 DEF OwnersInv
<1>6. KeysAreHonest
  BY <1>2 DEF KeysAreHonest
<1>7. CursorInv
  BY <1>2 DEF CursorInv, Holding
<1>8. NewGenerationIsQueued /\ NoWorkIsForgotten
  BY <1>2, Zenon DEF NewGenerationIsQueued, NoWorkIsForgotten
<1> QED BY <1>1, <1>4, <1>5, <1>6, <1>7, <1>8 DEF CurrentInv

LEMMA CurrentInvImplies ==
    ASSUME CurrentInv
    PROVE  OwnedIsCurrent
<1> SUFFICES ASSUME Settled, NEW n \in Desired[gen] \ CreateOnly,
                    live[n].exists, "us" \in live[n].owners, ~live[n].deleting
             PROVE  /\ ~live[n].drift /\ live[n].stamp = gen /\ live[n].managed # "false"
                    /\ "other" \notin live[n].owners
  BY DEF OwnedIsCurrent
<1>1. inst = gen /\ pc = "idle" /\ ~queued /\ view = live
  BY DEF Settled
<1>2. n \in Names
  <2>1. gen \in 1 .. MaxGen
    BY DEF CurrentInv, TypeInv, GenerationsOK
  <2> QED BY <2>1, PipelineAssumption
<1>3. "other" \notin live[n].owners
  BY <1>2 DEF CurrentInv, OwnersInv, OwnersOf, OwnedBy
<1>4. ~NeedsWork(n)
  <2>1. ~Underway(n)
    BY <1>1 DEF Underway, Deploying
  <2>2. n \in Desired[inst]
    BY <1>1
  <2> QED BY <1>1, <2>1, <2>2, Zenon DEF CurrentInv, NoWorkIsForgotten
<1> QED BY <1>1, <1>3, <1>4 DEF NeedsWork, OwnedBy

\* When nothing is queued or under way and the informers have caught up, every
\* child the object owns and wants is as its manifest for the last generation
\* says, for any children, manifests, options, caches, failures, restarts and
\* edits, as long as users do not take back children they have released: no
\* skip by the deploy cache, no filtered event and no failed child leaves one
\* behind (action_deploy.go:ShouldSkip, predicates.go:DefaultPredicate).  The
\* hypothesis is needed: if a released child is taken back and released again
\* while deploy is about to apply it, deploy makes it owned again, and the
\* watch filters that change out because only the owners differ.
THEOREM OwnedIsAlwaysCurrent == NoTakeBack => (Spec => []OwnedIsCurrent)
<1> SUFFICES ASSUME NoTakeBack
             PROVE  Spec => []OwnedIsCurrent
  OBVIOUS
<1>1. Init => CurrentInv
  BY CurrentInit
<1>2. CurrentInv /\ [Next]_vars => CurrentInv'
  BY CurrentStep
<1>3. CurrentInv => OwnedIsCurrent
  BY CurrentInvImplies
<1> QED
  BY <1>1, <1>2, <1>3, PTL DEF Spec

-----------------------------------------------------------------------------
(***************************************************************************)
(* CollectsOnlyStale.                                                      *)
(***************************************************************************)

\* No generation up to g has dropped the child n.
NotDropped(n, g) ==
    \A i \in 1 .. g : n \in Desired[i] => \A j \in i .. g : n \in Desired[j]

\* Users only change or release children; a child that was dropped from the
\* manifests does not come back; and gc leaves alone what it does not own, its
\* default, if some children are only created.
KeepsChildren ==
    /\ Edits \subseteq {"drift", "release"}
    /\ \A g \in 1 .. MaxGen : \A n \in Desired[g] : NotDropped(n, g)
    /\ OnlyOwned \/ CreateOnly = {}

\* The generation being deployed, or the next one that can be.
Now == IF pc = "idle" THEN inst ELSE rgen

Kept(n) == NotDropped(n, Now)

\* gc would leave the child alone.
Protected(n) ==
    \/ n \in CreateOnly
    \/ ~live[n].exists
    \/ live[n].stamp = rgen
    \/ live[n].managed = "false"

\* What is stamped, labelled or owned was deployed by a run.
StampOf(n) ==
    /\ live[n].stamp <= Now
    /\ live[n].partOf => \E i \in 1 .. Now : n \in Desired[i]
    /\ "us" \in live[n].owners => n \in Mine

\* A child no generation has dropped is never deleted, so what a copy of it
\* says about its release stays true.
StaysOf(n) ==
    /\ ~live[n].deleting /\ ~view[n].deleting
    /\ view[n].managed = "false" => live[n].managed = "false"
    /\ live[n].managed = "false" => live[n].exists

StampsInv == \A n \in Names : StampOf(n)

KeptInv == \A n \in Names : Kept(n) => StaysOf(n)

\* The deploy cache remembers only what was applied to it.
KeptKeys ==
    \A k \in dcache : Kept(k[1]) /\ k[1] \notin CreateOnly => k[3] <= live[k[1]].stamp

HeldStays ==
    Holding =>
        /\ ~cur.deleting
        /\ cur.managed = "false" => live[Min(todo)].managed = "false"
        /\ pc = "release" => cur.managed = "false"
        /\ pc = "disown" => "other" \in cur.owners

Collecting == pc \in {"gc", "list", "collect"}

\* What the run is done with, gc would leave alone; and it is about to delete
\* something else.
DoneInv ==
    /\ Deploying /\ ~failed => \A n \in Desired[rgen] \ todo : Protected(n)
    /\ Collecting => \A n \in Desired[rgen] : Protected(n)
    /\ pc = "collect" => ~Kept(Min(todo))

CollectInv == TypeInv /\ StampsInv /\ KeptInv /\ KeptKeys /\ HeldStays /\ DoneInv

-----------------------------------------------------------------------------
\* A run is of one generation.
LEMMA RunStep ==
    ASSUME TypeInv, [Next]_vars
    PROVE  \/ pc' = "idle"
           \/ pc # "idle" /\ rgen' = rgen
           \/ pc = "idle" /\ pc' = "lookup" /\ rgen' = inst /\ todo' = Desired[inst]
<1>1. CASE UpdateInstance BY <1>1 DEF UpdateInstance, worker
<1>2. ASSUME NEW n \in Names, UserEdit(n) \/ UserDelete(n) \/ SyncChild(n) \/ Vanish(n)
      PROVE  UNCHANGED <<pc, rgen>>
  BY <1>2 DEF UserEdit, UserDelete, SyncChild, Vanish, worker
<1>3. CASE SyncInstance BY <1>3 DEF SyncInstance, worker
<1>4. CASE Render BY <1>4 DEF Render, worker
<1>5. CASE Lookup BY <1>5, Zenon DEF Lookup, ChildError, NextChild, Return, Idle
<1>6. ASSUME NEW owner \in {"us", "other"}, Disown(owner)
      PROVE  pc' = "idle" \/ (pc # "idle" /\ rgen' = rgen)
  <2>1. pc # "idle"
    BY <1>6 DEF Disown
  <2> QED BY <1>6, <2>1, Zenon DEF Disown, NextChild, Return, Idle
<1>7. CASE SkipChild \/ Apply
  <2>1. pc # "idle"
    BY <1>7 DEF SkipChild, Apply
  <2> QED BY <1>7, <2>1, Zenon DEF SkipChild, Apply, ChildError, NextChild, Return, Idle
<1>8. CASE EndDeploy \/ StartCollect \/ List \/ Collect \/ EndCollect
  <2>1. pc # "idle"
    BY <1>8 DEF EndDeploy, StartCollect, List, Collect, EndCollect
  <2> QED
    BY <1>8, <2>1, Zenon DEF EndDeploy, StartCollect, List, Collect, EndCollect, Return, Idle
<1>9. CASE Crash BY <1>9 DEF Crash, Idle
<1>10. CASE \E k \in dcache : Expire(k) BY <1>10 DEF Expire, worker
<1>11. CASE UNCHANGED vars BY <1>11 DEF vars
<1> QED
  BY <1>1, <1>2, <1>3, <1>4, <1>5, <1>6, <1>7, <1>8, <1>9, <1>10, <1>11
     DEF Next, Users, Watch, Worker

LEMMA NowIsGeneration ==
    ASSUME TypeInv
    PROVE  Now \in 1 .. MaxGen
BY PipelineAssumption DEF TypeInv, GenerationsOK, Now

LEMMA NowStep ==
    ASSUME TypeInv, [Next]_vars
    PROVE  /\ Now \in 1 .. MaxGen /\ Now' \in 1 .. MaxGen /\ Now <= Now'
           /\ pc # "idle" => Now = rgen
           /\ pc # "idle" /\ pc' # "idle" => rgen' = rgen /\ Now' = Now
<1>1. TypeInv'
  BY TypeStep
<1>2. Now \in 1 .. MaxGen
  BY NowIsGeneration
<1>3. Now' \in 1 .. MaxGen
  BY <1>1, PipelineAssumption DEF TypeInv, GenerationsOK, Now
<1>4. inst <= inst'
  BY InstStep
<1>5. inst \in Nat /\ inst' \in Nat /\ rgen \in 0 .. inst
  BY <1>1, PipelineAssumption DEF TypeInv, GenerationsOK
<1>6. CASE pc' = "idle"
  <2>1. Now' = inst'
    BY <1>6 DEF Now
  <2> QED BY <1>2, <1>3, <1>4, <1>5, <1>6, <2>1 DEF Now
<1>7. CASE pc' # "idle" /\ pc # "idle" /\ rgen' = rgen
  BY <1>2, <1>3, <1>5, <1>7 DEF Now
<1>8. CASE pc = "idle" /\ pc' = "lookup" /\ rgen' = inst
  BY <1>2, <1>3, <1>5, <1>8 DEF Now
<1> QED BY <1>6, <1>7, <1>8, RunStep

\* What is kept was kept before.
LEMMA KeptShrinks ==
    ASSUME TypeInv, [Next]_vars, NEW n, Kept(n)'
    PROVE  Kept(n)
<1> DEFINE a == Now
           b == Now'
<1>1. a \in Nat /\ b \in Nat /\ a <= b
  BY NowStep
<1>2. NotDropped(n, b)
  BY DEF Kept, NotDropped
<1> HIDE DEF a, b
<1>3. NotDropped(n, a)
  BY <1>1, <1>2 DEF NotDropped
<1> QED BY <1>3 DEF Kept, a

\* What is wanted is kept.
LEMMA WantedIsKept ==
    ASSUME KeepsChildren, TypeInv, pc # "idle", NEW n \in Desired[rgen]
    PROVE  Kept(n) /\ n \in Names /\ Now = rgen
<1>1. Now = rgen /\ rgen \in 1 .. MaxGen
  BY NowIsGeneration DEF Now
<1> QED BY <1>1, PipelineAssumption DEF Kept, KeepsChildren

\* A kept child that has been wanted is wanted.
LEMMA KeptIsWanted ==
    ASSUME TypeInv, NEW n, Kept(n), NEW i \in 1 .. Now, n \in Desired[i]
    PROVE  n \in Desired[Now]
<1> DEFINE a == Now
<1>1. a \in Nat
  BY NowIsGeneration
<1>2. NotDropped(n, a) /\ i \in 1 .. a
  BY DEF Kept
<1> HIDE DEF a
<1>3. n \in Desired[a]
  BY <1>1, <1>2 DEF NotDropped
<1> QED BY <1>3 DEF a

\* The child the worker holds is kept.
LEMMA FirstIsKept ==
    ASSUME KeepsChildren, TypeInv, Holding
    PROVE  /\ Min(todo) \in Names /\ Min(todo) \in todo /\ Min(todo) \in Desired[rgen]
           /\ Kept(Min(todo)) /\ Now = rgen
<1>1. todo # {} /\ pc # "idle" /\ todo \subseteq Desired[rgen]
  BY DEF Holding, TypeInv, WorkOK, Deploying
<1>2. Min(todo) \in todo /\ Min(todo) \in Names
  BY <1>1, FirstChild DEF TypeInv
<1> QED BY <1>1, <1>2, WantedIsKept

\* Nothing is done to a kept child but to edit, disown or deploy it.
LEMMA KeptWritten ==
    ASSUME KeepsChildren, TypeInv, KeptInv, DoneInv, NEW n \in Names, Kept(n), Written(n)
    PROVE  \/ Edited(n) /\ UserEdit(n)
           \/ \E owner \in {"us", "other"} : Disown(owner) /\ n = Min(todo) /\ Stripped(n, owner)
           \/ Apply /\ n = Min(todo) /\ n \notin CreateOnly /\ Deployed(n)
           \/ Apply /\ n = Min(todo) /\ n \in CreateOnly /\ Created(n)
<1>1. ~UserDelete(n)
  BY DEF UserDelete, KeepsChildren
<1>2. ~Vanish(n)
  BY DEF Vanish, KeptInv, StaysOf
<1>3. ~(Collect /\ n = Min(todo))
  BY DEF Collect, DoneInv
<1> QED BY <1>1, <1>2, <1>3, Zenon DEF Written

LEMMA StampsStep ==
    ASSUME TypeInv, StampsInv, [Next]_vars
    PROVE  StampsInv'
<1>1. /\ Now \in 1 .. MaxGen /\ Now' \in 1 .. MaxGen /\ Now <= Now'
      /\ pc # "idle" => Now = rgen
  BY NowStep
<1>2. \A n \in Names : live[n].stamp \in Nat
  BY ChildFields DEF TypeInv, ChildrenOK
<1> DEFINE a == Now
           b == Now'
<1>3. a \in Nat /\ b \in Nat /\ 1 <= a /\ a <= b
  BY <1>1
<1>4. ASSUME NEW n \in Names
      PROVE  /\ live[n].stamp <= a /\ live[n].stamp \in Nat
             /\ live[n].partOf => \E i \in 1 .. a : n \in Desired[i]
             /\ "us" \in live[n].owners => n \in Mine
  BY <1>2 DEF StampsInv, StampOf
<1>5. ASSUME NEW n \in Names, live'[n].stamp <= b,
             live'[n].partOf => \E i \in 1 .. b : n \in Desired[i],
             "us" \in live'[n].owners => n \in Mine
      PROVE  StampOf(n)'
  BY <1>5, Zenon DEF StampOf
<1> HIDE DEF a, b
<1>6. ASSUME NEW n \in Names, live'[n].stamp = live[n].stamp \/ live'[n].stamp = 0,
             live'[n].partOf => live[n].partOf,
             live'[n].owners \subseteq live[n].owners
      PROVE  StampOf(n)'
  <2>1. live'[n].stamp <= b
    BY <1>3, <1>4, <1>6
  <2>2. live'[n].partOf => \E i \in 1 .. b : n \in Desired[i]
    BY <1>3, <1>4, <1>6
  <2>3. "us" \in live'[n].owners => n \in Mine
    BY <1>4, <1>6
  <2> QED BY <1>5, <2>1, <2>2, <2>3
<1>7. CASE UNCHANGED live
  <2>1. ASSUME NEW n \in Names
        PROVE  StampOf(n)'
    BY <1>6, <1>7
  <2> QED BY <2>1 DEF StampsInv
<1>8. ASSUME NEW n \in Names, Written(n)
      PROVE  StampsInv'
  <2>1. \A m \in Names \ {n} : live'[m] = live[m]
    BY <1>8, WrittenRewrites DEF Rewrites
  <2>2. ASSUME NEW m \in Names \ {n}
        PROVE  StampOf(m)'
    BY <1>6, <2>1
  <2> SUFFICES StampOf(n)'
    BY <2>2 DEF StampsInv
  <2>3. CASE Edited(n) BY <1>6, <2>3 DEF Edited
  <2>4. CASE Vanished(n) BY <1>6, <2>4 DEF Vanished
  <2>5. CASE Marked(n) BY <1>6, <2>5 DEF Marked
  <2>6. ASSUME NEW owner, Stripped(n, owner) PROVE StampOf(n)'
    BY <1>6, <2>6 DEF Stripped
  <2>7. CASE Apply /\ n = Min(todo) /\ ((n \notin CreateOnly /\ Deployed(n)) \/ Created(n))
    <3>1. pc = "deploy"
      BY <2>7 DEF Apply
    <3>2. a = rgen
      BY <1>1, <3>1 DEF a
    <3>3. n \in Desired[rgen]
      BY <2>7, <3>1, FirstChild DEF TypeInv, WorkOK, Deploying
    <3>4. \E i \in 1 .. b : n \in Desired[i]
      BY <1>3, <3>2, <3>3
    <3>5. live'[n].stamp <= b
      BY <1>3, <2>7, <3>2 DEF Deployed, Created
    <3>6. live[n] \in Child
      BY DEF TypeInv, ChildrenOK
    <3>8. CASE Created(n)
      BY <1>5, <3>4, <3>5, <3>8 DEF Created
    <3>9. CASE Deployed(n) /\ n \notin CreateOnly
      <4>1. "us" \in Found(live[n]).owners => n \in Mine
        BY <1>4, <3>6, FoundFields, NoChildFields
      <4>2. "us" \in live'[n].owners => n \in Mine
        BY <3>9, <4>1 DEF Deployed, Mine
      <4> QED BY <1>5, <3>4, <3>5, <4>2
    <3> QED BY <2>7, <3>8, <3>9
  <2> QED BY <1>8, <2>3, <2>4, <2>5, <2>6, <2>7, Zenon DEF Written
<1> QED BY <1>7, <1>8, StepKinds

LEMMA KeptStep ==
    ASSUME KeepsChildren, TypeInv, KeptInv, DoneInv, [Next]_vars
    PROVE  KeptInv'
<1>0. live \in [Names -> Child] /\ view \in [Names -> Child]
  BY DEF TypeInv, ChildrenOK
<1> SUFFICES ASSUME NEW n \in Names, Kept(n)'
             PROVE  StaysOf(n)'
  BY DEF KeptInv
<1>1. Kept(n)
  BY KeptShrinks
<1>2. StaysOf(n)
  BY <1>1 DEF KeptInv
<1>3. CASE UNCHANGED <<live, view>>
  BY <1>2, <1>3, Zenon DEF StaysOf
<1>4. ASSUME UNCHANGED live, NEW m \in Names, SyncChild(m)
      PROVE  StaysOf(n)'
  <2>1. view'[n] = live[n] \/ view'[n] = view[n]
    BY <1>0, <1>4 DEF SyncChild
  <2> QED BY <1>2, <1>4, <2>1, Zenon DEF StaysOf
<1>5. CASE UNCHANGED live /\ Crash
  <2>1. view' = live
    BY <1>5 DEF Crash
  <2> QED BY <1>2, <1>5, <2>1, Zenon DEF StaysOf
<1>6. ASSUME UNCHANGED view, NEW m \in Names, Written(m)
      PROVE  StaysOf(n)'
  <2>1. CASE n # m
    <3>1. live'[n] = live[n]
      BY <1>6, <2>1, WrittenRewrites DEF Rewrites
    <3> QED BY <1>2, <1>6, <3>1, Zenon DEF StaysOf
  <2>2. CASE n = m
    <3>0. "manage" \notin Edits
      BY DEF KeepsChildren
    <3>1. CASE Edited(n)
      BY <1>2, <1>6, <3>0, <3>1, Zenon DEF StaysOf, Edited
    <3>2. ASSUME NEW owner, Stripped(n, owner) PROVE StaysOf(n)'
      BY <1>2, <1>6, <3>2, Zenon DEF StaysOf, Stripped
    <3>3. CASE Deployed(n)
      <4>1. live[n].exists => Found(live[n]) = live[n]
        BY <1>0, FoundFields
      <4>2. ~live[n].exists => Found(live[n]).managed = "" /\ ~Found(live[n]).deleting
        BY <1>0, FoundFields, NoChildFields
      <4>3. "" # "false"
        OBVIOUS
      <4> QED BY <1>2, <1>6, <3>3, <4>1, <4>2, <4>3, Zenon DEF StaysOf, Deployed
    <3>4. CASE Created(n)
      <4>1. "" # "false"
        OBVIOUS
      <4> QED BY <1>2, <1>6, <3>4, <4>1, Zenon DEF StaysOf, Created
    <3> QED BY <1>1, <1>6, <2>2, <3>1, <3>2, <3>3, <3>4, KeptWritten
  <2> QED BY <2>1, <2>2
<1> QED BY <1>3, <1>4, <1>5, <1>6, StepKinds

LEMMA StampGrows ==
    ASSUME KeepsChildren, TypeInv, StampsInv, KeptInv, DoneInv, [Next]_vars,
           NEW n \in Names, Kept(n), n \notin CreateOnly
    PROVE  live[n].stamp <= live'[n].stamp
<1>1. live[n].stamp \in Nat
  BY ChildFields DEF TypeInv, ChildrenOK
<1>2. CASE live'[n] = live[n]
  BY <1>1, <1>2
<1>3. ASSUME NEW m \in Names, Written(m), n = m
      PROVE  live[n].stamp <= live'[n].stamp
  <2>1. CASE Edited(n)
    BY <1>1, <2>1 DEF Edited, KeepsChildren
  <2>2. ASSUME NEW owner, Stripped(n, owner) PROVE live[n].stamp <= live'[n].stamp
    BY <1>1, <2>2 DEF Stripped
  <2>3. CASE Apply /\ Deployed(n)
    <3>1. Now = rgen
      BY <2>3 DEF Apply, Now
    <3> QED BY <2>3, <3>1 DEF Deployed, StampsInv, StampOf
  <2> QED BY <1>3, <2>1, <2>2, <2>3, KeptWritten
<1>4. ASSUME NEW m \in Names, Written(m), n # m
      PROVE  live'[n] = live[n]
  BY <1>4, WrittenRewrites DEF Rewrites
<1> QED BY <1>2, <1>3, <1>4, StepKinds

LEMMA KeptKeysStep ==
    ASSUME KeepsChildren, TypeInv, StampsInv, KeptInv, KeptKeys, DoneInv, [Next]_vars
    PROVE  KeptKeys'
<1> DEFINE H(k) == Kept(k[1])' /\ k[1] \notin CreateOnly => k[3] <= live'[k[1]].stamp
<1>1. live \in [Names -> Child] /\ live' \in [Names -> Child]
  BY LiveStep DEF TypeInv, ChildrenOK
<1>2. ASSUME NEW k \in dcache, Kept(k[1])', k[1] \notin CreateOnly
      PROVE  k[3] <= live'[k[1]].stamp
  <2>1. k \in Names \X Nat \X (1 .. MaxGen)
    BY DEF TypeInv, KeysOK
  <2>2. k[1] \in Names /\ k[3] \in Nat
    BY <2>1
  <2> DEFINE n == k[1]
  <2> HIDE DEF n
  <2>3. n \in Names /\ Kept(n) /\ n \notin CreateOnly
    BY <1>2, <2>2, KeptShrinks DEF n
  <2>4. live[n].stamp \in Nat /\ live'[n].stamp \in Nat
    BY <1>1, <2>3, ChildFields
  <2>5. live[n].stamp <= live'[n].stamp
    BY <2>3, StampGrows
  <2>6. k[3] <= live[n].stamp
    BY <2>3 DEF KeptKeys, n
  <2>7. k[3] <= live'[n].stamp
    BY <2>2, <2>4, <2>5, <2>6
  <2> QED BY <2>7 DEF n
<1>3. CASE dcache' \subseteq dcache
  BY <1>2, <1>3, Zenon DEF KeptKeys
<1>4. ASSUME NEW n, NEW v, dcache' = dcache \union {<<n, v, rgen>>},
             n \notin CreateOnly => Deployed(n)
      PROVE  KeptKeys'
  <2> DEFINE k == <<n, v, rgen>>
  <2>1. k[1] = n /\ k[3] = rgen
    OBVIOUS
  <2>2. n \notin CreateOnly => live'[n].stamp = rgen /\ rgen \in Nat
    BY <1>4 DEF Deployed, TypeInv, GenerationsOK
  <2>3. k[1] \notin CreateOnly => k[3] <= live'[k[1]].stamp
    BY <2>1, <2>2
  <2> HIDE DEF k
  <2>4. \A j \in dcache' : j \in dcache \/ j = k
    BY <1>4 DEF k
  <2> QED BY <1>2, <2>3, <2>4, Zenon DEF KeptKeys
<1> QED
  BY <1>3, <1>4, CacheStep

\* Releases of kept children are not undone, and what gc would leave alone it
\* goes on leaving alone.
LEMMA KeptStays ==
    ASSUME KeepsChildren, TypeInv, StampsInv, KeptInv, DoneInv, [Next]_vars,
           NEW n \in Names, Kept(n)
    PROVE  /\ live[n].managed = "false" => live'[n].managed = "false"
           /\ pc # "idle" /\ rgen' = rgen /\ Protected(n) => Protected(n)'
<1>1. CASE live'[n] = live[n]
  BY <1>1, Zenon DEF Protected
<1>2. ASSUME NEW m \in Names, Written(m), n # m
      PROVE  live'[n] = live[n]
  BY <1>2, WrittenRewrites DEF Rewrites
<1>3. ASSUME Written(n)
      PROVE  /\ live[n].managed = "false" => live'[n].managed = "false"
             /\ pc # "idle" /\ rgen' = rgen /\ Protected(n) => Protected(n)'
  <2>0. "manage" \notin Edits /\ "unstamp" \notin Edits
    BY DEF KeepsChildren
  <2>s. live[n].managed = "false" => live[n].exists
    BY DEF KeptInv, StaysOf
  <2>f. live[n].exists => Found(live[n]) = live[n]
    BY FoundFields DEF TypeInv, ChildrenOK
  <2>1. CASE Edited(n)
    BY <2>0, <2>1, Zenon DEF Edited, Protected
  <2>2. ASSUME NEW owner, Stripped(n, owner)
        PROVE  /\ live'[n].managed = live[n].managed
               /\ rgen' = rgen /\ Protected(n) => Protected(n)'
    BY <2>2, Zenon DEF Stripped, Protected
  <2>3. CASE Deployed(n)
    BY <2>3, <2>s, <2>f, Zenon DEF Deployed, Protected
  <2>4. CASE Created(n)
    BY <2>4, <2>s, Zenon DEF Created, Protected
  <2> QED BY <1>3, <2>1, <2>2, <2>3, <2>4, KeptWritten
<1> QED BY <1>1, <1>2, <1>3, StepKinds

LEMMA HeldStaysStep ==
    ASSUME KeepsChildren, TypeInv, StampsInv, KeptInv, DoneInv, HeldStays, [Next]_vars
    PROVE  HeldStays'
<1>f. ASSUME UNCHANGED <<pc, todo, cur>>
      PROVE  HeldStays'
  <2> SUFFICES ASSUME Holding
               PROVE  HeldStays'
    BY <1>f, Zenon DEF HeldStays, Holding
  <2> DEFINE n == Min(todo)
  <2>1. n \in Names /\ Kept(n)
    BY FirstIsKept
  <2>2. n' = n
    BY <1>f
  <2> HIDE DEF n
  <2>3. live[n].managed = "false" => live'[n].managed = "false"
    BY <2>1, KeptStays
  <2> QED BY <1>f, <2>2, <2>3, Zenon DEF HeldStays, n, Holding
<1>n. ASSUME pc' \in {"idle", "lookup", "gc", "list", "collect"}
      PROVE  HeldStays'
  BY <1>n DEF HeldStays, Holding
<1>1. CASE UpdateInstance BY <1>1, <1>f DEF UpdateInstance, worker
<1>2. ASSUME NEW n \in Names, UserEdit(n) \/ UserDelete(n) \/ SyncChild(n) \/ Vanish(n)
      PROVE  HeldStays'
  <2>1. UNCHANGED <<pc, todo, cur>>
    BY <1>2 DEF UserEdit, UserDelete, SyncChild, Vanish, worker
  <2> QED BY <1>f, <2>1
<1>3. CASE SyncInstance BY <1>3, <1>f DEF SyncInstance, worker
<1>4. CASE Render
  <2>1. pc' = "lookup" \/ (pc = "idle" /\ UNCHANGED pc)
    BY <1>4, Zenon DEF Render, worker
  <2> QED BY <1>n, <2>1
<1>5. CASE Lookup
  <2>0. todo # {} /\ pc = "lookup" /\ UNCHANGED <<live, view>>
    BY <1>5 DEF Lookup
  <2>1. CASE ChildError
    <3>1. pc' \in {"idle", "lookup"}
      BY <2>1, Zenon DEF ChildError, NextChild, Return, Idle
    <3> QED BY <1>n, <3>1
  <2> DEFINE n == Min(todo)
             c == Found(view[n])
  <2>2. CASE /\ cur' = c
             /\ pc' = IF "other" \in c.owners THEN "disown"
                      ELSE IF c.managed = "false" THEN "release" ELSE "deploy"
             /\ UNCHANGED <<queued, rgen, generated, todo, failed>>
    <3>1. n' = n
      BY <2>2
    <3>2. n \in Names /\ n \in Desired[rgen]
      BY <2>0, FirstChild DEF TypeInv, WorkOK, Deploying
    <3>3. Kept(n)
      BY <2>0, <3>2, WantedIsKept
    <3>4. view[n] \in Child
      BY <3>2 DEF TypeInv, ChildrenOK
    <3>5. StaysOf(n)
      BY <3>2, <3>3 DEF KeptInv
    <3>6. ~c.deleting /\ (c.managed = "false" => live[n].managed = "false")
      <4>1. CASE view[n].exists
        <5>1. c = view[n]
          BY <3>4, <4>1, FoundFields
        <5> QED BY <3>5, <5>1, Zenon DEF StaysOf
      <4>2. CASE ~view[n].exists
        <5>1. ~c.deleting /\ c.managed = ""
          BY <3>4, <4>2, FoundFields, NoChildFields
        <5> QED BY <5>1
      <4> QED BY <4>1, <4>2
    <3>7. /\ pc' = "release" => c.managed = "false"
          /\ pc' = "disown" => "other" \in c.owners
      BY <2>2
    <3> HIDE DEF n, c
    <3>8. /\ ~cur'.deleting
          /\ cur'.managed = "false" => live'[n'].managed = "false"
          /\ pc' = "release" => cur'.managed = "false"
          /\ pc' = "disown" => "other" \in cur'.owners
      BY <2>0, <2>2, <3>1, <3>6, <3>7, Zenon
    <3> QED BY <3>8, Zenon DEF HeldStays, n
  <2> QED BY <1>5, <2>1, <2>2, Zenon DEF Lookup
<1>6. ASSUME NEW owner \in {"us", "other"}, Disown(owner) PROVE HeldStays'
  <2> DEFINE n == Min(todo)
  <2>1. CASE /\ pc = "disown" /\ cur = live[n] /\ Stripped(n, owner) /\ cur' = live'[n]
             /\ pc' = IF cur.managed = "false" THEN "release" ELSE "deploy"
             /\ UNCHANGED <<queued, rgen, generated, todo, failed>>
    <3>1. n' = n
      BY <2>1
    <3>2. n \in Names /\ Kept(n)
      BY <2>1, FirstIsKept DEF Holding
    <3>3. StaysOf(n)
      BY <3>2 DEF KeptInv
    <3> HIDE DEF n
    <3>4. ~live'[n].deleting /\ live'[n].managed = live[n].managed
      BY <2>1, <3>3, Zenon DEF Stripped, StaysOf
    <3>5. pc' # "disown" /\ (pc' = "release" => cur.managed = "false")
      BY <2>1
    <3>6. /\ ~cur'.deleting
          /\ cur'.managed = "false" => live'[n'].managed = "false"
          /\ pc' = "release" => cur'.managed = "false"
          /\ pc' = "disown" => "other" \in cur'.owners
      BY <2>1, <3>1, <3>4, <3>5, Zenon
    <3> QED BY <3>6, Zenon DEF HeldStays, n
  <2>2. CASE NextChild(FALSE) \/ Return(TRUE)
    <3>1. pc' \in {"idle", "lookup"}
      BY <2>2, Zenon DEF NextChild, Return, Idle
    <3> QED BY <1>n, <3>1
  <2> QED BY <1>6, <2>1, <2>2, DisownEffect, Zenon
<1>7. CASE SkipChild \/ Apply
  <2>1. pc' \in {"lookup", "idle"}
    BY <1>7, Zenon DEF SkipChild, Apply, ChildError, NextChild, Return, Idle
  <2> QED BY <1>n, <2>1
<1>8. CASE EndDeploy \/ StartCollect \/ List \/ Collect \/ EndCollect
  <2>1. pc' \in {"gc", "list", "collect", "idle"}
    <3>1. CASE EndDeploy BY <3>1, Zenon DEF EndDeploy, Return, Idle
    <3>2. CASE StartCollect BY <3>2, Zenon DEF StartCollect, Return, Idle
    <3>3. CASE List BY <3>3, Zenon DEF List, Return, Idle
    <3>4. CASE Collect BY <3>4, Zenon DEF Collect, Return, Idle
    <3>5. CASE EndCollect BY <3>5, Zenon DEF EndCollect, Return, Idle
    <3> QED BY <1>8, <3>1, <3>2, <3>3, <3>4, <3>5
  <2> QED BY <1>n, <2>1
<1>9. CASE Crash
  <2>1. pc' = "idle"
    BY <1>9 DEF Crash, Idle
  <2> QED BY <1>n, <2>1
<1>10. CASE \E k \in dcache : Expire(k) BY <1>10, <1>f DEF Expire, worker
<1>11. CASE UNCHANGED vars BY <1>11, <1>f DEF vars
<1> QED
  BY <1>1, <1>2, <1>3, <1>4, <1>5, <1>6, <1>7, <1>8, <1>9, <1>10, <1>11
     DEF Next, Users, Watch, Worker


\* While a run goes on, what gc would leave alone it goes on leaving alone.
LEMMA ProtectedStays ==
    ASSUME KeepsChildren, TypeInv, StampsInv, KeptInv, DoneInv, [Next]_vars,
           pc # "idle", pc' # "idle"
    PROVE  /\ rgen' = rgen /\ Now' = Now
           /\ \A n \in Desired[rgen] : Protected(n) => Protected(n)'
<1>1. rgen' = rgen /\ Now' = Now
  BY NowStep
<1>2. ASSUME NEW n \in Desired[rgen]
      PROVE  Protected(n) => Protected(n)'
  BY <1>1, WantedIsKept, KeptStays
<1> QED BY <1>1, <1>2

\* A step that is not the worker's.
LEMMA DoneFrame ==
    ASSUME KeepsChildren, TypeInv, StampsInv, KeptInv, DoneInv, [Next]_vars,
           UNCHANGED <<pc, todo, failed>>
    PROVE  DoneInv'
<1>1. CASE pc = "idle"
  <2>1. pc' = "idle"
    BY <1>1
  <2> QED BY <2>1 DEF DoneInv, Deploying, Collecting
<1>2. CASE pc # "idle"
  <2>1. /\ rgen' = rgen /\ Now' = Now
        /\ \A n \in Desired[rgen] : Protected(n) => Protected(n)'
    BY <1>2, ProtectedStays
  <2>2. pc' = pc /\ todo' = todo /\ failed' = failed
    OBVIOUS
  <2>3. Deploying' /\ ~failed' => \A n \in Desired[rgen'] \ todo' : Protected(n)'
    <3>1. Deploying' = Deploying
      BY <2>2 DEF Deploying
    <3>2. Deploying /\ ~failed => \A n \in Desired[rgen] \ todo : Protected(n)
      BY Zenon DEF DoneInv
    <3>3. ASSUME Deploying', ~failed', NEW n \in Desired[rgen'] \ todo'
          PROVE  Protected(n)'
      <4>1. n \in Desired[rgen] /\ n \notin todo /\ Deploying /\ ~failed
        BY <2>1, <2>2, <3>1, <3>3
      <4> QED BY <2>1, <3>2, <4>1, Zenon
    <3> QED BY <3>3
  <2>4. Collecting' => \A n \in Desired[rgen'] : Protected(n)'
    BY <2>1, <2>2, Zenon DEF DoneInv, Collecting
  <2>5. pc' = "collect" => ~Kept(Min(todo))'
    <3>1. Min(todo)' = Min(todo)
      BY <2>2
    <3>2. ASSUME pc = "collect" PROVE ~NotDropped(Min(todo), Now)
      BY <3>2 DEF DoneInv, Kept
    <3>3. ASSUME pc = "collect" PROVE ~NotDropped(Min(todo), Now')
      BY <2>1, <3>2, <3>3
    <3> QED BY <2>2, <3>3 DEF Kept, NotDropped
  <2> QED BY <2>3, <2>4, <2>5, Zenon DEF DoneInv
<1> QED BY <1>1, <1>2

\* The worker goes on to the next child.
LEMMA DoneNext ==
    ASSUME KeepsChildren, TypeInv, StampsInv, KeptInv, DoneInv, [Next]_vars,
           Deploying, NEW err \in BOOLEAN, NextChild(err),
           NEW m, m = Min(todo), ~err => Protected(m)'
    PROVE  DoneInv'
<1>1. pc # "idle" /\ pc' = "lookup" /\ todo' = todo \ {Min(todo)}
  BY DEF NextChild, Deploying
<1>2. ~failed' => ~failed /\ ~err
  BY Zenon DEF NextChild
<1>3. pc' # "idle"
  BY <1>1
<1>4. /\ rgen' = rgen
      /\ \A n \in Desired[rgen] : Protected(n) => Protected(n)'
  BY <1>1, <1>3, ProtectedStays
<1>6. todo' = todo \ {m}
  BY <1>1
<1>7. ASSUME ~failed', NEW n \in Desired[rgen'] \ todo'
      PROVE  Protected(n)'
  <2>1. CASE n = m
    BY <1>2, <1>7, <2>1
  <2>2. CASE n # m
    <3>1. n \in Desired[rgen] \ todo
      BY <1>4, <1>6, <1>7, <2>2
    <3>2. Protected(n)
      BY <1>2, <1>7, <3>1, Zenon DEF DoneInv
    <3> QED BY <1>4, <3>1, <3>2
  <2> QED BY <2>1, <2>2
<1>8. ~Collecting' /\ pc' # "collect"
  BY <1>1 DEF Collecting
<1> QED BY <1>7, <1>8, Zenon DEF DoneInv

LEMMA DoneError ==
    ASSUME KeepsChildren, TypeInv, StampsInv, KeptInv, DoneInv, [Next]_vars,
           Deploying, ChildError
    PROVE  DoneInv'
<1>1. CASE NextChild(TRUE)
  <2>1. PICK m : m = Min(todo)
    OBVIOUS
  <2> QED BY <1>1, <2>1, DoneNext
<1>2. CASE Return(TRUE)
  <2>1. pc' = "idle"
    BY <1>2 DEF Return, Idle
  <2> QED BY <2>1 DEF DoneInv, Deploying, Collecting
<1> QED BY <1>1, <1>2, Zenon DEF ChildError

\* A released child is left alone.
LEMMA DoneDisown ==
    ASSUME KeepsChildren, TypeInv, StampsInv, KeptInv, HeldStays, DoneInv, [Next]_vars,
           NEW owner \in {"us", "other"}, Disown(owner)
    PROVE  DoneInv'
<1>0. PICK n : n = Min(todo)
  OBVIOUS
<1>1. pc = (IF owner = "other" THEN "disown" ELSE "release")
  BY DEF Disown
<1>2. Holding /\ Deploying /\ pc # "idle"
  BY <1>1 DEF Holding, Deploying
<1>3. n \in Names /\ n \in Desired[rgen]
  BY <1>0, <1>2, FirstIsKept
<1>i. ASSUME pc' = "idle" PROVE DoneInv'
  BY <1>i DEF DoneInv, Deploying, Collecting
<1>4. CASE /\ pc' = IF cur.managed = "false" THEN "release" ELSE "deploy"
           /\ UNCHANGED <<queued, rgen, generated, todo, failed>>
  <2>1. Deploying' /\ ~Collecting' /\ pc' # "collect" /\ pc' # "idle"
    BY <1>4 DEF Deploying, Collecting
  <2>2. \A m \in Desired[rgen] : Protected(m) => Protected(m)'
    BY <1>2, <2>1, ProtectedStays
  <2>3. todo' = todo /\ failed' = failed /\ rgen' = rgen
    BY <1>4
  <2> QED BY <1>2, <2>1, <2>2, <2>3, Zenon DEF DoneInv
<1>5. CASE Return(TRUE)
  BY <1>5, <1>i DEF Return, Idle
<1>6. CASE NextChild(FALSE) /\ owner = "us"
  <2>1. pc = "release"
    BY <1>1, <1>6
  <2>2. live[n].managed = "false"
    BY <1>0, <1>2, <2>1, Zenon DEF HeldStays
  <2>3. Protected(n)
    BY <2>2 DEF Protected
  <2>4. pc' # "idle"
    BY <1>6 DEF NextChild
  <2>5. Protected(n)'
    BY <1>2, <1>3, <2>3, <2>4, ProtectedStays
  <2> QED BY <1>0, <1>2, <1>6, <2>5, DoneNext
<1>7. CASE owner \notin cur.owners /\ owner = "other"
  BY <1>1, <1>2, <1>7 DEF HeldStays
<1> QED BY <1>0, <1>4, <1>5, <1>6, <1>7, DisownEffect, Zenon

\* A skipped child was applied by a run of this generation.
LEMMA DoneSkip ==
    ASSUME KeepsChildren, TypeInv, StampsInv, KeptInv, KeptKeys, HeldStays, DoneInv,
           [Next]_vars, SkipChild
    PROVE  DoneInv'
<1>0. PICK n : n = Min(todo)
  OBVIOUS
<1>1. pc = "deploy" /\ Skip /\ NextChild(FALSE)
  BY DEF SkipChild
<1>2. Holding /\ Deploying /\ pc # "idle" /\ pc' # "idle"
  BY <1>1 DEF Holding, Deploying, NextChild
<1>3. n \in Names /\ n \in Desired[rgen] /\ Kept(n) /\ Now = rgen
  BY <1>0, <1>2, FirstIsKept
<1>4. ~cur.deleting
  BY <1>2, Zenon DEF HeldStays
<1>5. <<n, cur.rv, rgen>> \in dcache
  BY <1>0, <1>1, <1>4, Zenon DEF Skip, Key
<1>6. n \notin CreateOnly => rgen <= live[n].stamp
  <2> DEFINE k == <<n, cur.rv, rgen>>
  <2>1. k[1] = n /\ k[3] = rgen /\ k \in dcache
    BY <1>5
  <2> HIDE DEF k
  <2> QED BY <1>3, <2>1 DEF KeptKeys
<1>7. live[n].stamp <= rgen
  BY <1>3 DEF StampsInv, StampOf
<1>8. live[n].stamp \in Nat /\ rgen \in Nat
  <2>1. live[n] \in Child /\ rgen \in Nat
    BY <1>3 DEF TypeInv, ChildrenOK, GenerationsOK
  <2>2. live[n].stamp \in Nat
    BY <2>1, ChildFields, Zenon
  <2> QED BY <2>1, <2>2
<1>9. Protected(n)
  BY <1>6, <1>7, <1>8 DEF Protected
<1>10. Protected(n)'
  BY <1>2, <1>3, <1>9, ProtectedStays
<1> QED BY <1>0, <1>1, <1>2, <1>10, DoneNext

\* An applied child has the stamp of this generation.
LEMMA DoneApply ==
    ASSUME KeepsChildren, TypeInv, StampsInv, KeptInv, DoneInv, [Next]_vars, Apply
    PROVE  DoneInv'
<1>0. PICK n : n = Min(todo)
  OBVIOUS
<1>1. Deploying
  BY DEF Apply, Deploying
<1>2. CASE ChildError
  BY <1>1, <1>2, DoneError
<1>3. CASE NextChild(FALSE) /\ (n \in CreateOnly \/ Deployed(n))
  <2>1. rgen' = rgen
    BY <1>3 DEF NextChild
  <2>2. Protected(n)'
    BY <1>3, <2>1 DEF Deployed, Protected
  <2> QED BY <1>0, <1>1, <1>3, <2>2, DoneNext
<1> QED BY <1>0, <1>2, <1>3, ApplyEffect, Zenon

\* What gc is about to delete is no child of this generation.
LEMMA DoneList ==
    ASSUME KeepsChildren, TypeInv, StampsInv, KeptInv, DoneInv, [Next]_vars, List
    PROVE  DoneInv'
<1>0. PICK n : n = Min(todo)
  OBVIOUS
<1>1. pc = "list" /\ todo # {} /\ Collecting
  BY DEF List, Collecting
<1>2. n \in Names
  BY <1>0, <1>1, FirstChild DEF TypeInv
<1>i. ASSUME pc' = "idle" PROVE DoneInv'
  BY <1>i DEF DoneInv, Deploying, Collecting
<1>3. ASSUME pc' \in {"list", "collect"}
      PROVE  ~Deploying' /\ (Collecting' => \A m \in Desired[rgen'] : Protected(m)')
  <2>1. ~Deploying' /\ pc # "idle" /\ pc' # "idle"
    BY <1>1, <1>3 DEF Deploying
  <2>2. rgen' = rgen /\ \A m \in Desired[rgen] : Protected(m) => Protected(m)'
    BY <2>1, ProtectedStays
  <2>3. \A m \in Desired[rgen] : Protected(m)
    BY <1>1, Zenon DEF DoneInv
  <2> QED BY <2>1, <2>2, <2>3
<1>4. CASE Collectable(live[n]) /\ pc' = "collect" /\ todo' = todo
  <2>1. Now = rgen
    BY <1>1 DEF Now
  <2>2. PICK i \in 1 .. Now : n \in Desired[i]
    BY <1>2, <1>4 DEF StampsInv, StampOf, Collectable
  <2>3. ~Kept(n)
    <3> SUFFICES ASSUME Kept(n) PROVE FALSE
      OBVIOUS
    <3>1. n \in Desired[rgen]
      BY <2>1, <2>2, KeptIsWanted
    <3>2. Protected(n)
      BY <1>1, <3>1, Zenon DEF DoneInv
    <3>3. n \in CreateOnly
      BY <1>4, <3>2 DEF Protected, Collectable
    <3>4. OnlyOwned
      BY <3>3 DEF KeepsChildren
    <3>5. "us" \in live[n].owners
      BY <1>4, <3>4 DEF Collectable
    <3> QED BY <1>2, <3>3, <3>5 DEF StampsInv, StampOf, Mine
  <2>4. Now' = Now
    BY <1>1, <1>4, ProtectedStays
  <2>5. ~Kept(Min(todo))'
    <3>1. ~NotDropped(n, Now')
      BY <2>3, <2>4 DEF Kept
    <3>2. Min(todo)' = n
      BY <1>0, <1>4
    <3> QED BY <3>1, <3>2 DEF Kept, NotDropped
  <2> QED BY <1>3, <1>4, <2>5, Zenon DEF DoneInv
<1>5. CASE pc' = "list"
  <2>1. pc' # "collect"
    BY <1>5
  <2> QED BY <1>3, <1>5, <2>1, Zenon DEF DoneInv
<1>6. CASE Return(TRUE)
  BY <1>6, <1>i DEF Return, Idle
<1> QED BY <1>0, <1>1, <1>4, <1>5, <1>6, Zenon DEF List

LEMMA DoneStep ==
    ASSUME KeepsChildren, TypeInv, StampsInv, KeptInv, KeptKeys, HeldStays, DoneInv, [Next]_vars
    PROVE  DoneInv'
<1>i. ASSUME pc' = "idle" PROVE DoneInv'
  BY <1>i DEF DoneInv, Deploying, Collecting
<1>1. CASE UpdateInstance BY <1>1, DoneFrame DEF UpdateInstance, worker
<1>2. ASSUME NEW n \in Names, UserEdit(n) \/ UserDelete(n) \/ SyncChild(n) \/ Vanish(n)
      PROVE  DoneInv'
  <2>1. UNCHANGED <<pc, todo, failed>>
    BY <1>2 DEF UserEdit, UserDelete, SyncChild, Vanish, worker
  <2> QED BY <2>1, DoneFrame
<1>3. CASE SyncInstance BY <1>3, DoneFrame DEF SyncInstance, worker
<1>4. CASE Render
  <2>1. CASE pc' = "lookup" /\ rgen' = inst /\ todo' = Desired[inst]
    <3>1. Desired[rgen'] \ todo' = {} /\ ~Collecting' /\ pc' # "collect"
      BY <2>1 DEF Collecting
    <3> QED BY <3>1 DEF DoneInv
  <2>2. CASE UNCHANGED <<queued, worker, rkey>>
    BY <2>2, DoneFrame DEF worker
  <2> QED BY <1>4, <2>1, <2>2, Zenon DEF Render
<1>5. CASE Lookup
  <2>1. pc = "lookup" /\ Deploying
    BY <1>5 DEF Lookup, Deploying
  <2>2. CASE ChildError
    BY <2>1, <2>2, DoneError
  <2>3. CASE pc' \in {"disown", "release", "deploy"} /\ UNCHANGED <<rgen, todo, failed>>
    <3>1. pc # "idle" /\ pc' # "idle" /\ ~Collecting' /\ pc' # "collect"
      BY <2>1, <2>3 DEF Collecting
    <3>2. \A m \in Desired[rgen] : Protected(m) => Protected(m)'
      BY <3>1, ProtectedStays
    <3>3. todo' = todo /\ failed' = failed /\ rgen' = rgen
      BY <2>3
    <3> QED BY <2>1, <3>1, <3>2, <3>3, Zenon DEF DoneInv
  <2> QED BY <1>5, <2>2, <2>3, Zenon DEF Lookup
<1>6. ASSUME NEW owner \in {"us", "other"}, Disown(owner) PROVE DoneInv'
  BY <1>6, DoneDisown
<1>7. CASE SkipChild BY <1>7, DoneSkip
<1>8. CASE Apply BY <1>8, DoneApply
<1>9. CASE EndDeploy
  <2>1. pc = "lookup" /\ todo = {} /\ Deploying
    BY <1>9 DEF EndDeploy, Deploying
  <2>2. CASE failed
    BY <1>9, <1>i, <2>2 DEF EndDeploy, Return, Idle
  <2>3. CASE ~failed
    <3>1. pc' = "gc" /\ UNCHANGED rgen
      BY <1>9, <2>3 DEF EndDeploy
    <3>2. pc # "idle" /\ pc' # "idle" /\ ~Deploying' /\ pc' # "collect"
      BY <2>1, <3>1 DEF Deploying
    <3>3. \A m \in Desired[rgen] : Protected(m) => Protected(m)'
      BY <3>2, ProtectedStays
    <3>4. \A m \in Desired[rgen] \ todo : Protected(m)
      BY <2>1, <2>3, Zenon DEF DoneInv
    <3>5. \A m \in Desired[rgen'] : Protected(m)'
      BY <2>1, <3>1, <3>3, <3>4
    <3> QED BY <3>2, <3>5, Zenon DEF DoneInv
  <2> QED BY <2>2, <2>3
<1>10. CASE StartCollect
  <2>1. pc = "gc" /\ Collecting
    BY <1>10 DEF StartCollect, Collecting
  <2>2. CASE Return(FALSE) \/ Return(TRUE)
    BY <1>i, <2>2 DEF Return, Idle
  <2>3. CASE pc' = "list" /\ UNCHANGED rgen
    <3>1. pc # "idle" /\ pc' # "idle" /\ ~Deploying' /\ pc' # "collect"
      BY <2>1, <2>3 DEF Deploying
    <3>2. \A m \in Desired[rgen] : Protected(m) => Protected(m)'
      BY <3>1, ProtectedStays
    <3>3. \A m \in Desired[rgen] : Protected(m)
      BY <2>1, Zenon DEF DoneInv
    <3>4. \A m \in Desired[rgen'] : Protected(m)'
      BY <2>3, <3>2, <3>3
    <3> QED BY <3>1, <3>4, Zenon DEF DoneInv
  <2> QED BY <1>10, <2>2, <2>3, Zenon DEF StartCollect
<1>11. CASE List BY <1>11, DoneList
<1>12. CASE Collect
  <2>1. pc = "collect" /\ Collecting
    BY <1>12 DEF Collect, Collecting
  <2>2. CASE Return(TRUE)
    BY <1>i, <2>2 DEF Return, Idle
  <2>3. CASE pc' = "list" /\ UNCHANGED rgen
    <3>1. pc # "idle" /\ pc' # "idle" /\ ~Deploying' /\ pc' # "collect"
      BY <2>1, <2>3 DEF Deploying
    <3>2. \A m \in Desired[rgen] : Protected(m) => Protected(m)'
      BY <3>1, ProtectedStays
    <3>3. \A m \in Desired[rgen] : Protected(m)
      BY <2>1, Zenon DEF DoneInv
    <3>4. \A m \in Desired[rgen'] : Protected(m)'
      BY <2>3, <3>2, <3>3
    <3> QED BY <3>1, <3>4, Zenon DEF DoneInv
  <2> QED BY <1>12, <2>2, <2>3, Zenon DEF Collect
<1>13. CASE EndCollect BY <1>13, <1>i DEF EndCollect, Return, Idle
<1>14. CASE Crash BY <1>14, <1>i DEF Crash, Idle
<1>15. CASE \E k \in dcache : Expire(k) BY <1>15, DoneFrame DEF Expire, worker
<1>16. CASE UNCHANGED vars BY <1>16, DoneFrame DEF vars
<1> QED
  BY <1>1, <1>2, <1>3, <1>4, <1>5, <1>6, <1>7, <1>8, <1>9, <1>10, <1>11, <1>12, <1>13,
     <1>14, <1>15, <1>16
     DEF Next, Users, Watch, Worker

LEMMA CollectStep ==
    ASSUME KeepsChildren, CollectInv, [Next]_vars
    PROVE  CollectInv'
<1> USE DEF CollectInv
<1>1. TypeInv' /\ StampsInv' /\ KeptInv'
  BY TypeStep, StampsStep, KeptStep
<1>2. KeptKeys' /\ HeldStays' /\ DoneInv'
  BY KeptKeysStep, HeldStaysStep, DoneStep
<1> QED BY <1>1, <1>2

LEMMA CollectInit ==
    ASSUME Init
    PROVE  CollectInv
<1>1. TypeInv
  BY InitTypes
<1>2. view = live /\ pc = "idle" /\ dcache = {}
  BY DEF Init
<1>3. Now \in Nat
  BY <1>1, NowIsGeneration
<1>4. ASSUME NEW n \in Names
      PROVE  live[n] = AdoptedChild \/ live[n] = NoChild
  BY DEF Init, AdoptedChild
<1>5. "" # "false" /\ "us" \notin {"other"} /\ "us" \notin {} /\ 0 <= Now
  BY <1>3
<1>6. ASSUME NEW n \in Names
      PROVE  /\ live[n].stamp = 0 /\ ~live[n].partOf /\ "us" \notin live[n].owners
             /\ ~live[n].deleting /\ live[n].managed = ""
  BY <1>4, <1>5, AdoptedFields, NoChildFields, Zenon
<1>7. StampsInv
  BY <1>5, <1>6, Zenon DEF StampsInv, StampOf
<1>8. KeptInv
  BY <1>2, <1>5, <1>6, Zenon DEF KeptInv, StaysOf
<1>9. KeptKeys
  BY <1>2 DEF KeptKeys
<1>10. HeldStays
  BY <1>2 DEF HeldStays, Holding
<1>11. DoneInv
  BY <1>2 DEF DoneInv, Deploying, Collecting
<1> QED BY <1>1, <1>7, <1>8, <1>9, <1>10, <1>11 DEF CollectInv

\* What gc deletes is not kept, and what is wanted is.
LEMMA CollectSpares ==
    ASSUME KeepsChildren, CollectInv, Collect, NEW n \in Desired[rgen]
    PROVE  live'[n] = live[n]
<1>0. PICK m : m = Min(todo)
  OBVIOUS
<1> USE DEF CollectInv
<1>1. pc = "collect"
  BY DEF Collect
<1>2. Kept(n) /\ n \in Names
  BY <1>1, WantedIsKept
<1>3. ~Kept(m)
  BY <1>0, <1>1, Zenon DEF DoneInv
<1>4. n # m
  BY <1>2, <1>3
<1>5. UNCHANGED live \/ Rewrites(m)
  BY <1>0, CollectEffect, Zenon DEF Vanished, Marked
<1> QED BY <1>2, <1>4, <1>5 DEF Rewrites

\* The garbage collector never deletes a child of the manifests being deployed,
\* for any children, manifests, options, caches, failures and restarts
\* (action_gc.go:isObjectDeletable against action_deploy.go:run), as long as
\* users only change or release children, no child that was dropped comes back,
\* and gc collects only what is owned if some children are only created.  Each
\* hypothesis is needed.  A child that users or gc delete and that is still
\* terminating in the informer's copy is skipped by deploy, so the live one,
\* stamped for an earlier generation, is collected.  A child that is only
\* created is stamped once and never again, so the next generation's gc deletes
\* it unless it is spared for having no owner.
THEOREM OnlyStaleIsCollected == KeepsChildren => (Spec => CollectsOnlyStale)
<1> SUFFICES ASSUME KeepsChildren
             PROVE  Spec => CollectsOnlyStale
  OBVIOUS
<1>1. Init => CollectInv
  BY CollectInit
<1>2. CollectInv /\ [Next]_vars => CollectInv'
  BY CollectStep
<1>3. CollectInv => [Collect => \A n \in Desired[rgen] : live'[n] = live[n]]_vars
  BY CollectSpares
<1> QED
  BY <1>1, <1>2, <1>3, PTL DEF Spec, CollectsOnlyStale
=============================================================================
