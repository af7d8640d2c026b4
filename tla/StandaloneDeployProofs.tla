----------------------- MODULE StandaloneDeployProofs -----------------------
(***************************************************************************)
(* Proofs about the root module's Deployer and Collector, for any set of   *)
(* children, what is rendered of them, releases, options of both, users    *)
(* and failures.                                                           *)
(*                                                                         *)
(*   RestIsSettled      with nothing left to do, the cluster is as rendered *)
(*                      for the instance; from SettleInv: as long as       *)
(*                      nothing has happened since the pass began, what it *)
(*                      is done with is as it should be.                   *)
(*   RenderedIsSpared   the collector deletes nothing that was just        *)
(*                      deployed, if releases have a type and a version;   *)
(*                      from SpareInv: what the pass is done with carries  *)
(*                      its stamp.                                         *)
(*   OnlyRacesLoseTuning a merge loses tuning only to a stale copy; from   *)
(*                      CopyInv: a copy of the current version is the      *)
(*                      child.                                             *)
(*                                                                         *)
(* All rest on BaseInv: what the instance owns is labelled and stamped     *)
(* (MarksInv), and what the cache remembers of the current version of a    *)
(* child is true (CacheInv).                                               *)
(***************************************************************************)
EXTENDS StandaloneDeploy, WellFoundedInduction, TLAPS

\* A non-empty set of children has a first one (WithApplyOrder).
LEMMA FirstIsMember ==
    ASSUME NEW S \in SUBSET Kids, S # {}
    PROVE  Min(S) \in S
<1> DEFINE R == {ss \in Nat \X Nat : ss[1] < ss[2]}
<1>1. S \subseteq Nat
  BY StandaloneDeployAssumption
<1>2. IsWellFoundedOn(R, Nat)
  BY NatLessThanWellFounded, Zenon DEF OpToRel
<1>3. PICK x \in S : \A y \in S : ~(<<y, x>> \in R)
  <2> HIDE DEF R
  <2> QED BY <1>1, <1>2, WFMin
<1>4. ASSUME NEW y \in S
      PROVE  x <= y
  <2>1. x \in Nat /\ y \in Nat
    BY <1>1
  <2>2. ~(<<y, x>> \in R)
    BY <1>3, Zenon
  <2> QED
    BY <2>1, <2>2
<1> QED
  BY <1>4 DEF Min

-----------------------------------------------------------------------------
(***************************************************************************)
(* The invariants.                                                         *)
(***************************************************************************)

Versions == {NoStamp.version} \union {ReleaseInfo[r].version : r \in DOMAIN ReleaseInfo}
Types == {NoStamp.type} \union {ReleaseInfo[r].type : r \in DOMAIN ReleaseInfo}
Stamps == [gen : Int, uid : Nat, version : Versions, type : Types]
Kid == [exists : BOOLEAN, rv : Nat, deleting : BOOLEAN, managed : {"", "true", "false"},
        refs : SUBSET (0 .. MaxUID), partOf : {"", "me", "platform"}, stamp : Stamps,
        tuned : BOOLEAN, drift : BOOLEAN]
Instance == [uid : UIDs, gen : 1 .. MaxGen]

Deploying == pc \in {"deploy", "apply"}
Collecting == pc \in {"list", "delete"}

\* The instance, and the pass: it deploys what is rendered for its instance.
PassOK ==
    /\ inst \in Instance /\ owner \in Instance
    /\ release \in DOMAIN ReleaseInfo /\ dirty \in BOOLEAN
    /\ pc = "idle" \/ Deploying \/ Collecting
    /\ todo \subseteq Kids
    /\ pc \in {"apply", "delete"} => todo # {}
    /\ Deploying => todo \subseteq Rendered[owner.gen]

KidsOK == live \in [Kids -> Kid] /\ cur \in Kid

\* What an instance owns carries its label and a stamp; a stamp is of a
\* generation that rendered the child.
MarkedOf(k, o) ==
    /\ k \in CreateOnly => o.refs \intersect UIDs = {}
    /\ k \notin CRDs /\ o.refs \intersect UIDs # {} => o.partOf = "me" /\ o.stamp.uid # 0
    /\ \A g \in 1 .. MaxGen : o.stamp.gen = g => k \in Rendered[g]

MarksInv == \A k \in Kids : MarkedOf(k, live[k])

\* A fingerprint of the current version says what was applied.
Honest(f, o) ==
    /\ f[2] <= o.rv
    /\ f[2] = o.rv => /\ o.stamp = f[3] /\ ~o.drift
                      /\ Owns(f[1]) => o.refs = {f[3].uid}

CacheInv ==
    /\ cache \subseteq Kids \X Nat \X Stamps
    /\ \A f \in cache : Honest(f, live[f[1]])

\* The copy that is about to be applied over o is of an earlier version, or
\* it is o.
CopyOf(o) == cur.rv <= o.rv /\ (cur.rv = o.rv => cur = o)

CopyInv == pc = "apply" => CopyOf(live[Min(todo)])

BaseInv == PassOK /\ KidsOK /\ MarksInv /\ CacheInv /\ CopyInv

-----------------------------------------------------------------------------
(***************************************************************************)
(* Versions of a child.                                                    *)
(***************************************************************************)

\* The same but for the resource version.
Like(a, b) ==
    /\ a.exists = b.exists /\ a.deleting = b.deleting /\ a.managed = b.managed
    /\ a.refs = b.refs /\ a.partOf = b.partOf /\ a.stamp = b.stamp
    /\ a.tuned = b.tuned /\ a.drift = b.drift

\* The child k has a new version, or none.
Rewrites(k) ==
    /\ live' \in [Kids -> Kid]
    /\ \A j \in Kids \ {k} : live'[j] = live[j]
    /\ live' = live \/ live'[k].rv = live[k].rv + 1

LEMMA WriteEffect ==
    ASSUME live \in [Kids -> Kid], NEW k \in Kids, NEW o \in Kid, Write(k, o)
    PROVE  Rewrites(k) /\ Like(live'[k], o)
<1>1. live[k] \in Kid
  OBVIOUS
<1>2. CASE [o EXCEPT !.rv = live[k].rv] = live[k]
  <2>1. live' = live
    BY <1>2 DEF Write
  <2> DEFINE d == [o EXCEPT !.rv = live[k].rv]
  <2>2. Like(d, o)
    BY DEF Like, Kid
  <2>3. d = live[k]
    BY <1>2
  <2> HIDE DEF d
  <2>4. Like(live[k], o)
    BY <2>2, <2>3
  <2> QED BY <2>1, <2>4 DEF Rewrites
<1>3. CASE [o EXCEPT !.rv = live[k].rv] # live[k]
  <2> DEFINE v == live[k].rv + 1
             d == [o EXCEPT !.rv = v]
  <2>1. live' = [live EXCEPT ![k] = d]
    BY <1>3 DEF Write
  <2>0. live[k].rv \in Nat
    BY <1>1 DEF Kid
  <2>2. v \in Nat
    BY <2>0
  <2> HIDE DEF v
  <2>3. d \in Kid /\ d.rv = v
    BY <2>2 DEF Kid
  <2>4. Like(d, o)
    BY DEF Like, Kid
  <2> HIDE DEF d
  <2>5. live'[k] = d /\ live' \in [Kids -> Kid] /\ \A j \in Kids \ {k} : live'[j] = live[j]
    BY <2>1, <2>3
  <2> QED BY <2>3, <2>4, <2>5 DEF Rewrites, v
<1> QED BY <1>2, <1>3

LEMMA BlankFields ==
    /\ NoStamp \in Stamps /\ NoStamp.gen = 0 /\ NoStamp.uid = 0
    /\ NoKid \in Kid
    /\ ~NoKid.exists /\ NoKid.refs = {} /\ NoKid.stamp = NoStamp /\ NoKid.rv = 0
<1>1. NoStamp.gen = 0 /\ NoStamp.uid = 0
  BY DEF NoStamp
<1>2. NoStamp \in Stamps
  BY DEF NoStamp, Stamps, Versions, Types
<1>3. NoKid \in Kid
  BY <1>2 DEF NoKid, Kid
<1>4. ~NoKid.exists /\ NoKid.refs = {} /\ NoKid.stamp = NoStamp /\ NoKid.rv = 0
  BY DEF NoKid
<1> QED BY <1>1, <1>2, <1>3, <1>4

-----------------------------------------------------------------------------
(***************************************************************************)
(* What steps do to a child: it keeps its marks, goes, or is applied.      *)
(***************************************************************************)

\* A user may make a stamp's generation something that is no number.
Corrupted(s) == [s EXCEPT !.gen = -1]

KeepsMarks(a, b) ==
    /\ b.exists = a.exists /\ b.partOf = a.partOf
    /\ b.refs \intersect UIDs = a.refs \intersect UIDs
    /\ b.stamp \in {a.stamp, Corrupted(a.stamp)}
    /\ a.tuned => b.tuned

Kept(k) == Rewrites(k) /\ KeepsMarks(live[k], live'[k])
Gone(k) == Rewrites(k) /\ ~live'[k].exists /\ live'[k].refs = {} /\ live'[k].stamp = NoStamp
Renewed(k) ==
    /\ Rewrites(k)
    /\ live'[k].exists /\ live'[k].stamp = Stamp(k) /\ ~live'[k].drift
    /\ live'[k].tuned = Tuning(k)
    /\ live'[k].partOf = IF k \in CRDs THEN "platform" ELSE "me"
    /\ live'[k].refs = IF Owns(k) THEN (live[k].refs \ UIDs) \union {owner.uid}
                                  ELSE live[k].refs

LEMMA CorruptedFields ==
    ASSUME NEW s \in Stamps
    PROVE  /\ Corrupted(s) \in Stamps /\ Corrupted(s).gen = -1 /\ Corrupted(s).uid = s.uid
           /\ Corrupted(Corrupted(s)) = Corrupted(s)
           /\ Corrupted(s).version = s.version /\ Corrupted(s).type = s.type
<1>1. \A t \in Stamps : /\ Corrupted(t) \in Stamps /\ Corrupted(t).gen = -1
                        /\ Corrupted(t).uid = t.uid /\ Corrupted(t).version = t.version
                        /\ Corrupted(t).type = t.type
  BY DEF Corrupted, Stamps
<1> DEFINE t == Corrupted(s)
           u == Corrupted(t)
           F(r) == [gen |-> r.gen, uid |-> r.uid, version |-> r.version, type |-> r.type]
<1>2. t \in Stamps /\ u \in Stamps
  BY <1>1, Zenon
<1>3. F(t) = F(u)
  BY <1>1, <1>2, Zenon
<1> HIDE DEF t, u
<1>4. t = F(t) /\ u = F(u)
  BY <1>2 DEF Stamps
<1>5. t = u
  BY <1>3, <1>4, Zenon
<1> QED BY <1>1, <1>5, Zenon DEF t, u

LEMMA EditedFields ==
    ASSUME NEW o \in Kid, NEW e \in UserEdits
    PROVE  Edited(o, e) \in Kid /\ KeepsMarks(o, Edited(o, e))
<1>1. e \in {"drift", "tune", "release", "manage", "corrupt"}
  BY StandaloneDeployAssumption
<1>2. CASE e = "drift"
  <2> DEFINE d == [o EXCEPT !.drift = TRUE]
  <2>1. Edited(o, e) = d
    BY <1>2 DEF Edited
  <2>2. /\ d \in Kid /\ d.exists = o.exists /\ d.partOf = o.partOf /\ d.refs = o.refs
        /\ d.stamp = o.stamp /\ d.tuned = o.tuned
    BY DEF Kid
  <2> HIDE DEF d
  <2> QED BY <2>1, <2>2, Zenon DEF KeepsMarks
<1>3. CASE e = "tune"
  <2> DEFINE d == [o EXCEPT !.tuned = TRUE]
  <2>1. Edited(o, e) = d
    BY <1>3 DEF Edited
  <2>2. /\ d \in Kid /\ d.exists = o.exists /\ d.partOf = o.partOf /\ d.refs = o.refs
        /\ d.stamp = o.stamp /\ d.tuned
    BY DEF Kid
  <2> HIDE DEF d
  <2> QED BY <2>1, <2>2, Zenon DEF KeepsMarks
<1>4. CASE e \in {"release", "manage"}
  <2>0. PICK m \in {"true", "false"} : Edited(o, e) = [o EXCEPT !.managed = m]
    BY <1>4 DEF Edited
  <2> DEFINE d == [o EXCEPT !.managed = m]
  <2>1. Edited(o, e) = d
    BY <2>0
  <2>2. /\ d \in Kid /\ d.exists = o.exists /\ d.partOf = o.partOf /\ d.refs = o.refs
        /\ d.stamp = o.stamp /\ d.tuned = o.tuned
    BY DEF Kid
  <2> HIDE DEF d
  <2> QED BY <2>1, <2>2, Zenon DEF KeepsMarks
<1>5. CASE e = "corrupt"
  <2> DEFINE s == Corrupted(o.stamp)
             d == [o EXCEPT !.stamp = s]
  <2>1. Edited(o, e) = d
    BY <1>5 DEF Edited, Corrupted
  <2>2. s \in Stamps
    <3>1. o.stamp \in Stamps
      BY DEF Kid
    <3> QED BY <3>1, CorruptedFields
  <2> HIDE DEF s
  <2>3. /\ d \in Kid /\ d.exists = o.exists /\ d.partOf = o.partOf /\ d.refs = o.refs
        /\ d.stamp = s /\ d.tuned = o.tuned
    BY <2>2 DEF Kid
  <2> HIDE DEF d
  <2> QED BY <2>1, <2>3, Zenon DEF KeepsMarks, s
<1> QED BY <1>1, <1>2, <1>3, <1>4, <1>5

LEMMA KeptByWrite ==
    ASSUME live \in [Kids -> Kid], NEW k \in Kids, NEW o \in Kid,
           KeepsMarks(live[k], o), Write(k, o)
    PROVE  Kept(k)
<1>1. Rewrites(k) /\ Like(live'[k], o)
  BY WriteEffect
<1> QED BY <1>1, Zenon DEF Kept, KeepsMarks, Like

LEMMA EraseEffect ==
    ASSUME live \in [Kids -> Kid], NEW k \in Kids, Erase(k)
    PROVE  Gone(k)
<1> DEFINE o == [NoKid EXCEPT !.rv = live[k].rv]
<1>1. live[k].rv \in Nat
  <2>1. live[k] \in Kid
    OBVIOUS
  <2> QED BY <2>1 DEF Kid
<1>2. NoKid \in Kid
  BY BlankFields
<1>3. o \in Kid /\ Like(o, NoKid)
  BY <1>1, <1>2 DEF Kid, Like
<1>4. Write(k, o)
  BY DEF Erase
<1> HIDE DEF o
<1>5. Rewrites(k) /\ Like(live'[k], o)
  BY <1>3, <1>4, WriteEffect
<1> QED BY <1>3, <1>5, BlankFields, Zenon DEF Gone, Like

LEMMA DeleteEffect ==
    ASSUME live \in [Kids -> Kid], NEW k \in Kids, Delete(k)
    PROVE  Gone(k) \/ Kept(k)
<1>1. CASE Erase(k)
  BY <1>1, EraseEffect
<1>2. CASE Write(k, [live[k] EXCEPT !.deleting = TRUE])
  <2> DEFINE d == [live[k] EXCEPT !.deleting = TRUE]
  <2>1. live[k] \in Kid
    OBVIOUS
  <2>2. /\ d \in Kid /\ d.exists = live[k].exists /\ d.partOf = live[k].partOf
        /\ d.refs = live[k].refs /\ d.stamp = live[k].stamp /\ d.tuned = live[k].tuned
    BY <2>1 DEF Kid
  <2>3. Write(k, d)
    BY <1>2
  <2> HIDE DEF d
  <2>4. KeepsMarks(live[k], d)
    BY <2>2, Zenon DEF KeepsMarks
  <2> QED BY <2>2, <2>3, <2>4, KeptByWrite
<1> QED BY <1>1, <1>2 DEF Delete

LEMMA DisownEffect ==
    ASSUME BaseInv, NEW k, k = Min(todo), Disown
    PROVE  k \in Kids /\ Kept(k)
<1> DEFINE d == [live[k] EXCEPT !.refs = @ \ {LegacyOwner}]
<1>1. k \in Kids
  BY FirstIsMember DEF BaseInv, PassOK, Disown
<1>2. live \in [Kids -> Kid] /\ live[k] \in Kid
  BY <1>1 DEF BaseInv, KidsOK
<1>3. live[k].refs \in SUBSET (0 .. MaxUID)
  BY <1>2 DEF Kid
<1>4. /\ d \in Kid /\ d.exists = live[k].exists /\ d.partOf = live[k].partOf
      /\ d.refs = live[k].refs \ {LegacyOwner} /\ d.stamp = live[k].stamp
      /\ d.tuned = live[k].tuned
  BY <1>2, <1>3 DEF Kid
<1>5. Write(k, d)
  BY DEF Disown
<1> HIDE DEF d
<1>6. d.refs \intersect UIDs = live[k].refs \intersect UIDs
  BY <1>4, StandaloneDeployAssumption DEF LegacyOwner, UIDs
<1>7. KeepsMarks(live[k], d)
  BY <1>4, <1>6, Zenon DEF KeepsMarks
<1> QED BY <1>1, <1>2, <1>4, <1>5, <1>7, KeptByWrite

LEMMA StampFields ==
    ASSUME PassOK, NEW k
    PROVE  /\ Stamp(k) \in Stamps
           /\ k \notin CRDs => /\ Stamp(k) = StampFor(owner, ReleaseInfo[release])
                              /\ Stamp(k).uid = owner.uid /\ Stamp(k).gen = owner.gen
           /\ k \in CRDs => Stamp(k).gen = 0
           /\ owner.uid \in 1 .. MaxUID /\ owner.gen \in 1 .. MaxGen
<1>1. /\ owner.uid \in 1 .. MaxUID /\ owner.gen \in 1 .. MaxGen
      /\ release \in DOMAIN ReleaseInfo
  BY DEF PassOK, Instance, UIDs
<1>2. CASE k \in CRDs
  BY <1>1, <1>2, BlankFields DEF Stamp
<1>3. CASE k \notin CRDs
  <2>1. Stamp(k) = StampFor(owner, ReleaseInfo[release])
    BY <1>3 DEF Stamp
  <2>2. owner.uid \in Nat /\ owner.gen \in Int
    BY <1>1, StandaloneDeployAssumption
  <2>3. ReleaseInfo[release].version \in Versions /\ ReleaseInfo[release].type \in Types
    BY <1>1 DEF Versions, Types
  <2>4. /\ StampFor(owner, ReleaseInfo[release]) \in Stamps
        /\ StampFor(owner, ReleaseInfo[release]).uid = owner.uid
        /\ StampFor(owner, ReleaseInfo[release]).gen = owner.gen
    BY <2>2, <2>3 DEF StampFor, Stamps
  <2> QED BY <1>1, <1>3, <2>1, <2>4
<1> QED BY <1>2, <1>3

LEMMA AppliedFields ==
    ASSUME PassOK, KidsOK, NEW k \in Kids, NEW o \in Kid
    PROVE  LET d == Applied(k, o) IN
           /\ d \in Kid
           /\ d.exists /\ d.stamp = Stamp(k) /\ ~d.drift /\ d.tuned = Tuning(k)
           /\ d.partOf = IF k \in CRDs THEN "platform" ELSE "me"
           /\ d.refs = IF Owns(k) THEN (o.refs \ UIDs) \union {owner.uid} ELSE o.refs
<1> DEFINE s == Stamp(k)
           t == Tuning(k)
           p == IF k \in CRDs THEN "platform" ELSE "me"
           r == IF Owns(k) THEN (o.refs \ UIDs) \union {owner.uid} ELSE o.refs
           d1 == [o EXCEPT !.exists = TRUE]
           d2 == [d1 EXCEPT !.stamp = s]
           d3 == [d2 EXCEPT !.drift = FALSE]
           d4 == [d3 EXCEPT !.tuned = t]
           d5 == [d4 EXCEPT !.partOf = p]
           d6 == [d5 EXCEPT !.refs = r]
<1>1. s \in Stamps /\ owner.uid \in 1 .. MaxUID
  BY StampFields
<1>2. t \in BOOLEAN
  <2>1. cur.tuned \in BOOLEAN
    BY DEF KidsOK, Kid
  <2> QED BY <2>1, Zenon DEF Tuning
<1>3. p \in {"", "me", "platform"}
  OBVIOUS
<1>4. r \in SUBSET (0 .. MaxUID)
  <2>1. o.refs \in SUBSET (0 .. MaxUID)
    BY DEF Kid
  <2>2. owner.uid \in 0 .. MaxUID
    BY <1>1, StandaloneDeployAssumption
  <2> QED BY <2>1, <2>2
<1>5. Applied(k, o) = d6
  <2>0. Applied(k, o) = [o EXCEPT !.exists = TRUE, !.stamp = s, !.drift = FALSE, !.tuned = t,
                                  !.partOf = p, !.refs = r]
    BY DEF Applied
  <2> HIDE DEF s, t, p, r
  <2> QED BY <2>0 DEF Kid
<1> HIDE DEF s, t, p, r
<1>6. d1 \in Kid /\ d1.exists
  BY DEF Kid
<1> HIDE DEF d1
<1>7. d2 \in Kid /\ d2.exists /\ d2.stamp = s
  BY <1>1, <1>6 DEF Kid
<1> HIDE DEF d2
<1>8. d3 \in Kid /\ d3.exists /\ d3.stamp = s /\ ~d3.drift
  BY <1>7 DEF Kid
<1> HIDE DEF d3
<1>9. d4 \in Kid /\ d4.exists /\ d4.stamp = s /\ ~d4.drift /\ d4.tuned = t
  BY <1>2, <1>8 DEF Kid
<1> HIDE DEF d4
<1>10. /\ d5 \in Kid /\ d5.exists /\ d5.stamp = s /\ ~d5.drift /\ d5.tuned = t
       /\ d5.partOf = p
  BY <1>3, <1>9 DEF Kid
<1> HIDE DEF d5
<1>11. /\ d6 \in Kid /\ d6.exists /\ d6.stamp = s /\ ~d6.drift /\ d6.tuned = t
       /\ d6.partOf = p /\ d6.refs = r
  BY <1>4, <1>10 DEF Kid
<1> HIDE DEF d6
<1> QED BY <1>5, <1>11, Zenon DEF s, t, p, r

LEMMA ApplyEffect ==
    ASSUME BaseInv, NEW k, k = Min(todo), Apply
    PROVE  /\ k \in todo /\ k \in Kids
           /\ \/ k \in CreateOnly /\ live' = live /\ cache' = cache
              \/ Renewed(k) /\ cache' = CacheWith(k, live'[k])
<1>1. k \in todo /\ k \in Kids
  BY FirstIsMember DEF BaseInv, PassOK, Apply
<1>2. live \in [Kids -> Kid] /\ live[k] \in Kid
  BY <1>1 DEF BaseInv, KidsOK
<1>3. CASE k \in CreateOnly /\ live[k].exists
  BY <1>1, <1>3, Zenon DEF Apply
<1>4. CASE ~(k \in CreateOnly /\ live[k].exists)
  <2>1. Write(k, Applied(k, live[k])) /\ cache' = CacheWith(k, live'[k])
    BY <1>4, Zenon DEF Apply
  <2> DEFINE d == Applied(k, live[k])
  <2>2. /\ d \in Kid
        /\ d.exists /\ d.stamp = Stamp(k) /\ ~d.drift /\ d.tuned = Tuning(k)
        /\ d.partOf = IF k \in CRDs THEN "platform" ELSE "me"
        /\ d.refs = IF Owns(k) THEN (live[k].refs \ UIDs) \union {owner.uid}
                               ELSE live[k].refs
    BY <1>1, <1>2, AppliedFields, Zenon DEF BaseInv
  <2>3. Write(k, d)
    BY <2>1
  <2> HIDE DEF d
  <2>4. Rewrites(k) /\ Like(live'[k], d)
    BY <1>1, <1>2, <2>2, <2>3, WriteEffect
  <2>5. Renewed(k)
    BY <2>2, <2>4, Zenon DEF Renewed, Like
  <2> QED BY <1>1, <2>1, <2>5
<1> QED BY <1>3, <1>4

LEMMA EditKidEffect ==
    ASSUME BaseInv, NEW k \in Kids, EditKid(k)
    PROVE  Kept(k) \/ Gone(k)
<1>1. live \in [Kids -> Kid] /\ live[k] \in Kid
  BY DEF BaseInv, KidsOK
<1>2. CASE Delete(k)
  BY <1>1, <1>2, DeleteEffect
<1>3. ASSUME NEW e \in UserEdits, Write(k, Edited(live[k], e))
      PROVE  Kept(k)
  BY <1>1, <1>3, EditedFields, KeptByWrite
<1> QED BY <1>2, <1>3 DEF EditKid

LEMMA CollectEffect ==
    ASSUME BaseInv, NEW k, k = Min(todo), Collect
    PROVE  /\ k \in Kids
           /\ \/ live' = live /\ dirty' = dirty /\ ~live[k].exists
              \/ (Kept(k) \/ Gone(k)) /\ dirty' = TRUE
<1>1. k \in Kids
  BY FirstIsMember DEF BaseInv, PassOK, Collect
<1>2. live \in [Kids -> Kid] /\ live[k] \in Kid
  BY <1>1 DEF BaseInv, KidsOK
<1>3. CASE live[k].exists
  <2>1. Delete(k) /\ dirty' = TRUE
    BY <1>3, Zenon DEF Collect
  <2> QED BY <1>1, <1>2, <2>1, DeleteEffect
<1>4. CASE ~live[k].exists
  BY <1>1, <1>4, Zenon DEF Collect
<1> QED BY <1>3, <1>4

\* Every step that changes a child does one of three things to it.
LEMMA StepKinds ==
    ASSUME BaseInv, [Next]_vars, NEW n, n = Min(todo)
    PROVE  \/ live' = live
           \/ \E k \in Kids : Kept(k) \/ Gone(k)
           \/ Apply /\ n \in Kids /\ n \in todo /\ Renewed(n)
<1>1. CASE EditInstance \/ Restart \/ Expire \/ Fail \/ ApplyCRDNotFound
  BY <1>1 DEF EditInstance, Restart, Expire, Fail, ApplyCRDNotFound
<1>2. ASSUME NEW k \in Kids, EditKid(k) \/ Vanish(k)
      PROVE  Kept(k) \/ Gone(k)
  <2>1. CASE EditKid(k)
    BY <2>1, EditKidEffect
  <2>2. CASE Vanish(k)
    BY <2>2, EraseEffect DEF Vanish, BaseInv, KidsOK
  <2> QED BY <1>2, <2>1, <2>2
<1>3. CASE Begin \/ Lookup \/ EndDeploy \/ List \/ EndPass
  BY <1>3 DEF Begin, Lookup, EndDeploy, List, EndPass
<1>4. CASE Disown
  BY <1>4, DisownEffect
<1>5. CASE Apply
  BY <1>5, ApplyEffect
<1>6. CASE Collect
  BY <1>6, CollectEffect
<1>7. CASE UNCHANGED vars
  BY <1>7 DEF vars
<1> QED
  BY <1>1, <1>2, <1>3, <1>4, <1>5, <1>6, <1>7 DEF Next, Worker

-----------------------------------------------------------------------------
(***************************************************************************)
(* The base invariant.                                                     *)
(***************************************************************************)

LEMMA PassStep ==
    ASSUME PassOK, [Next]_vars
    PROVE  PassOK'
<1> USE StandaloneDeployAssumption DEF PassOK, Deploying, Collecting, Instance
<1>1. CASE EditInstance
  <2>1. inst' \in Instance
    <3>1. CASE inst.gen < MaxGen /\ inst' = [inst EXCEPT !.gen = @ + 1]
      BY <3>1
    <3>2. CASE inst.uid < MaxUID /\ inst' = [uid |-> inst.uid + 1, gen |-> 1]
      BY <3>2 DEF UIDs
    <3> QED BY <1>1, <3>1, <3>2 DEF EditInstance
  <2> QED BY <1>1, <2>1 DEF EditInstance, pass
<1>2. CASE \E k \in Kids : EditKid(k) \/ Vanish(k)
  BY <1>2 DEF EditKid, Vanish, pass
<1>3. CASE Restart
  BY <1>3 DEF Restart
<1>4. CASE Expire
  BY <1>4 DEF Expire, pass
<1>5. CASE Fail
  BY <1>5 DEF Fail, Abort
<1>6. CASE ApplyCRDNotFound
  BY <1>6 DEF ApplyCRDNotFound
<1>7. CASE Begin
  <2>1. inst.gen \in 1 .. MaxGen
    OBVIOUS
  <2>2. Rendered[inst.gen] \subseteq Kids
    BY <2>1
  <2> QED BY <1>7, <2>2 DEF Begin
<1>8. CASE Lookup
  BY <1>8 DEF Lookup
<1>9. CASE Disown
  BY <1>9 DEF Disown
<1>10. CASE Apply
  BY <1>10 DEF Apply
<1>11. CASE EndDeploy \/ EndPass
  BY <1>11 DEF EndDeploy, EndPass
<1>12. CASE List
  BY <1>12 DEF List, Abort
<1>13. CASE Collect
  BY <1>13 DEF Collect
<1>14. CASE UNCHANGED vars
  BY <1>14 DEF vars
<1> QED
  BY <1>1, <1>2, <1>3, <1>4, <1>5, <1>6, <1>7, <1>8, <1>9, <1>10, <1>11, <1>12, <1>13, <1>14
     DEF Next, Worker

LEMMA KidsStep ==
    ASSUME BaseInv, [Next]_vars
    PROVE  KidsOK'
<1>0. PICK n : n = Min(todo)
  OBVIOUS
<1>1. live \in [Kids -> Kid] /\ cur \in Kid
  BY DEF BaseInv, KidsOK
<1>2. live' \in [Kids -> Kid]
  BY <1>0, <1>1, StepKinds DEF Kept, Gone, Renewed, Rewrites
<1>3. todo # {} => n \in Kids
  BY <1>0, FirstIsMember DEF BaseInv, PassOK
<1>4. cur' \in {cur, NoKid, live[n], live'[n]}
  <2>1. CASE Begin \/ Lookup \/ Disown \/ List
    BY <1>0, <2>1 DEF Begin, Lookup, Disown, List
  <2>2. CASE ~(Begin \/ Lookup \/ Disown \/ List)
    BY <2>2 DEF Next, Worker, EditInstance, Restart, Expire, Fail, ApplyCRDNotFound, EditKid,
       Vanish, Apply, EndDeploy, Collect, EndPass, vars, pass
  <2> QED BY <2>1, <2>2
<1>5. CASE cur' \in {cur, NoKid}
  BY <1>1, <1>2, <1>5, BlankFields DEF KidsOK
<1>6. CASE n \in Kids
  BY <1>1, <1>2, <1>4, <1>6, BlankFields DEF KidsOK
<1>7. CASE todo = {}
  <2>1. cur' \in {cur, NoKid}
    <3>1. pc # "apply"
      BY <1>7 DEF BaseInv, PassOK
    <3> QED BY <1>7, <3>1 DEF Next, Worker, EditInstance, Restart, Expire, Fail, ApplyCRDNotFound,
         EditKid, Vanish, Apply, EndDeploy, Collect, EndPass, vars, pass, Begin, Lookup, Disown,
         List
  <2> QED BY <1>5, <2>1
<1> QED BY <1>3, <1>5, <1>6, <1>7

LEMMA KeptIsMarked ==
    ASSUME NEW k, NEW a \in Kid, NEW b \in Kid, KeepsMarks(a, b), MarkedOf(k, a)
    PROVE  MarkedOf(k, b)
<1>1. a.stamp \in Stamps /\ b.stamp \in {a.stamp, Corrupted(a.stamp)}
  BY DEF Kid, KeepsMarks
<1>2. b.stamp.uid = a.stamp.uid /\ b.stamp.gen \in {a.stamp.gen, -1}
  BY <1>1, CorruptedFields
<1>3. b.refs \intersect UIDs = a.refs \intersect UIDs /\ b.partOf = a.partOf
  BY DEF KeepsMarks
<1> QED BY <1>2, <1>3 DEF MarkedOf

LEMMA GoneIsMarked ==
    ASSUME NEW k, NEW b, b.refs = {}, b.stamp = NoStamp
    PROVE  MarkedOf(k, b)
BY BlankFields DEF MarkedOf

LEMMA RenewedIsMarked ==
    ASSUME BaseInv, NEW k \in todo, Apply, Renewed(k)
    PROVE  MarkedOf(k, live'[k])
<1>1. k \in Kids /\ k \in Rendered[owner.gen] /\ PassOK
  BY DEF BaseInv, PassOK, Apply, Deploying
<1>2. MarkedOf(k, live[k])
  BY <1>1 DEF BaseInv, MarksInv
<1>3. live'[k].stamp = Stamp(k)
  BY DEF Renewed
<1>4. k \in CreateOnly => live'[k].refs \intersect UIDs = {}
  BY <1>2 DEF Renewed, Owns, MarkedOf
<1>5. k \notin CRDs => live'[k].partOf = "me" /\ live'[k].stamp.uid # 0
  BY <1>1, <1>3, StampFields DEF Renewed
<1>6. ASSUME NEW g \in 1 .. MaxGen, live'[k].stamp.gen = g
      PROVE  k \in Rendered[g]
  BY <1>1, <1>3, <1>6, StampFields
<1> QED BY <1>4, <1>5, <1>6 DEF MarkedOf

LEMMA MarksStep ==
    ASSUME BaseInv, [Next]_vars, KidsOK'
    PROVE  MarksInv'
<1>0. PICK n : n = Min(todo)
  OBVIOUS
<1> SUFFICES ASSUME NEW k \in Kids
             PROVE  MarkedOf(k, live'[k])
  BY DEF MarksInv, MarkedOf
<1>1. MarkedOf(k, live[k]) /\ live[k] \in Kid /\ live'[k] \in Kid
  BY DEF BaseInv, MarksInv, KidsOK
<1>2. CASE live'[k] = live[k]
  BY <1>1, <1>2
<1>3. CASE Kept(k)
  BY <1>1, <1>3, KeptIsMarked DEF Kept
<1>4. CASE Gone(k)
  BY <1>4, GoneIsMarked DEF Gone
<1>5. CASE Apply /\ k \in todo /\ Renewed(k)
  BY <1>5, RenewedIsMarked
<1>6. \/ live'[k] = live[k] \/ Kept(k) \/ Gone(k) \/ (Apply /\ k \in todo /\ Renewed(k))
  <2>1. CASE live' = live
    BY <2>1
  <2>2. ASSUME NEW j \in Kids, Kept(j) \/ Gone(j)
        PROVE  live'[k] = live[k] \/ Kept(k) \/ Gone(k)
    BY <2>2 DEF Kept, Gone, Rewrites
  <2>3. CASE Apply /\ n \in Kids /\ n \in todo /\ Renewed(n)
    BY <2>3 DEF Renewed, Rewrites
  <2> QED BY <1>0, <2>1, <2>2, <2>3, StepKinds
<1> QED BY <1>2, <1>3, <1>4, <1>5, <1>6

\* What was true of a child's current version is not undone by a new one.
LEMMA HonestStays ==
    ASSUME NEW f, f[2] \in Nat, NEW a \in Kid, NEW b \in Kid, b = a \/ b.rv = a.rv + 1,
           Honest(f, a)
    PROVE  Honest(f, b)
<1>1. a.rv \in Nat
  BY DEF Kid
<1>2. CASE b = a
  BY <1>2
<1>3. CASE b.rv = a.rv + 1
  BY <1>1, <1>3 DEF Honest
<1> QED BY <1>2, <1>3

LEMMA RewriteStep ==
    ASSUME BaseInv, [Next]_vars, NEW k \in Kids
    PROVE  live'[k] = live[k] \/ live'[k].rv = live[k].rv + 1
<1>0. PICK n : n = Min(todo)
  OBVIOUS
<1>1. ASSUME NEW j, Rewrites(j)
      PROVE  live'[k] = live[k] \/ live'[k].rv = live[k].rv + 1
  BY <1>1 DEF Rewrites
<1> QED BY <1>0, <1>1, StepKinds DEF Kept, Gone, Renewed

\* An apply is remembered as it was.
LEMMA RenewedIsHonest ==
    ASSUME BaseInv, KidsOK', NEW k \in Kids, k = Min(todo), Apply, Renewed(k)
    PROVE  LET f == Fingerprint(k, live'[k])
           IN  f \in Kids \X Nat \X Stamps /\ f[1] = k /\ Honest(f, live'[k])
<1> DEFINE o == live'[k]
           f == Fingerprint(k, o)
<1>1. o \in Kid /\ o.rv \in Nat
  <2>1. o \in Kid
    BY DEF KidsOK
  <2> QED BY <2>1 DEF Kid
<1>2. Stamp(k) \in Stamps /\ o.stamp = Stamp(k) /\ ~o.drift
  BY StampFields DEF BaseInv, Renewed
<1>3. ASSUME Owns(k)
      PROVE  o.refs = {Stamp(k).uid}
  <2>1. o.refs = (live[k].refs \ UIDs) \union {owner.uid}
    BY <1>3 DEF Renewed
  <2>2. LegacyOwner \notin live[k].refs
    BY <1>3 DEF Apply
  <2>3. live[k].refs \in SUBSET (0 .. MaxUID)
    <3>1. live[k] \in Kid
      BY DEF BaseInv, KidsOK
    <3> QED BY <3>1 DEF Kid
  <2>4. live[k].refs \subseteq UIDs
    BY <2>2, <2>3, StandaloneDeployAssumption DEF LegacyOwner, UIDs
  <2>5. Stamp(k).uid = owner.uid
    BY <1>3, StampFields DEF Owns, BaseInv
  <2> QED BY <2>1, <2>4, <2>5
<1>4. f = <<k, o.rv, Stamp(k)>>
  BY DEF Fingerprint
<1> HIDE DEF o, f
<1>5. f[1] = k /\ f[2] = o.rv /\ f[3] = Stamp(k) /\ f \in Kids \X Nat \X Stamps
  BY <1>1, <1>2, <1>4
<1>6. Honest(f, o)
  BY <1>1, <1>2, <1>3, <1>5 DEF Honest
<1> QED BY <1>5, <1>6 DEF o, f

LEMMA CacheStep ==
    ASSUME BaseInv, [Next]_vars, KidsOK'
    PROVE  CacheInv'
<1>0. PICK n : n = Min(todo)
  OBVIOUS
<1>1. \/ cache' \subseteq cache
      \/ Apply /\ n \in Kids /\ Renewed(n) /\ cache' = CacheWith(n, live'[n])
  <2>1. CASE EditInstance \/ Restart \/ Expire \/ Fail \/ ApplyCRDNotFound
    BY <2>1 DEF EditInstance, Restart, Expire, Fail, ApplyCRDNotFound
  <2>2. CASE \E k \in Kids : EditKid(k) \/ Vanish(k)
    BY <2>2 DEF EditKid, Vanish
  <2>3. CASE Begin \/ Disown \/ EndDeploy \/ List \/ EndPass \/ Collect
    BY <2>3 DEF Begin, Disown, EndDeploy, List, EndPass, Collect
  <2>4. CASE Lookup
    BY <2>4 DEF Lookup, CacheWithout
  <2>5. CASE Apply
    BY <1>0, <2>5, ApplyEffect
  <2>6. CASE UNCHANGED vars
    BY <2>6 DEF vars
  <2> QED
    BY <2>1, <2>2, <2>3, <2>4, <2>5, <2>6 DEF Next, Worker
<1>2. ASSUME NEW f \in cache
      PROVE  f \in Kids \X Nat \X Stamps /\ Honest(f, live'[f[1]])
  <2>1. f \in Kids \X Nat \X Stamps /\ Honest(f, live[f[1]])
    BY DEF BaseInv, CacheInv
  <2>2. PICK k \in Kids : k = f[1]
    BY <2>1
  <2>3. live[k] \in Kid /\ live'[k] \in Kid /\ f[2] \in Nat
    BY <2>1 DEF BaseInv, KidsOK
  <2>4. live'[k] = live[k] \/ live'[k].rv = live[k].rv + 1
    BY RewriteStep
  <2>5. Honest(f, live'[k])
    BY <2>1, <2>2, <2>3, <2>4, HonestStays
  <2> QED BY <2>1, <2>2, <2>5
<1>3. ASSUME NEW f \in cache'
      PROVE  f \in Kids \X Nat \X Stamps /\ Honest(f, live'[f[1]])
  <2>1. CASE f \in cache
    BY <1>2, <2>1
  <2>2. CASE f \notin cache
    <3>1. Apply /\ n \in Kids /\ Renewed(n) /\ f = Fingerprint(n, live'[n])
      BY <1>1, <2>2 DEF CacheWith
    <3> QED BY <1>0, <3>1, RenewedIsHonest
  <2> QED BY <2>1, <2>2
<1> QED BY <1>3 DEF CacheInv, Honest, Owns

LEMMA CopyStays ==
    ASSUME cur \in Kid, NEW a \in Kid, NEW b \in Kid, b = a \/ b.rv = a.rv + 1, CopyOf(a)
    PROVE  CopyOf(b)
<1>1. a.rv \in Nat /\ cur.rv \in Nat
  BY DEF Kid
<1> QED BY <1>1 DEF CopyOf

LEMMA CopyStep ==
    ASSUME BaseInv, [Next]_vars, KidsOK'
    PROVE  CopyInv'
<1> SUFFICES ASSUME pc' = "apply"
             PROVE  CopyOf(live[Min(todo)])'
  BY DEF CopyInv
<1>0. PICK n : n = Min(todo)
  OBVIOUS
<1>1. todo' = todo /\ todo # {} /\ n \in Kids
  <2>1. todo' = todo /\ todo # {}
    BY DEF BaseInv, PassOK, Next, Worker, EditInstance, Restart, Expire, Fail, Abort,
       ApplyCRDNotFound, EditKid, Vanish, Apply, EndDeploy, Collect, EndPass, vars, pass, Begin,
       Lookup, Disown, List
  <2> QED BY <1>0, <2>1, FirstIsMember DEF BaseInv, PassOK
<1>2. live[n] \in Kid /\ live'[n] \in Kid /\ cur \in Kid
  BY <1>1 DEF BaseInv, KidsOK
<1>3. \/ cur' = live'[n] \/ (cur' = cur /\ pc = "apply")
  <2>1. CASE Lookup \/ Disown
    BY <1>0, <2>1 DEF Lookup, Disown
  <2>2. CASE ~(Lookup \/ Disown)
    BY <2>2 DEF Next, Worker, EditInstance, Restart, Expire, Fail, Abort, ApplyCRDNotFound,
       EditKid, Vanish, Apply, EndDeploy, Collect, EndPass, vars, pass, Begin, List
  <2> QED BY <2>1, <2>2
<1>4. CopyOf(live[n])'
  <2>1. CASE cur' = live'[n]
    <3>1. live'[n].rv \in Nat
      BY <1>2 DEF Kid
    <3> QED BY <2>1, <3>1 DEF CopyOf
  <2>2. CASE cur' = cur /\ pc = "apply"
    <3>1. CopyOf(live[n])
      BY <1>0, <2>2 DEF BaseInv, CopyInv
    <3>2. CopyOf(live'[n])
      BY <1>1, <1>2, <3>1, RewriteStep, CopyStays
    <3> QED BY <2>2, <3>2 DEF CopyOf
  <2> QED BY <1>3, <2>1, <2>2
<1> QED BY <1>0, <1>1, <1>4

LEMMA BaseInitially == Init => BaseInv
<1> SUFFICES ASSUME Init
             PROVE  BaseInv
  OBVIOUS
<1> USE StandaloneDeployAssumption
<1>1. PassOK
  BY DEF Init, PassOK, Instance, UIDs, Deploying, Collecting
<1> DEFINE adopted == [NoKid EXCEPT !.exists = TRUE, !.rv = 1, !.refs = {LegacyOwner}]
<1>2. adopted \in Kid /\ adopted.refs = {LegacyOwner} /\ adopted.stamp = NoStamp
  <2>1. {LegacyOwner} \in SUBSET (0 .. MaxUID)
    BY DEF LegacyOwner
  <2>2. NoKid \in Kid /\ NoKid.stamp = NoStamp
    BY BlankFields
  <2> QED BY <2>1, <2>2 DEF Kid
<1>3. live = [k \in Kids |-> IF k \in Legacy THEN adopted ELSE NoKid] /\ cur = NoKid
  BY DEF Init
<1> HIDE DEF adopted
<1>4. KidsOK
  BY <1>2, <1>3, BlankFields DEF KidsOK
<1>5. ASSUME NEW k \in Kids
      PROVE  MarkedOf(k, live[k])
  <2>1. live[k].stamp = NoStamp /\ live[k].refs \in {{}, {LegacyOwner}}
    BY <1>2, <1>3, BlankFields
  <2>2. live[k].refs \intersect UIDs = {}
    BY <2>1 DEF LegacyOwner, UIDs
  <2> QED BY <2>1, <2>2, BlankFields DEF MarkedOf
<1> QED BY <1>1, <1>4, <1>5 DEF BaseInv, MarksInv, CacheInv, CopyInv, Init

LEMMA BaseStep ==
    ASSUME BaseInv, [Next]_vars
    PROVE  BaseInv'
<1>1. PassOK'
  BY PassStep DEF BaseInv
<1>2. KidsOK'
  BY KidsStep
<1> QED BY <1>1, <1>2, MarksStep, CacheStep, CopyStep DEF BaseInv

THEOREM BaseInvariant == Spec => []BaseInv
<1>1. BaseInv /\ [Next]_vars => BaseInv'
  BY BaseStep
<1> QED BY <1>1, BaseInitially, PTL DEF Spec

-----------------------------------------------------------------------------
(***************************************************************************)
(* Tuning.                                                                 *)
(***************************************************************************)

LEMMA TuningStep ==
    ASSUME BaseInv, [Next]_vars, NEW k \in Merged \intersect Kids,
           live[k].tuned, live[k].exists, live'[k].exists, ~live'[k].tuned
    PROVE  live[k].managed = "true" \/ cur.rv # live[k].rv
<1>0. PICK n : n = Min(todo)
  OBVIOUS
<1>1. live' # live
  OBVIOUS
<1>2. ASSUME NEW j \in Kids
      PROVE  ~Kept(j) /\ ~Gone(j)
  <2>1. j # k => ~Rewrites(j)
    BY DEF Rewrites
  <2>2. j = k => ~Kept(j) /\ ~Gone(j)
    BY Zenon DEF Kept, KeepsMarks, Gone
  <2> QED BY <2>1, <2>2 DEF Kept, Gone
<1>3. Apply /\ n \in Kids /\ Renewed(n)
  BY <1>0, <1>1, <1>2, StepKinds
<1>4. n = k
  BY <1>3 DEF Renewed, Rewrites
<1>5. ~Tuning(k)
  BY <1>3, <1>4, Zenon DEF Renewed
<1>6. CopyOf(live[k])
  BY <1>0, <1>3, <1>4 DEF BaseInv, CopyInv, Apply
<1> QED BY <1>5, <1>6, Zenon DEF CopyOf, Tuning

\* Whatever users and failures do: tuning of a child that has a merge strategy
\* is lost only to a copy that is no longer current, or if the child says it
\* is managed (deploy.go:671).
THEOREM OnlyRacesLoseTuning == Spec => TuningIsLostOnlyInRaces
<1> DEFINE A == \A k \in Merged \intersect Kids :
                   /\ live[k].tuned /\ live[k].exists
                   /\ live'[k].exists /\ ~live'[k].tuned
                   => live[k].managed = "true" \/ cur.rv # live[k].rv
<1>1. BaseInv /\ [Next]_vars => [A]_vars
  BY TuningStep
<1> QED BY <1>1, BaseInvariant, PTL DEF Spec, TuningIsLostOnlyInRaces

-----------------------------------------------------------------------------
(***************************************************************************)
(* The collector spares what was rendered.                                 *)
(***************************************************************************)

\* Releases have a type and a version, which StandaloneSample shows to be
\* needed; and what is only created, and never stamped again, is safe because
\* it has no owner.
Identified ==
    /\ \A r \in DOMAIN ReleaseInfo : "" \notin {ReleaseInfo[r].version, ReleaseInfo[r].type}
    /\ OnlyOwned \/ CreateOnly = {}

PassStamp == StampFor(owner, ReleaseInfo[release])

\* The collector does not delete o: it does not list or own it, or the stamp
\* is the pass's own, or not a number.
Spared(k, o) ==
    \/ k \in CRDs \union CreateOnly
    \/ ~o.exists
    \/ o.stamp \in {PassStamp, Corrupted(PassStamp)}

SpareInv ==
    /\ Deploying => \A k \in Rendered[owner.gen] \ (todo \union skipped) : Spared(k, live[k])
    /\ Collecting => \A k \in Rendered[owner.gen] \ skipped : Spared(k, live[k])
    /\ pc = "delete" => Min(todo) \notin Rendered[owner.gen] \ skipped

LEMMA PassStampFields ==
    ASSUME PassOK
    PROVE  /\ PassStamp \in Stamps
           /\ PassStamp.gen = owner.gen /\ PassStamp.uid = owner.uid
           /\ PassStamp.version = ReleaseInfo[release].version
           /\ PassStamp.type = ReleaseInfo[release].type
           /\ owner.uid \in 1 .. MaxUID /\ owner.gen \in 1 .. MaxGen
           /\ release \in DOMAIN ReleaseInfo
<1>1. /\ owner.uid \in 1 .. MaxUID /\ owner.gen \in 1 .. MaxGen
      /\ release \in DOMAIN ReleaseInfo
  BY DEF PassOK, Instance, UIDs
<1>2. owner.uid \in Nat /\ owner.gen \in Int
  BY <1>1, StandaloneDeployAssumption
<1>3. ReleaseInfo[release].version \in Versions /\ ReleaseInfo[release].type \in Types
  BY <1>1 DEF Versions, Types
<1> QED BY <1>1, <1>2, <1>3 DEF PassStamp, StampFor, Stamps

\* No step of anyone takes the stamp of a child that the pass is done with.
LEMMA SparedStays ==
    ASSUME BaseInv, [Next]_vars, NEW k \in Kids, Spared(k, live[k])
    PROVE  Spared(k, live'[k])
<1>0. PICK n : n = Min(todo)
  OBVIOUS
<1>1. PassStamp \in Stamps
  BY PassStampFields DEF BaseInv
<1>2. CASE live'[k] = live[k]
  BY <1>2
<1>3. CASE Kept(k)
  <2>1. live'[k].exists = live[k].exists
        /\ live'[k].stamp \in {live[k].stamp, Corrupted(live[k].stamp)}
    BY <1>3 DEF Kept, KeepsMarks
  <2> QED BY <1>1, <2>1, CorruptedFields DEF Spared
<1>4. CASE Gone(k)
  BY <1>4 DEF Gone, Spared
<1>5. CASE Renewed(k)
  <2>1. live'[k].stamp = Stamp(k)
    BY <1>5 DEF Renewed
  <2>2. k \notin CRDs => Stamp(k) = PassStamp
    BY DEF Stamp, PassStamp
  <2> QED BY <2>1, <2>2 DEF Spared
<1>6. live'[k] = live[k] \/ Kept(k) \/ Gone(k) \/ Renewed(k)
  <2>1. CASE live' = live
    BY <2>1
  <2>2. ASSUME NEW j \in Kids, Kept(j) \/ Gone(j)
        PROVE  live'[k] = live[k] \/ Kept(k) \/ Gone(k)
    BY <2>2 DEF Kept, Gone, Rewrites
  <2>3. CASE n \in Kids /\ Renewed(n)
    BY <2>3 DEF Renewed, Rewrites
  <2> QED BY <1>0, <2>1, <2>2, <2>3, StepKinds
<1> QED BY <1>2, <1>3, <1>4, <1>5, <1>6

\* What the cache knows the current version of has been stamped as the pass
\* would stamp it.
LEMMA CachedIsApplied ==
    ASSUME BaseInv, NEW k \in Kids, CacheHas(k, live[k])
    PROVE  /\ live[k].exists /\ live[k].stamp = Stamp(k) /\ ~live[k].drift
           /\ Owns(k) => live[k].refs = {Stamp(k).uid}
<1> DEFINE f == Fingerprint(k, live[k])
<1>1. f \in cache /\ live[k].exists
  BY DEF CacheHas
<1>2. Honest(f, live[f[1]])
  BY <1>1 DEF BaseInv, CacheInv
<1>3. f[1] = k /\ f[2] = live[k].rv /\ f[3] = Stamp(k)
  BY DEF Fingerprint
<1> HIDE DEF f
<1> QED BY <1>1, <1>2, <1>3 DEF Honest

\* The predicate keeps what carries the stamp of the pass, or fails on it.
LEMMA StampedIsKept ==
    ASSUME PassOK, Identified, NEW s \in {PassStamp, Corrupted(PassStamp)}, NEW annotated
    PROVE  DefaultObjectPredicate(s, annotated, owner, ReleaseInfo[release]) # "delete"
<1> DEFINE rel == ReleaseInfo[release]
<1>1. /\ PassStamp \in Stamps
      /\ PassStamp.gen = owner.gen /\ PassStamp.uid = owner.uid
      /\ PassStamp.version = rel.version /\ PassStamp.type = rel.type
      /\ owner.uid \in 1 .. MaxUID /\ owner.gen \in 1 .. MaxGen
      /\ release \in DOMAIN ReleaseInfo
  BY PassStampFields
<1>2. "" \notin {rel.version, rel.type}
  BY <1>1, Zenon DEF Identified
<1> HIDE DEF rel
<1>3. s.uid = owner.uid /\ s.version = rel.version /\ s.type = rel.type
      /\ s.gen \in {owner.gen, -1}
  BY <1>1, CorruptedFields
<1>4. "" \notin {s.version, s.type}
  BY <1>2, <1>3, Zenon
<1>5. 0 \notin {s.gen, s.uid} /\ (s.gen < 0 \/ s.gen = owner.gen)
  BY <1>1, <1>3
<1>6. \/ DefaultObjectPredicate(s, annotated, owner, rel) = "keep"
      \/ DefaultObjectPredicate(s, annotated, owner, rel) = "error"
  BY <1>3, <1>4, <1>5, Zenon DEF DefaultObjectPredicate
<1>7. "keep" # "delete" /\ "error" # "delete"
  OBVIOUS
<1> QED BY <1>6, <1>7, Zenon DEF rel

\* The verdict on a child of the list.
Verdict(k) ==
    IF ~Listed(k) THEN "keep"
    ELSE IsObjectDeletable(live[k], live[k].refs \intersect UIDs # {}, OnlyOwned, owner,
                           ReleaseInfo[release])

LEMMA SparedIsKept ==
    ASSUME BaseInv, Identified, NEW k \in Kids, Spared(k, live[k])
    PROVE  Verdict(k) # "delete"
<1>1. CASE ~Listed(k)
  BY <1>1 DEF Verdict
<1>2. CASE k \in CreateOnly
  <2>1. live[k].refs \intersect UIDs = {}
    BY <1>2 DEF BaseInv, MarksInv, MarkedOf
  <2>2. OnlyOwned
    BY <1>2 DEF Identified
  <2>3. Verdict(k) = "keep"
    BY <2>1, <2>2, Zenon DEF Verdict, IsObjectDeletable
  <2> QED BY <2>3
<1>3. CASE live[k].stamp \in {PassStamp, Corrupted(PassStamp)}
  <2>1. DefaultObjectPredicate(live[k].stamp, live[k].stamp # NoStamp, owner,
                               ReleaseInfo[release]) # "delete"
    BY <1>3, StampedIsKept DEF BaseInv
  <2>2. "keep" # "delete"
    OBVIOUS
  <2> QED BY <2>1, <2>2, Zenon DEF Verdict, IsObjectDeletable
<1> QED BY <1>1, <1>2, <1>3 DEF Spared, Listed

\* What a listing does, in terms of the verdict.
LEMMA ListEffect ==
    ASSUME NEW k, k = Min(todo), List
    PROVE  /\ UNCHANGED <<inst, release, live, owner, skipped>>
           /\ \/ pc' = "idle" /\ dirty' = TRUE
              \/ /\ pc' = "delete" /\ todo' = todo /\ dirty' = dirty
                 /\ Verdict(k) = "delete" /\ ~live[k].deleting
              \/ /\ pc' = "list" /\ todo' = todo \ {k} /\ dirty' = dirty
                 /\ Verdict(k) # "error" /\ (Verdict(k) = "delete" => live[k].deleting)
<1> DEFINE v == Verdict(k)
<1>1. /\ CASE v = "error" -> Abort /\ UNCHANGED todo
           [] v = "delete" /\ ~live[k].deleting -> pc' = "delete" /\ UNCHANGED <<todo, dirty>>
           [] OTHER -> todo' = todo \ {k} /\ UNCHANGED <<pc, dirty>>
  BY DEF List, Verdict
<1>2. UNCHANGED <<inst, release, live, owner, skipped>> /\ pc = "list"
  BY DEF List
<1> HIDE DEF v
<1>3. \/ v = "error" /\ Abort
      \/ v = "delete" /\ ~live[k].deleting /\ pc' = "delete" /\ UNCHANGED <<todo, dirty>>
      \/ /\ v # "error" /\ ~(v = "delete" /\ ~live[k].deleting)
         /\ todo' = todo \ {k} /\ UNCHANGED <<pc, dirty>>
  BY <1>1
<1> QED BY <1>2, <1>3, Zenon DEF Abort, v

LEMMA SpareStep ==
    ASSUME BaseInv, Identified, SpareInv, [Next]_vars
    PROVE  SpareInv'
<1>0. PICK n : n = Min(todo)
  OBVIOUS
<1> DEFINE Done == IF Deploying THEN Rendered[owner.gen] \ (todo \union skipped)
                   ELSE IF Collecting THEN Rendered[owner.gen] \ skipped ELSE {}
<1>1. \A k \in Done : Spared(k, live[k])
  BY DEF SpareInv
<1>2. owner.gen \in 1 .. MaxGen /\ Rendered[owner.gen] \subseteq Kids
  BY PassStampFields, StandaloneDeployAssumption DEF BaseInv
<1>3. Done \subseteq Kids
  BY <1>2
<1> USE DEF Deploying, Collecting
<1>4. ASSUME UNCHANGED <<owner, release>>, Done' \subseteq Done,
             pc' = "delete" => pc = "delete" /\ UNCHANGED <<todo, skipped>>
      PROVE  SpareInv'
  <2>1. ASSUME NEW k \in Done'
        PROVE  Spared(k, live[k])'
    <3>1. Spared(k, live'[k])
      BY <1>1, <1>3, <1>4, SparedStays
    <3> QED BY <1>4, <3>1 DEF Spared, PassStamp
  <2>2. (pc = "delete" => Min(todo) \notin Rendered[owner.gen] \ skipped)'
    BY <1>4 DEF SpareInv
  <2>3. (Deploying => \A k \in Rendered[owner.gen] \ (todo \union skipped) : Spared(k, live[k]))'
    BY <2>1
  <2>4. (Collecting => \A k \in Rendered[owner.gen] \ skipped : Spared(k, live[k]))'
    BY <2>1
  <2> QED BY <2>2, <2>3, <2>4 DEF SpareInv
\* One more child is done with.
<1>5. ASSUME UNCHANGED <<owner, release>>, NEW k \in Kids, Done' \subseteq Done \union {k},
             pc' \in {"deploy", "list"}, Spared(k, live'[k])
      PROVE  SpareInv'
  <2>1. ASSUME NEW j \in Done'
        PROVE  Spared(j, live[j])'
    <3>1. Spared(j, live'[j])
      BY <1>1, <1>3, <1>5, SparedStays
    <3> QED BY <1>5, <3>1 DEF Spared, PassStamp
  <2>2. (Deploying => \A j \in Rendered[owner.gen] \ (todo \union skipped) : Spared(j, live[j]))'
    BY <2>1
  <2>3. (Collecting => \A j \in Rendered[owner.gen] \ skipped : Spared(j, live[j]))'
    BY <2>1
  <2> QED BY <1>5, <2>2, <2>3 DEF SpareInv
<1>6. CASE pc' = "idle"
  BY <1>6 DEF SpareInv
<1>7. CASE EditInstance \/ (\E k \in Kids : EditKid(k) \/ Vanish(k)) \/ UNCHANGED vars \/ Expire
  BY <1>4, <1>7 DEF EditInstance, EditKid, Vanish, Expire, vars, pass
<1>8. CASE Restart \/ Fail \/ EndPass
  BY <1>6, <1>8 DEF Restart, Fail, Abort, EndPass
<1>9. CASE ApplyCRDNotFound
  <2>1. n \in CRDs /\ n \in Kids
    BY <1>0, <1>9, StandaloneDeployAssumption DEF ApplyCRDNotFound
  <2>2. Spared(n, live'[n])
    BY <2>1 DEF Spared
  <2> QED BY <1>0, <1>5, <1>9, <2>1, <2>2 DEF ApplyCRDNotFound
<1>10. CASE Begin
  BY <1>10 DEF Begin, SpareInv
<1>11. CASE Lookup
  <2>1. n \in Kids
    BY <1>0, <1>11, FirstIsMember DEF Lookup, BaseInv, PassOK
  <2>2. CASE LeftAlone(live[n])
    <3>1. skipped' = skipped \union {n} /\ todo' = todo \ {n} /\ pc' = pc /\ pc = "deploy"
      BY <1>0, <1>11, <2>2 DEF Lookup
    <3> QED BY <1>4, <1>11, <3>1 DEF Lookup
  <2>3. CASE ~LeftAlone(live[n]) /\ CacheHas(n, live[n])
    <3>1. skipped' = skipped /\ todo' = todo \ {n} /\ pc' = "deploy"
      BY <1>0, <1>11, <2>3 DEF Lookup
    <3>2. live[n].stamp = Stamp(n)
      BY <2>1, <2>3, CachedIsApplied
    <3>3. Spared(n, live[n])
      BY <3>2 DEF Spared, Stamp, PassStamp
    <3>4. live' = live
      BY <1>11 DEF Lookup
    <3> QED BY <1>5, <1>11, <2>1, <3>1, <3>3, <3>4 DEF Lookup
  <2>4. CASE ~LeftAlone(live[n]) /\ ~CacheHas(n, live[n])
    <3>1. skipped' = skipped /\ todo' = todo /\ pc' = "apply"
      BY <1>0, <1>11, <2>4 DEF Lookup
    <3> QED BY <1>4, <1>11, <3>1 DEF Lookup
  <2> QED BY <2>2, <2>3, <2>4
<1>12. CASE Disown
  BY <1>4, <1>12 DEF Disown
<1>13. CASE Apply
  <2>1. n \in Kids /\ (n \in CreateOnly \/ Renewed(n))
    BY <1>0, <1>13, ApplyEffect
  <2>2. Spared(n, live'[n])
    BY <2>1 DEF Spared, Renewed, Stamp, PassStamp
  <2>3. UNCHANGED <<owner, release, skipped>> /\ todo' = todo \ {n} /\ pc' = "deploy"
        /\ pc = "apply"
    BY <1>0, <1>13 DEF Apply
  <2> QED BY <1>5, <2>1, <2>2, <2>3
<1>14. CASE EndDeploy
  BY <1>4, <1>14 DEF EndDeploy
<1>15. CASE List
  <2>0. UNCHANGED <<owner, release, skipped>> /\ pc = "list" /\ todo # {}
    BY <1>15 DEF List
  <2>1. CASE pc' = "list"
    BY <1>4, <2>0, <2>1
  <2>2. CASE pc' = "delete" /\ todo' = todo /\ Verdict(n) = "delete"
    <3>1. n \in Kids
      BY <1>0, <2>0, FirstIsMember DEF BaseInv, PassOK
    <3>2. ~Spared(n, live[n])
      BY <2>2, <3>1, SparedIsKept
    <3>3. n \notin Rendered[owner.gen] \ skipped
      BY <2>0, <3>2 DEF SpareInv
    <3>4. (pc = "delete" => Min(todo) \notin Rendered[owner.gen] \ skipped)'
      BY <1>0, <2>0, <2>2, <3>3
    <3>5. \A k \in Rendered[owner.gen] \ skipped : Spared(k, live[k])
      BY <2>0 DEF SpareInv
    <3>6. (\A k \in Rendered[owner.gen] \ skipped : Spared(k, live[k]))'
      BY <1>2, <2>0, <3>5, SparedStays DEF Spared, PassStamp
    <3> QED BY <2>2, <3>4, <3>6 DEF SpareInv
  <2> QED BY <1>0, <1>6, <1>15, <2>1, <2>2, ListEffect
<1>16. CASE Collect
  BY <1>4, <1>16 DEF Collect
<1> QED
  BY <1>7, <1>8, <1>9, <1>10, <1>11, <1>12, <1>13, <1>14, <1>15, <1>16 DEF Next, Worker

\* If releases have a type and a version: whatever users do to children and to
\* the instance, however passes fail and upgrades interrupt them, and with or
\* without the deploy cache, the collector deletes nothing the pass has
\* rendered and deploy has not skipped (predicates.go:33, cache.go:141).
THEOREM RenderedIsSpared == Identified => (Spec => SparesTheRendered)
<1> SUFFICES ASSUME Identified
             PROVE  Spec => SparesTheRendered
  OBVIOUS
<1> DEFINE A == pc = "delete" /\ live' # live
                  => Min(todo) \notin Rendered[owner.gen] \ skipped
<1>1. Init => SpareInv
  BY DEF Init, SpareInv, Deploying, Collecting
<1>2. BaseInv /\ SpareInv /\ [Next]_vars => SpareInv'
  BY SpareStep
<1>3. SpareInv /\ [Next]_vars => [A]_vars
  BY DEF SpareInv
<1> QED BY <1>1, <1>2, <1>3, BaseInvariant, PTL DEF Spec, SparesTheRendered

-----------------------------------------------------------------------------
(***************************************************************************)
(* A controller at rest has settled its children.                          *)
(***************************************************************************)

Exempt(k) == k \in CreateOnly \union CRDs \/ LeftAlone(live[k])

AsRendered(k) ==
    \/ Exempt(k)
    \/ /\ live[k].exists /\ ~live[k].drift
       /\ Owns(k) => /\ live[k].refs = {inst.uid}
                     /\ live[k].stamp = StampFor(inst, ReleaseInfo[release])

NotOurs(k) == Exempt(k) \/ (live[k].exists => live[k].refs \intersect UIDs = {})

\* The children that the pass has deployed, and those it has tried to collect.
Deployed ==
    CASE Deploying -> Rendered[inst.gen] \ todo
      [] OTHER -> Rendered[inst.gen]
Scanned ==
    CASE Deploying -> {}
      [] Collecting -> Kids \ (Rendered[inst.gen] \union todo)
      [] OTHER -> Kids \ Rendered[inst.gen]

\* As long as nothing has happened since the pass began, it is for the current
\* instance, and what it is done with is as it should be.
SettleInv ==
    ~dirty => /\ owner = inst
              /\ \A k \in Deployed : AsRendered(k)
              /\ \A k \in Scanned : NotOurs(k)

\* What the pass has just applied, or knows from the cache, is as rendered.
LEMMA AppliedIsAsRendered ==
    ASSUME BaseInv, owner = inst, NEW k \in Kids, live[k].exists, live[k].stamp = Stamp(k),
           ~live[k].drift, Owns(k) => live[k].refs = {Stamp(k).uid}
    PROVE  AsRendered(k)
<1>1. Owns(k) => /\ Stamp(k) = StampFor(inst, ReleaseInfo[release])
                 /\ Stamp(k).uid = inst.uid
  BY StampFields DEF Owns, BaseInv
<1> QED BY <1>1 DEF AsRendered

\* A child that is not rendered and that the collector keeps is not ours.
LEMMA KeptIsNotOurs ==
    ASSUME BaseInv, NEW k \in Kids, k \notin Rendered[owner.gen],
           Verdict(k) # "error", Verdict(k) = "delete" => live[k].deleting
    PROVE  NotOurs(k)
<1>1. MarkedOf(k, live[k]) /\ live[k] \in Kid
  BY DEF BaseInv, MarksInv, KidsOK
<1>2. owner.gen \in 1 .. MaxGen
  BY PassStampFields DEF BaseInv
<1>3. CASE k \in CRDs \/ ~live[k].exists \/ live[k].refs \intersect UIDs = {}
  BY <1>3 DEF NotOurs, Exempt
<1>4. CASE k \notin CRDs /\ live[k].exists /\ live[k].refs \intersect UIDs # {}
  <2>1. live[k].partOf = "me" /\ live[k].stamp.uid # 0 /\ live[k].stamp.gen # owner.gen
    BY <1>1, <1>2, <1>4 DEF MarkedOf
  <2>2. Listed(k)
    BY <1>4, <2>1 DEF Listed
  <2>3. live[k].stamp # NoStamp
    BY <2>1, BlankFields
  <2>4. CASE live[k].managed = "false"
    BY <1>4, <2>4 DEF NotOurs, Exempt, LeftAlone
  <2>5. CASE live[k].managed # "false"
    <3> DEFINE p == DefaultObjectPredicate(live[k].stamp, live[k].stamp # NoStamp, owner,
                                           ReleaseInfo[release])
    <3>1. Verdict(k) = p
      BY <1>4, <2>2, <2>5, Zenon DEF Verdict, IsObjectDeletable
    <3>2. p = "error" \/ p = "delete"
      BY <2>1, <2>3, Zenon DEF DefaultObjectPredicate
    <3> HIDE DEF p
    <3>3. live[k].deleting
      BY <3>1, <3>2
    <3> QED BY <1>4, <3>3 DEF NotOurs, Exempt, LeftAlone
  <2> QED BY <2>4, <2>5
<1> QED BY <1>3, <1>4

LEMMA SettleStep ==
    ASSUME BaseInv, SettleInv, [Next]_vars
    PROVE  SettleInv'
<1> SUFFICES ASSUME dirty' = FALSE
             PROVE  SettleInv'
  <2>1. dirty' \in BOOLEAN
    BY PassStep DEF BaseInv, PassOK
  <2> QED BY <2>1 DEF SettleInv
<1>0. PICK n : n = Min(todo)
  OBVIOUS
<1>1. inst.gen \in 1 .. MaxGen /\ Rendered[inst.gen] \subseteq Kids
  BY StandaloneDeployAssumption DEF BaseInv, PassOK, Instance
<1>2. todo # {} => n \in todo /\ n \in Kids
  BY <1>0, FirstIsMember DEF BaseInv, PassOK
<1> USE DEF Deploying, Collecting, Deployed, Scanned
\* The children stay as they are, and one more of them is done with.
<1>3. ASSUME ~dirty, UNCHANGED <<inst, release, live, owner>>,
             \A k \in Deployed' \ Deployed : AsRendered(k),
             \A k \in Scanned' \ Scanned : NotOurs(k)
      PROVE  SettleInv'
  <2>1. owner = inst /\ (\A k \in Deployed : AsRendered(k)) /\ (\A k \in Scanned : NotOurs(k))
    BY <1>3 DEF SettleInv
  <2>2. (\A k \in Deployed' : AsRendered(k)) /\ (\A k \in Scanned' : NotOurs(k))
    BY <1>3, <2>1
  <2> HIDE DEF Deployed, Scanned
  <2>3. \A k : (AsRendered(k) => AsRendered(k)') /\ (NotOurs(k) => NotOurs(k)')
    BY <1>3 DEF AsRendered, NotOurs, Exempt, LeftAlone, Owns
  <2> QED BY <1>3, <2>1, <2>2, <2>3 DEF SettleInv
<1>4. CASE EditInstance \/ (\E k \in Kids : EditKid(k) \/ Vanish(k)) \/ Restart \/ Expire
           \/ Fail \/ Disown
  <2>1. dirty' = TRUE
    BY <1>4 DEF EditInstance, EditKid, Vanish, Restart, Expire, Fail, Abort, Disown
  <2> QED BY <2>1
<1>5. CASE ApplyCRDNotFound
  <2>1. AsRendered(n)
    BY <1>0, <1>5 DEF ApplyCRDNotFound, AsRendered, Exempt
  <2>2. /\ UNCHANGED <<inst, release, live, owner, dirty>> /\ pc = "apply" /\ pc' = "deploy"
        /\ todo' = todo \ {n}
    BY <1>0, <1>5 DEF ApplyCRDNotFound
  <2> QED BY <1>3, <2>1, <2>2
<1>6. CASE Begin
  <2>1. /\ UNCHANGED <<inst, release, live>> /\ owner' = inst /\ pc' = "deploy"
        /\ todo' = Rendered[inst.gen]
    BY <1>6 DEF Begin
  <2>2. Deployed' = {} /\ Scanned' = {} /\ owner' = inst'
    BY <2>1
  <2> HIDE DEF Deployed, Scanned
  <2> QED BY <2>2 DEF SettleInv
<1>7. CASE Lookup
  <2>0. UNCHANGED <<inst, release, live, owner, dirty>> /\ pc = "deploy" /\ todo # {}
    BY <1>7 DEF Lookup
  <2>1. CASE todo' = todo /\ pc' = "apply"
    BY <1>3, <2>0, <2>1
  <2>2. CASE /\ todo' = todo \ {n} /\ pc' = "deploy"
             /\ LeftAlone(live[n]) \/ CacheHas(n, live[n])
    <3>1. owner = inst
      BY <2>0 DEF SettleInv
    <3>2. AsRendered(n)
      <4>1. CASE LeftAlone(live[n])
        BY <4>1 DEF AsRendered, Exempt
      <4>2. CASE CacheHas(n, live[n])
        BY <1>2, <2>0, <3>1, <4>2, CachedIsApplied, AppliedIsAsRendered
      <4> QED BY <2>2, <4>1, <4>2
    <3> QED BY <1>3, <2>0, <2>2, <3>2
  <2>3. \/ todo' = todo /\ pc' = "apply"
        \/ /\ todo' = todo \ {n} /\ pc' = "deploy"
           /\ LeftAlone(live[n]) \/ CacheHas(n, live[n])
    BY <1>0, <1>7 DEF Lookup
  <2> QED BY <2>1, <2>2, <2>3
<1>8. CASE Apply
  <2>0. /\ UNCHANGED <<inst, release, owner>> /\ pc = "apply" /\ pc' = "deploy"
        /\ todo' = todo \ {n} /\ dirty' = (dirty \/ live' # live)
    BY <1>0, <1>8 DEF Apply
  <2>1. ~dirty /\ live' = live
    BY <2>0
  <2>2. owner = inst
    BY <2>1 DEF SettleInv
  <2>3. n \in Kids /\ (n \in CreateOnly \/ Renewed(n))
    BY <1>0, <1>8, ApplyEffect
  <2>4. AsRendered(n)
    <3>1. CASE n \in CreateOnly
      BY <3>1 DEF AsRendered, Exempt
    <3>2. CASE Renewed(n)
      <4>1. live[n].exists /\ live[n].stamp = Stamp(n) /\ ~live[n].drift
        BY <2>1, <3>2 DEF Renewed
      <4>2. Owns(n) => live[n].refs = {Stamp(n).uid}
        <5>1. KidsOK'
          BY KidsStep
        <5>2. Fingerprint(n, live'[n])[2] = live'[n].rv /\ Fingerprint(n, live'[n])[3] = Stamp(n)
              /\ Fingerprint(n, live'[n])[1] = n
          BY DEF Fingerprint
        <5>3. Honest(Fingerprint(n, live'[n]), live'[n])
          BY <1>0, <1>8, <2>3, <3>2, <5>1, RenewedIsHonest
        <5> QED BY <2>1, <5>2, <5>3, Zenon DEF Honest
      <4> QED BY <2>2, <2>3, <4>1, <4>2, AppliedIsAsRendered
    <3> QED BY <2>3, <3>1, <3>2
  <2> QED BY <1>3, <2>0, <2>1, <2>4
<1>9. CASE EndDeploy
  <2>1. /\ UNCHANGED <<inst, release, live, owner, dirty>> /\ pc = "deploy" /\ pc' = "list"
        /\ todo = {} /\ todo' = Kids
    BY <1>9 DEF EndDeploy
  <2> QED BY <1>3, <2>1
<1>10. CASE List
  <2>0. pc = "list" /\ todo # {} /\ UNCHANGED <<inst, release, live, owner>>
    BY <1>10 DEF List
  <2>1. CASE pc' = "delete" /\ todo' = todo /\ dirty' = dirty
    BY <1>3, <2>0, <2>1
  <2>2. CASE /\ pc' = "list" /\ todo' = todo \ {n} /\ dirty' = dirty
             /\ Verdict(n) # "error" /\ (Verdict(n) = "delete" => live[n].deleting)
    <3>1. owner = inst
      BY <2>2 DEF SettleInv
    <3>2. n \notin Rendered[inst.gen] => NotOurs(n)
      BY <1>2, <2>0, <2>2, <3>1, KeptIsNotOurs
    <3> QED BY <1>3, <2>0, <2>2, <3>2
  <2> QED BY <1>0, <1>10, <2>1, <2>2, ListEffect
<1>11. CASE Collect
  <2>0. /\ pc = "delete" /\ pc' = "list" /\ todo' = todo \ {n}
        /\ UNCHANGED <<inst, release, owner>>
    BY <1>0, <1>11 DEF Collect
  <2>1. live' = live /\ dirty' = dirty /\ ~live[n].exists
    BY <1>0, <1>11, CollectEffect
  <2>2. NotOurs(n)
    BY <2>1 DEF NotOurs
  <2> QED BY <1>3, <2>0, <2>1, <2>2
<1>12. CASE EndPass
  <2>1. /\ UNCHANGED <<inst, release, live, owner, dirty>> /\ pc = "list" /\ pc' = "idle"
        /\ todo = {}
    BY <1>12 DEF EndPass
  <2> QED BY <1>3, <2>1
<1>13. CASE UNCHANGED vars
  BY <1>3, <1>13 DEF vars
<1> QED
  BY <1>4, <1>5, <1>6, <1>7, <1>8, <1>9, <1>10, <1>11, <1>12, <1>13 DEF Next, Worker

\* Whatever users do, however passes fail and at which step, with or without
\* the deploy cache, in either mode and across upgrades and new instances:
\* when the controller has nothing left to do, what is rendered is as rendered
\* and owned by the instance alone, and nothing it owns is left that is not
\* (deploy.go:274, gc.go:287).
THEOREM RestIsSettled == Spec => []Settled
<1>1. Init => SettleInv
  BY DEF Init, SettleInv
<1>2. BaseInv /\ SettleInv /\ [Next]_vars => SettleInv'
  BY SettleStep
<1>3. BaseInv /\ SettleInv => Settled
  <2> SUFFICES ASSUME SettleInv, pc = "idle", ~dirty, NEW k \in Kids \ (CreateOnly \union CRDs),
                      ~LeftAlone(live[k])
               PROVE  IF k \in Rendered[inst.gen]
                      THEN /\ live[k].exists /\ ~live[k].drift
                           /\ Owns(k) => /\ live[k].refs = {inst.uid}
                                         /\ live[k].stamp = StampFor(inst, ReleaseInfo[release])
                      ELSE live[k].exists => live[k].refs \intersect UIDs = {}
    BY DEF Settled, LeftAlone
  <2>1. CASE k \in Rendered[inst.gen]
    <3>1. AsRendered(k)
      BY <2>1 DEF SettleInv, Deployed, Deploying
    <3> QED BY <2>1, <3>1, Zenon DEF AsRendered, Exempt
  <2>2. CASE k \notin Rendered[inst.gen]
    <3>1. NotOurs(k)
      BY <2>2 DEF SettleInv, Scanned, Deploying, Collecting
    <3> QED BY <2>2, <3>1, Zenon DEF NotOurs, Exempt
  <2> QED BY <2>1, <2>2
<1> QED BY <1>1, <1>2, <1>3, BaseInvariant, PTL DEF Spec

=============================================================================
