-------------------------- MODULE CollectorProofs ---------------------------
(***************************************************************************)
(* The safety of the cluster scan, for any order of kinds, set of objects, *)
(* filter, page size and number of attempts and changes.                   *)
(***************************************************************************)
EXTENDS Collector, FiniteSetTheorems, TLAPS

\* The bounds are numbers, and at least one attempt is made of a List.
LEMMA Bounds ==
    /\ Len(KindOrder) \in Nat
    /\ Steps \in Nat \ {0}
    /\ MaxChanges \in Nat
BY CollectorAssumption DEF ScanConstants

\* What an object contributes is what the model knows it to.
LEMMA ObjectImages ==
    ASSUME NEW objs \in SUBSET Objects
    PROVE  /\ Images(objs) \subseteq UNION {o.images : o \in Objects}
           /\ \A o \in objs : Allowed(o.ns) => o.images \subseteq Images(objs)
BY DEF Images

\* What is still to come of a List is part of the cluster.
LEMMA SnapshotType ==
    ASSUME TypeOK
    PROVE  Snapshot \in SUBSET Objects
BY DEF TypeOK, Snapshot

-----------------------------------------------------------------------------
(* The steps of the scan, in the terms the invariants need.                 *)

\* The scan leaves the cluster and the context alone, and forgets nothing.
LEMMA ScanKeeps ==
    ASSUME Scan
    PROVE  /\ ~Finished
           /\ UNCHANGED <<clusterVars, cancelled>>
           /\ found \subseteq found' /\ errs \subseteq errs'
BY DEF Scan, MidPage, LastPage, Retry, Fail, Page

\* What a step of the scan does to its own variables.
LEMMA ScanCases ==
    ASSUME Scan
    PROVE  \/ \E objs \in SUBSET Snapshot :
                 /\ found' = found \cup Images(objs)
                 /\ listing' = TRUE /\ rest' = Snapshot \ objs
                 /\ UNCHANGED <<kindNo, attempt, errs>>
           \/ /\ found' = found \cup Images(Snapshot)
              /\ NextKind
              /\ UNCHANGED errs
           \/ /\ attempt < Steps /\ attempt' = attempt + 1
              /\ Restart
              /\ UNCHANGED <<kindNo, found, errs>>
           \/ /\ errs' = errs \cup {Kind}
              /\ NextKind
              /\ UNCHANGED found
BY DEF Scan, MidPage, LastPage, Retry, Fail, Page

-----------------------------------------------------------------------------
(* Types.                                                                   *)

\* The counters, the flags and the sets.
CountersOK ==
    /\ changes \in 0..MaxChanges
    /\ kindNo \in 1..(Len(KindOrder) + 1)
    /\ attempt \in 1..Steps

FlagsOK == cancelled \in BOOLEAN /\ listing \in BOOLEAN

SetsOK ==
    /\ live \subseteq Objects /\ cache \subseteq Objects
    /\ lasting \subseteq Objects /\ rest \subseteq Objects
    /\ found \subseteq UNION {o.images : o \in Objects}
    /\ errs \subseteq {KindOrder[k] : k \in 1..Len(KindOrder)}

\* The initial state is typed.
LEMMA InitTyped == Init => TypeOK
<1>1. Init => CountersOK
  BY Bounds DEF Init, CountersOK
<1>2. Init => SetsOK
  BY DEF Init, SetsOK
<1>3. Init => FlagsOK
  BY DEF Init, FlagsOK
<1> QED
  BY <1>1, <1>2, <1>3 DEF TypeOK, CountersOK, FlagsOK, SetsOK

\* A step of the scan keeps the types.
LEMMA ScanTyped ==
    ASSUME TypeOK, Scan
    PROVE  TypeOK'
<1>1. CountersOK /\ SetsOK /\ FlagsOK /\ Snapshot \in SUBSET Objects
  BY SnapshotType DEF TypeOK, CountersOK, FlagsOK, SetsOK
<1>2. /\ kindNo \in 1..Len(KindOrder)
      /\ Kind \in {KindOrder[k] : k \in 1..Len(KindOrder)}
  BY <1>1, ScanKeeps, Bounds DEF CountersOK, Finished, Kind
<1>3. UNCHANGED <<live, cache, changes, lasting, cancelled>>
  BY ScanKeeps DEF clusterVars
<1>4. \/ UNCHANGED <<kindNo, attempt>>
      \/ kindNo' = kindNo + 1 /\ attempt' = 1
      \/ attempt < Steps /\ attempt' = attempt + 1 /\ kindNo' = kindNo
  BY ScanCases DEF NextKind, Restart
<1>5. CountersOK'
  BY <1>1, <1>2, <1>3, <1>4, Bounds DEF CountersOK
<1>6. /\ rest' \subseteq Objects
      /\ errs' \subseteq {KindOrder[k] : k \in 1..Len(KindOrder)}
  BY <1>1, <1>2, ScanCases DEF SetsOK, NextKind, Restart
<1>7. found' \subseteq UNION {o.images : o \in Objects}
  BY <1>1, ScanCases, ObjectImages DEF SetsOK
<1>8. SetsOK'
  BY <1>1, <1>3, <1>6, <1>7 DEF SetsOK
<1>9. FlagsOK'
  BY <1>1, <1>3, ScanCases DEF FlagsOK, NextKind, Restart
<1> QED
  BY <1>5, <1>8, <1>9 DEF TypeOK, CountersOK, FlagsOK, SetsOK

\* So does a change of the cluster, of the watch cache or of the context.
LEMMA ClusterTyped ==
    ASSUME TypeOK,
           (\E o \in Objects : Change(o)) \/ CacheCatchesUp \/ Cancel
               \/ UNCHANGED vars
    PROVE  TypeOK'
<1> USE DEF Change, CacheCatchesUp, Cancel, vars, clusterVars, scanVars
<1>1. CountersOK'
  BY Bounds DEF TypeOK, CountersOK
<1>2. SetsOK'
  BY DEF TypeOK, SetsOK
<1>3. FlagsOK'
  BY DEF TypeOK, FlagsOK
<1> QED
  BY <1>1, <1>2, <1>3 DEF TypeOK, CountersOK, FlagsOK, SetsOK

\* Every variable of the scan keeps its type, whatever the cluster holds.
THEOREM ScanTypeCorrect == Spec => []TypeOK
<1>1. Init => TypeOK
  BY InitTyped
<1>2. TypeOK /\ [Next]_vars => TypeOK'
  BY ScanTyped, ClusterTyped DEF Next
<1> QED
  BY <1>1, <1>2, PTL DEF Spec

-----------------------------------------------------------------------------
(* Nothing is lost.                                                         *)

Done(kind) == \E k \in 1..(kindNo - 1) : KindOrder[k] = kind

\* What was there all along is in the cluster and in the watch cache, so that
\* a List that begins now will deliver it;
Lasting == lasting \subseteq live \cap cache

\* of the List in hand, what has not come yet is on the pages to come.
Coming ==
    (listing /\ ~Finished) =>
        \A o \in lasting :
            (Allowed(o.ns) /\ o.kind = Kind) => o \in rest \/ o.images \subseteq found

LossInv == Lasting /\ Coming /\ NoSilentLoss

\* At the beginning no kind is done.
LEMMA InitLoss == Init => LossInv
BY DEF Init, LossInv, Lasting, Coming, NoSilentLoss

\* A new List, or one gone on with, has all that is wanted of its kind before it.
LEMMA SnapshotHasAll ==
    ASSUME TypeOK, LossInv, ~Finished
    PROVE  \A o \in lasting :
               (Allowed(o.ns) /\ o.kind = Kind) =>
                   o \in Snapshot \/ o.images \subseteq found
BY DEF TypeOK, LossInv, Lasting, Coming, Snapshot

\* A kind that is done has been listed to its last page or has failed.
LEMMA ScanLoss ==
    ASSUME TypeOK, LossInv, Scan
    PROVE  LossInv'
<1>1. /\ ~Finished /\ kindNo \in Nat \ {0}
      /\ UNCHANGED <<live, cache, lasting>>
      /\ found \subseteq found' /\ errs \subseteq errs'
  BY ScanKeeps, Bounds DEF clusterVars, TypeOK
<1>2. Lasting'
  BY <1>1 DEF LossInv, Lasting
<1>3. ASSUME kindNo' = kindNo
      PROVE  NoSilentLoss'
  BY <1>1, <1>3 DEF LossInv, NoSilentLoss, Allowed
<1>4. ASSUME NextKind,
             \A o \in lasting : (Allowed(o.ns) /\ o.kind = Kind) =>
                 o.images \subseteq found' \/ o.kind \in errs'
      PROVE  NoSilentLoss'
  <2>1. SUFFICES ASSUME NEW o \in lasting, Allowed(o.ns),
                        NEW k \in 1..(kindNo' - 1), KindOrder[k] = o.kind
                 PROVE  o.images \subseteq found' \/ o.kind \in errs'
    BY <1>1 DEF NoSilentLoss, Allowed
  <2>2. CASE k = kindNo
    BY <1>4, <2>1, <2>2 DEF Kind
  <2>3. CASE k \in 1..(kindNo - 1)
    BY <1>1, <2>1, <2>3 DEF LossInv, NoSilentLoss
  <2> QED
    BY <1>1, <1>4, <2>2, <2>3 DEF NextKind
<1>5. CASE \E objs \in SUBSET Snapshot :
              /\ found' = found \cup Images(objs)
              /\ listing' = TRUE /\ rest' = Snapshot \ objs
              /\ UNCHANGED <<kindNo, attempt, errs>>
  <2>1. PICK objs \in SUBSET Snapshot :
              /\ found' = found \cup Images(objs)
              /\ rest' = Snapshot \ objs
              /\ kindNo' = kindNo
    BY <1>5
  <2>2. \A o \in objs : Allowed(o.ns) => o.images \subseteq found'
    BY <2>1, SnapshotType, ObjectImages
  <2>3. \A o \in lasting : (Allowed(o.ns) /\ o.kind = Kind) =>
            o \in rest' \/ o.images \subseteq found'
    BY <1>1, <2>1, <2>2, SnapshotHasAll
  <2>4. Coming'
    BY <1>1, <2>1, <2>3 DEF Coming, Allowed, Kind
  <2> QED
    BY <1>2, <1>3, <2>1, <2>4 DEF LossInv
<1>6. CASE found' = found \cup Images(Snapshot) /\ NextKind /\ UNCHANGED errs
  <2>1. \A o \in Snapshot : Allowed(o.ns) => o.images \subseteq found'
    BY <1>6, SnapshotType, ObjectImages
  <2>2. NoSilentLoss'
    BY <1>1, <1>4, <1>6, <2>1, SnapshotHasAll
  <2> QED
    BY <1>2, <1>6, <2>2 DEF LossInv, Coming, NextKind, Restart
<1>7. CASE /\ attempt < Steps /\ attempt' = attempt + 1 /\ Restart
           /\ UNCHANGED <<kindNo, found, errs>>
  BY <1>2, <1>3, <1>7 DEF LossInv, Coming, Restart
<1>8. CASE errs' = errs \cup {Kind} /\ NextKind /\ UNCHANGED found
  BY <1>2, <1>4, <1>8 DEF LossInv, Coming, NextKind, Restart
<1> QED
  BY <1>5, <1>6, <1>7, <1>8, ScanCases

\* A change takes its object out of what has lasted, and what the watch cache
\* catches up with is the cluster.
LEMMA ClusterLoss ==
    ASSUME TypeOK, LossInv,
           (\E o \in Objects : Change(o)) \/ CacheCatchesUp \/ Cancel
               \/ UNCHANGED vars
    PROVE  LossInv'
<1> USE DEF LossInv, Lasting, Coming, NoSilentLoss, Allowed, Finished, Kind,
            scanVars
<1>1. ASSUME NEW o \in Objects, Change(o)
      PROVE  LossInv'
  BY <1>1 DEF Change
<1>2. CASE CacheCatchesUp
  BY <1>2 DEF CacheCatchesUp
<1>3. CASE Cancel \/ UNCHANGED vars
  BY <1>3 DEF Cancel, clusterVars, vars
<1> QED
  BY <1>1, <1>2, <1>3

\* No image of an object that was there all along is lost without an error:
\* however often Lists are begun again, in however many pages they come, and
\* whatever else changes in the cluster meanwhile.
THEOREM NothingLostSilently == Spec => []NoSilentLoss
<1>1. Init => LossInv
  BY InitLoss
<1>2. TypeOK /\ LossInv /\ [Next]_vars => LossInv'
  BY ScanLoss, ClusterLoss DEF Next
<1>3. LossInv => NoSilentLoss
  BY DEF LossInv
<1> QED
  BY <1>1, <1>2, <1>3, ScanTypeCorrect, PTL DEF Spec

\* The same for a scan that is a part of something larger: it keeps its types
\* and its invariant when it or the cluster takes a step,
ScanInv == TypeOK /\ LossInv

LEMMA StartScanInv == Init => ScanInv
BY InitTyped, InitLoss DEF ScanInv

LEMMA NextScanInv ==
    ASSUME ScanInv, [Next]_vars
    PROVE  ScanInv'
BY ScanTyped, ClusterTyped, ScanLoss, ClusterLoss DEF Next, ScanInv

\* and when only the context changes, in whatever way.
LEMMA IdleScanInv ==
    ASSUME ScanInv, UNCHANGED <<clusterVars, scanVars>>, cancelled' \in BOOLEAN
    PROVE  ScanInv'
<1> USE DEF ScanInv, clusterVars, scanVars
<1>1. CountersOK' /\ SetsOK'
  BY Bounds DEF TypeOK, CountersOK, SetsOK
<1>2. FlagsOK'
  BY DEF TypeOK, FlagsOK
<1>3. LossInv'
  BY DEF LossInv, Lasting, Coming, NoSilentLoss, Allowed, Finished, Kind
<1> QED
  BY <1>1, <1>2, <1>3 DEF TypeOK, CountersOK, FlagsOK, SetsOK

\* What a scan that has ended found of what was there all along.
LEMMA ScanFound ==
    ASSUME ScanInv, Finished, NEW o \in lasting, Allowed(o.ns)
    PROVE  o.images \subseteq found \/ o.kind \in errs
<1>1. kindNo \in Nat /\ Len(KindOrder) < kindNo /\ o \in Objects
  BY Bounds DEF ScanInv, TypeOK, Finished
<1>2. o.kind \in {KindOrder[k] : k \in 1..Len(KindOrder)}
  BY <1>1, CollectorAssumption DEF ScanConstants, Object
<1> QED
  BY <1>1, <1>2, Bounds DEF ScanInv, LossInv, NoSilentLoss

-----------------------------------------------------------------------------
(* The measure.                                                             *)

\* A page has objects in it, so that fewer are to come.
LEMMA PagesShrink ==
    ASSUME MidPage
    PROVE  /\ UNCHANGED <<kindNo, attempt>>
           /\ listing'
           /\ listing => rest' \subseteq rest /\ rest' # rest
<1>1. PICK objs \in SUBSET Snapshot :
          Cardinality(objs) = PageSize /\ rest' = Snapshot \ objs
  BY DEF MidPage
<1>2. objs # {}
  BY <1>1, FS_EmptySet, CollectorAssumption DEF ScanConstants
<1>3. listing => Snapshot = rest
  BY DEF Snapshot
<1> QED
  BY <1>1, <1>2, <1>3 DEF MidPage

\* Every step of the scan goes down in the order of kinds, attempts and pages,
\* in which only finitely many steps go down, and nothing else moves the scan:
\* the requests it makes are bounded, whatever fails and whatever changes.
THEOREM ScanNarrows == Spec => ListsBounded
<1>1. ASSUME TypeOK, [Next]_vars
      PROVE  Narrows \/ UNCHANGED scanVars
  <2>1. CASE MidPage
    BY <2>1, PagesShrink DEF Narrows
  <2>2. CASE LastPage \/ Fail
    <3>1. ~Finished /\ kindNo' = kindNo + 1
      BY <2>2 DEF LastPage, Fail, NextKind
    <3> QED
      BY <1>1, <3>1, Bounds DEF Finished, Narrows, TypeOK
  <2>3. CASE Retry
    <3>1. attempt < Steps /\ attempt' = attempt + 1 /\ kindNo' = kindNo
      BY <2>3 DEF Retry
    <3> QED
      BY <1>1, <3>1, Bounds DEF Narrows, TypeOK
  <2>4. CASE (\E o \in Objects : Change(o)) \/ CacheCatchesUp \/ Cancel \/ UNCHANGED vars
    BY <2>4 DEF Change, CacheCatchesUp, Cancel, vars
  <2> QED
    BY <1>1, <2>1, <2>2, <2>3, <2>4 DEF Next, Scan
<1> QED
  BY <1>1, ScanTypeCorrect, PTL DEF Spec, ListsBounded

=============================================================================
