------------------------- MODULE MmapManager_proofs -------------------------
(***************************************************************************)
(* For every number of cores and threads and every size: MmapManager is a  *)
(* source of pages that gives none twice, nor, when it extends its areas,  *)
(* a page that is not mapped; it clears no page that a caller has, and its *)
(* registry has room for as many extensions as it is made for.             *)
(***************************************************************************)
EXTENDS MmapManager, FiniteSetTheorems, TLAPS

USE DEF Region, mainThreadIndex, Core

-----------------------------------------------------------------------------
(* Types.                                                                  *)

LEMMA TypeInit == Init => TypeOK
<1> SUFFICES ASSUME Init PROVE TypeOK
  OBVIOUS
<1>1. \A e \in Entry : e % ExtendMax = 0 => e \div ExtendMax \in Area
  <2> SUFFICES ASSUME NEW e \in Entry PROVE e \div ExtendMax \in Area
    OBVIOUS
  <2>1. ExtendMax \in Nat \ {0} /\ CoreN \in Nat \ {0} /\ MaxHanded \in Nat
    BY MmapAssumption
  <2>2. e \in Nat /\ e < (CoreN + 1) * ExtendMax
    BY <2>1 DEF Entry
  <2>3. e \div ExtendMax \in Nat /\ (e \div ExtendMax) * ExtendMax <= e
    BY <2>1, <2>2
  <2>4. e \div ExtendMax < CoreN + 1
    BY <2>1, <2>2, <2>3
  <2> QED
    BY <2>1, <2>3, <2>4 DEF Area
<1>2. sizess \in [Entry -> Area \cup {None}] /\ poolss \in [Entry -> Area \cup {None}]
  BY <1>1 DEF Init
<1>3. IsFiniteSet(handed)
  BY FS_EmptySet DEF Init
<1> QED
  BY <1>2, <1>3, MmapAssumption DEF Init, TypeOK, Area

LEMMA AreaType ==
  /\ \A r \in Region : r \in Area
  /\ \A size \in Nat : AllocSize(size) \in Nat /\ AllocSize(size) >= size
BY MmapAssumption DEF Area, AllocSize

LEMMA TypeStep == TypeOK /\ [Next]_vars => TypeOK'
<1> SUFFICES ASSUME TypeOK, [Next]_vars PROVE TypeOK'
  OBVIOUS
<1> USE DEF TypeOK, Goto
<1>1. ASSUME NEW t \in Thread, NEW core \in Core, NEW size \in Request, Malloc(t, core, size)
      PROVE  TypeOK'
  <2>1. region' \in [Thread -> Region] /\ req' \in [Thread -> Nat]
    <3>1. CoreN \in Nat /\ Request \subseteq Nat
      BY MmapAssumption
    <3>2. size \in Nat /\ CoreN \in 0 .. CoreN /\ core \in 0 .. CoreN
      BY <3>1
    <3> QED
      BY <1>1, <3>2 DEF Malloc
  <2> QED
    BY <1>1, <2>1 DEF Malloc, rvars, avars, regvars
<1>9. ASSUME NEW t \in Thread, Enter(t) PROVE TypeOK'
  <2>1. mtxs' \in [Region -> Thread \cup {None}]
    BY <1>9, MmapAssumption DEF Enter, LockRegion
  <2>2. Rest(t) \in {"extend", "carve"}
    BY DEF Rest
  <2> QED
    BY <1>9, <2>1, <2>2 DEF Enter, rvars, avars, regvars
<1>10. ASSUME NEW t \in Thread, Touch(t) PROVE TypeOK'
  <2>1. of' \in [Thread -> Nat]
    <3>1. of[t] \in Nat
      OBVIOUS
    <3>2. Wrap \in Nat \ {0}
      BY MmapAssumption
    <3>3. (of[t] + 1) % Wrap \in Nat
      BY <3>1, <3>2
    <3> QED
      BY <1>10, <3>3 DEF Touch
  <2>2. overwritten' \subseteq handed
    BY <1>10 DEF Touch
  <2> QED
    BY <1>10, <2>1, <2>2 DEF Touch, avars, regvars
<1>11. ASSUME NEW t \in Thread, Touched(t) PROVE TypeOK'
  <2>1. Rest(t) \in {"extend", "carve"}
    BY DEF Rest
  <2> QED
    BY <1>11, <2>1 DEF Touched, avars, regvars
<1>2. ASSUME NEW t \in Thread, ExtendBuffer(t) PROVE TypeOK'
  <2>2. length' \in [Area -> Nat] /\ pools' \in [Region -> Area]
    BY <1>2, AreaType DEF ExtendBuffer
  <2>3. offsets' \in [Region -> Nat] /\ mapped' \in Nat
    BY <1>2 DEF ExtendBuffer
  <2> QED
    BY <1>2, <2>2, <2>3 DEF ExtendBuffer, regvars
<1>12. ASSUME NEW t \in Thread, RecordSize(t) PROVE TypeOK'
  <2>1. sizess' \in [Entry -> Area \cup {None}]
    BY <1>12 DEF RecordSize, Recorded
  <2> QED
    BY <1>12, <2>1 DEF RecordSize, rvars
<1>13. ASSUME NEW t \in Thread, RecordPool(t) PROVE TypeOK'
  <2>1. poolss' \in [Entry -> Area \cup {None}]
    BY <1>13 DEF RecordPool, Recorded
  <2> QED
    BY <1>13, <2>1 DEF RecordPool, rvars
<1>14. ASSUME NEW t \in Thread, Load(t) PROVE TypeOK'
  BY <1>14 DEF Load, rvars, avars, regvars
<1>3. ASSUME NEW t \in Thread, Increment(t) PROVE TypeOK'
  <2>1. extendOffset' \in Nat
    BY <1>3 DEF Increment, NextOffset
  <2> QED
    BY <1>3, <2>1 DEF Increment, rvars, regvars
<1>4. ASSUME NEW t \in Thread, Announce(t) \/ AnnounceNested(t) PROVE TypeOK'
  BY <1>4 DEF Announce, AnnounceNested, rvars, avars, regvars
<1>5. ASSUME NEW t \in Thread, Report(t) PROVE TypeOK'
  BY <1>5 DEF Report, rvars, avars, regvars, UnlockRegion
<1>6. ASSUME NEW t \in Thread, Carve(t) PROVE TypeOK'
  <2>1. Cardinality(handed) \in Nat
    BY FS_CardinalityType
  <2>2. IsFiniteSet(handed')
    BY <1>6, FS_AddElement DEF Carve
  <2>3. handed' \subseteq Extent /\ overwritten \subseteq handed'
    BY <1>6, <2>1 DEF Carve, Extent
  <2> QED
    BY <1>6, <2>2, <2>3 DEF Carve, rvars, avars, regvars
<1>7. ASSUME NEW t \in Thread, Advance(t) PROVE TypeOK'
  <2>1. offsets' \in [Region -> Nat] /\ mtxs' \in [Region -> Thread \cup {None}]
    BY <1>7 DEF Advance, UnlockRegion
  <2> QED
    BY <1>7, <2>1 DEF Advance, avars, regvars
<1>8. CASE UNCHANGED vars
  BY <1>8 DEF vars, rvars, avars, regvars
<1> QED
  BY <1>1, <1>2, <1>3, <1>4, <1>5, <1>6, <1>7, <1>8, <1>9, <1>10, <1>11, <1>12, <1>13, <1>14
  DEF Next, Call, Step, Done

\* Every variable has its type: mmap_manager.cpp for any numbers of cores and
\* threads.
THEOREM TypeCorrect == Spec => []TypeOK
  BY TypeInit, TypeStep, PTL DEF Spec

-----------------------------------------------------------------------------
(* Mutual exclusion in a region.                                           *)

\* A thread holds the mutex of its region from Enter to its return.
Outside == {"idle", "lock"}
USE DEF Outside

\* The steps that enter a new area into the registry.
Files(t) == RecordSize(t) \/ RecordPool(t) \/ Load(t) \/ Increment(t)

Mutex == \A t \in Thread : pc[t] \notin Outside => mtxs[region[t]] = t

LEMMA MutexStep == TypeOK /\ Mutex /\ [Next]_vars => Mutex'
<1> SUFFICES ASSUME TypeOK, Mutex, [Next]_vars, NEW u \in Thread, pc'[u] \notin Outside
             PROVE  mtxs'[region'[u]] = u
  BY DEF Mutex
<1> USE DEF TypeOK, Mutex, Goto
<1>1. ASSUME NEW t \in Thread, NEW core \in Core, NEW size \in Request, Malloc(t, core, size)
      PROVE  mtxs'[region'[u]] = u
  BY <1>1 DEF Malloc
<1>6. ASSUME NEW t \in Thread, Enter(t) PROVE mtxs'[region'[u]] = u
  <2>1. /\ mtxs[region[t]] = None /\ mtxs' = [mtxs EXCEPT ![region[t]] = t]
        /\ region' = region /\ \A v \in Thread \ {t} : pc'[v] = pc[v]
    BY <1>6 DEF Enter, LockRegion
  <2>2. CASE u = t
    BY <2>1, <2>2
  <2>3. CASE u # t
    <3>1. mtxs[region[u]] = u
      BY <2>1, <2>3
    <3>2. region[u] # region[t]
      BY <2>1, <3>1, MmapAssumption
    <3> QED
      BY <2>1, <3>1, <3>2
  <2> QED
    BY <2>2, <2>3
<1>2. ASSUME NEW t \in Thread,
             \/ Touch(t) \/ Touched(t) \/ ExtendBuffer(t) \/ Files(t)
             \/ Announce(t) \/ AnnounceNested(t) \/ Carve(t)
      PROVE  mtxs'[region'[u]] = u
  BY <1>2 DEF Touch, Touched, ExtendBuffer, Files, RecordSize, RecordPool,
              Load, Increment, Announce, AnnounceNested, Carve
<1>3. ASSUME NEW t \in Thread, Report(t) PROVE mtxs'[region'[u]] = u
  <2>1. /\ pc[t] = "report" /\ region' = region /\ \A v \in Thread \ {t} : pc'[v] = pc[v]
        /\ \/ mtxs' = mtxs
           \/ mtxs' = [mtxs EXCEPT ![region[t]] = None] /\ pc'[t] = "idle"
    BY <1>3 DEF Report, UnlockRegion
  <2>2. CASE mtxs' = mtxs
    BY <2>1, <2>2
  <2>3. CASE mtxs' = [mtxs EXCEPT ![region[t]] = None] /\ pc'[t] = "idle"
    <3>1. u # t /\ mtxs[region[u]] = u /\ mtxs[region[t]] = t
      BY <2>1, <2>3
    <3> QED
      BY <2>1, <2>3, <3>1
  <2> QED
    BY <2>1, <2>2, <2>3
<1>4. ASSUME NEW t \in Thread, Advance(t) PROVE mtxs'[region'[u]] = u
  BY <1>4 DEF Advance, UnlockRegion
<1>5. CASE UNCHANGED vars
  BY <1>5 DEF vars
<1> QED
  BY <1>1, <1>2, <1>3, <1>4, <1>5, <1>6 DEF Next, Call, Step, Done, Files

\* Two threads inside Malloc are in different regions.
LEMMA Alone ==
  ASSUME TypeOK, Mutex, NEW t \in Thread, NEW u \in Thread,
         pc[t] \notin Outside, pc[u] \notin Outside, region[t] = region[u]
  PROVE  t = u
BY DEF Mutex, TypeOK

-----------------------------------------------------------------------------
(* No page is handed out twice.                                            *)

\* Every region hands out from an area of its own, already mapped; an area
\* that is not mapped yet has given nothing away.
OwnArea ==
  /\ CoreN + 1 <= mapped
  /\ \A r \in Region : pools[r] < mapped
  /\ \A r, s \in Region : r # s => pools[r] # pools[s]
  /\ \A h \in handed : h.area < mapped

\* The end of what region r has given away: its offset, or the offset its
\* holder is about to store.
BelowOffset ==
  \A r \in Region, h \in handed :
    h.area = pools[r] =>
      \/ h.from + h.size <= offsets[r]
      \/ \E t \in Thread : /\ pc[t] = "advance" /\ region[t] = r
                           /\ h.from + h.size <= offsets[r] + req[t]

IInv == TypeOK /\ Mutex /\ OwnArea /\ BelowOffset /\ Disjoint

LEMMA IInvInit == Init => IInv
<1> SUFFICES ASSUME Init PROVE IInv
  OBVIOUS
<1>1. Mutex
  BY DEF Init, Mutex
<1>2. OwnArea /\ BelowOffset /\ Disjoint
  BY MmapAssumption DEF Init, OwnArea, BelowOffset, Disjoint
<1> QED
  BY <1>1, <1>2, TypeInit DEF IInv

LEMMA IInvStep == IInv /\ [Next]_vars => IInv'
<1> SUFFICES ASSUME IInv, [Next]_vars PROVE OwnArea' /\ BelowOffset' /\ Disjoint'
  BY TypeStep, MutexStep DEF IInv
<1>a. TypeOK /\ Mutex /\ OwnArea /\ BelowOffset /\ Disjoint
  BY DEF IInv
<1>b. /\ pools \in [Region -> Area] /\ offsets \in [Region -> Nat] /\ mapped \in Nat
      /\ region \in [Thread -> Region] /\ req \in [Thread -> Nat]
      /\ \A h \in handed : h.area \in Nat /\ h.from \in Nat /\ h.size \in Nat
  <2>1. Area \subseteq Nat
    BY MmapAssumption DEF Area
  <2>2. \A h \in Extent : h.area \in Area /\ h.from \in Nat /\ h.size \in Nat
    BY DEF Extent
  <2> QED
    BY <1>a, <2>1, <2>2 DEF TypeOK
<1>c. DOMAIN pc = Thread
  BY <1>a DEF TypeOK
<1>d. \A t, u \in Thread :
        pc[t] \notin Outside /\ pc[u] \notin Outside /\ region[t] = region[u] => t = u
  BY <1>a, Alone
<1>1. ASSUME NEW t \in Thread,
             \/ \E core \in Core, size \in Request : Malloc(t, core, size)
             \/ Enter(t) \/ Touch(t) \/ Touched(t)
      PROVE  OwnArea' /\ BelowOffset' /\ Disjoint'
  <2>1. /\ UNCHANGED <<pools, mapped, handed, offsets>>
        /\ \A u \in Thread : pc[u] = "advance" =>
             pc'[u] = "advance" /\ region'[u] = region[u] /\ req'[u] = req[u]
    BY <1>1, <1>b, <1>c DEF Malloc, Enter, Touch, Touched, rvars, avars, regvars, Goto
  <2>2. BelowOffset'
    BY <1>a, <2>1 DEF BelowOffset
  <2> QED
    BY <1>a, <2>1, <2>2 DEF OwnArea, Disjoint
<1>2. ASSUME NEW t \in Thread, ExtendBuffer(t) PROVE OwnArea' /\ BelowOffset' /\ Disjoint'
  <2>1. /\ UNCHANGED <<handed, region, req>>
        /\ pools' = [pools EXCEPT ![region[t]] = mapped] /\ mapped' = mapped + 1
        /\ offsets' = [offsets EXCEPT ![region[t]] = 0]
        /\ \A u \in Thread : pc[u] = "advance" => pc'[u] = "advance"
    BY <1>2, <1>c DEF ExtendBuffer, Goto
  <2>2. region[t] \in Region /\ CoreN \in Nat
    BY <1>b, MmapAssumption
  <2>3. \A r \in Region : pools'[r] = IF r = region[t] THEN mapped ELSE pools[r]
    BY <1>b, <2>1
  <2>4. OwnArea'
    <3>1. CoreN + 1 <= mapped' /\ \A h \in handed' : h.area < mapped'
      BY <1>a, <1>b, <2>1, <2>2 DEF OwnArea
    <3>2. \A r \in Region : pools[r] \in Nat /\ pools[r] < mapped
      BY <1>a, <1>b, MmapAssumption DEF OwnArea, Area
    <3>3. \A r \in Region : pools'[r] < mapped'
      BY <1>b, <2>1, <2>3, <3>2
    <3>4. \A r, s \in Region : r # s => pools'[r] # pools'[s]
      <4> SUFFICES ASSUME NEW r \in Region, NEW s \in Region, r # s
                   PROVE  pools'[r] # pools'[s]
        OBVIOUS
      <4>1. pools[r] # pools[s] /\ pools[r] # mapped /\ pools[s] # mapped
        <5>1. pools[r] # mapped /\ pools[s] # mapped
          BY <1>b, <3>2
        <5> QED
          BY <1>a, <5>1 DEF OwnArea
      <4> QED
        BY <2>3, <4>1
    <3> QED
      BY <3>1, <3>3, <3>4 DEF OwnArea
  <2>5. BelowOffset'
    <3> SUFFICES ASSUME NEW s \in Region, NEW h \in handed, h.area = pools'[s]
                 PROVE  \/ h.from + h.size <= offsets'[s]
                        \/ \E u \in Thread : /\ pc'[u] = "advance" /\ region[u] = s
                                             /\ h.from + h.size <= offsets'[s] + req[u]
      BY <2>1 DEF BelowOffset
    <3>1. s # region[t]
      BY <1>a, <1>b, <2>3 DEF OwnArea
    <3>2. pools'[s] = pools[s] /\ offsets'[s] = offsets[s]
      BY <1>b, <2>1, <2>3, <3>1
    <3> QED
      BY <1>a, <2>1, <3>2 DEF BelowOffset
  <2> QED
    BY <1>a, <2>1, <2>4, <2>5 DEF Disjoint
<1>3. ASSUME NEW t \in Thread,
             Files(t) \/ Announce(t) \/ AnnounceNested(t) \/ Report(t)
      PROVE  OwnArea' /\ BelowOffset' /\ Disjoint'
  <2>1. /\ UNCHANGED <<pools, mapped, handed, offsets, region, req>>
        /\ \A u \in Thread : pc[u] = "advance" => pc'[u] = "advance"
    BY <1>3, <1>c DEF Files, RecordSize, RecordPool, Load, Increment, Announce,
                      AnnounceNested, Report, rvars, avars, regvars, Goto
  <2>2. BelowOffset'
    BY <1>a, <2>1 DEF BelowOffset
  <2> QED
    BY <1>a, <2>1, <2>2 DEF OwnArea, Disjoint
<1>4. ASSUME NEW t \in Thread, Carve(t) PROVE OwnArea' /\ BelowOffset' /\ Disjoint'
  <2> DEFINE r == region[t]
             new == [area |-> pools[r], from |-> offsets[r], size |-> req[t],
                     nth |-> Cardinality(handed)]
  <2>1. /\ UNCHANGED <<pools, mapped, offsets, region, req>>
        /\ handed' = handed \cup {new}
        /\ pc[t] = "carve" /\ pc'[t] = "advance"
        /\ \A u \in Thread : pc[u] = "advance" => pc'[u] = "advance"
    BY <1>4, <1>c DEF Carve, rvars, avars, regvars, Goto
  <2>2. /\ r \in Region /\ offsets[r] \in Nat /\ req[t] \in Nat
        /\ new.area = pools[r] /\ new.from = offsets[r] /\ new.size = req[t]
    BY <1>b
  <2>3. \A h \in handed : h.area = pools[r] => h.from + h.size <= offsets[r]
    <3> SUFFICES ASSUME NEW h \in handed, h.area = pools[r]
                 PROVE  h.from + h.size <= offsets[r]
      OBVIOUS
    <3>1. ASSUME NEW u \in Thread, pc[u] = "advance", region[u] = r
          PROVE FALSE
      BY <1>d, <2>1, <3>1
    <3> QED
      BY <1>a, <2>2, <3>1 DEF BelowOffset
  <2> HIDE DEF new
  <2>4. OwnArea'
    BY <1>a, <2>1, <2>2 DEF OwnArea
  <2>5. BelowOffset'
    <3> SUFFICES ASSUME NEW s \in Region, NEW h \in handed', h.area = pools[s]
                 PROVE  \/ h.from + h.size <= offsets[s]
                        \/ \E u \in Thread : /\ pc'[u] = "advance" /\ region[u] = s
                                             /\ h.from + h.size <= offsets[s] + req[u]
      BY <2>1 DEF BelowOffset
    <3>1. CASE h \in handed
      BY <1>a, <2>1, <3>1 DEF BelowOffset
    <3>2. CASE h = new
      <4>1. s = r
        BY <1>a, <2>2, <3>2 DEF OwnArea
      <4> QED
        BY <2>1, <2>2, <3>2, <4>1
    <3> QED
      BY <2>1, <3>1, <3>2
  <2>6. Disjoint'
    <3> SUFFICES ASSUME NEW g \in handed', NEW h \in handed', g # h, g.area = h.area
                 PROVE  g.from + g.size <= h.from \/ h.from + h.size <= g.from
      BY DEF Disjoint
    <3>1. CASE g \in handed /\ h \in handed
      BY <1>a, <3>1 DEF Disjoint
    <3>2. CASE g = new \/ h = new
      BY <2>1, <2>2, <2>3, <3>2
    <3> QED
      BY <2>1, <3>1, <3>2
  <2> QED
    BY <2>4, <2>5, <2>6
<1>5. ASSUME NEW t \in Thread, Advance(t) PROVE OwnArea' /\ BelowOffset' /\ Disjoint'
  <2> DEFINE r == region[t]
  <2>1. /\ UNCHANGED <<pools, mapped, handed, region, req>>
        /\ offsets' = [offsets EXCEPT ![r] = @ + req[t]]
        /\ pc[t] = "advance"
        /\ \A u \in Thread \ {t} : pc'[u] = pc[u]
    BY <1>5, <1>c DEF Advance, avars, regvars, Goto
  <2>2. r \in Region /\ offsets[r] \in Nat /\ req[t] \in Nat
    BY <1>b
  <2>3. BelowOffset'
    <3> SUFFICES ASSUME NEW s \in Region, NEW h \in handed, h.area = pools[s]
                 PROVE  \/ h.from + h.size <= offsets'[s]
                        \/ \E u \in Thread : /\ pc'[u] = "advance" /\ region[u] = s
                                             /\ h.from + h.size <= offsets'[s] + req[u]
      BY <2>1 DEF BelowOffset
    <3>1. CASE s = r
      <4>1. \A u \in Thread : pc[u] = "advance" /\ region[u] = s => u = t
        BY <1>d, <2>1, <3>1
      <4>2. h.from + h.size <= offsets[r] + req[t]
        BY <1>a, <1>b, <2>2, <3>1, <4>1 DEF BelowOffset
      <4>3. offsets'[s] = offsets[r] + req[t]
        BY <1>b, <2>1, <2>2, <3>1
      <4> QED
        BY <4>2, <4>3
    <3>2. CASE s # r
      <4>1. offsets'[s] = offsets[s]
        BY <1>b, <2>1, <3>2
      <4>2. \A u \in Thread : region[u] = s => u # t /\ pc'[u] = pc[u]
        BY <2>1, <3>2
      <4> QED
        BY <1>a, <4>1, <4>2 DEF BelowOffset
    <3> QED
      BY <3>1, <3>2
  <2> QED
    BY <1>a, <2>1, <2>3 DEF OwnArea, Disjoint
<1>6. CASE UNCHANGED vars
  BY <1>a, <1>6 DEF vars, rvars, avars, regvars, OwnArea, BelowOffset, Disjoint
<1> QED
  BY <1>1, <1>2, <1>3, <1>4, <1>5, <1>6 DEF Next, Call, Step, Done, Files

\* No page is handed out twice, whatever the interleaving of the threads in
\* MmapManager::Malloc and with or without forced extension.
THEOREM NeverHandedOutTwice == Spec => []Disjoint
<1>1. IInv => Disjoint
  BY DEF IInv
<1> QED
  BY <1>1, IInvInit, IInvStep, PTL DEF Spec

-----------------------------------------------------------------------------
(* Only mapped memory is handed out when the areas are extended.           *)

\* A thread about to compute its address has room for the request.
Room ==
  \A t \in Thread :
    pc[t] = "carve" => offsets[region[t]] + req[t] <= length[pools[region[t]]]

LEMMA RoomStep ==
  ForceMmap /\ IInv /\ Room /\ InBounds /\ [Next]_vars => Room' /\ InBounds'
<1> SUFFICES ASSUME ForceMmap, IInv, Room, InBounds, [Next]_vars
             PROVE  Room' /\ InBounds'
  OBVIOUS
<1>a. TypeOK /\ Mutex /\ OwnArea
  BY DEF IInv
<1>b. /\ pools \in [Region -> Area] /\ offsets \in [Region -> Nat] /\ mapped \in Nat
      /\ length \in [Area -> Nat] /\ pc = [t \in Thread |-> pc[t]]
      /\ region \in [Thread -> Region] /\ req \in [Thread -> Nat]
  BY <1>a DEF TypeOK
<1>c. \A t, u \in Thread :
        pc[t] \notin Outside /\ pc[u] \notin Outside /\ region[t] = region[u] => t = u
  BY <1>a, Alone
<1>d. \A h \in handed : h.area \in Area /\ h.area # mapped
  <2>1. \A h \in handed : h.area \in Area /\ h.area \in Nat
    <3>1. Area \subseteq Nat
      BY MmapAssumption DEF Area
    <3>2. \A h \in Extent : h.area \in Area
      BY DEF Extent
    <3> QED
      BY <1>a, <3>1, <3>2 DEF TypeOK
  <2> QED
    BY <1>a, <1>b, <2>1 DEF OwnArea
<1>1. ASSUME NEW t \in Thread, NEW core \in Core, NEW size \in Request, Malloc(t, core, size)
      PROVE  Room' /\ InBounds'
  <2>1. /\ UNCHANGED <<pools, length, handed, offsets>>
        /\ \A u \in Thread : pc'[u] = "carve" =>
             pc[u] = "carve" /\ region'[u] = region[u] /\ req'[u] = req[u]
    BY <1>1, <1>b DEF Malloc, rvars, avars, regvars, Goto
  <2> QED
    BY <2>1 DEF Room, InBounds
<1>8. ASSUME NEW t \in Thread, Enter(t) \/ Touched(t) PROVE Room' /\ InBounds'
  <2> DEFINE r == region[t]
  <2>1. /\ UNCHANGED <<pools, length, handed, offsets, region, req>>
        /\ \A u \in Thread \ {t} : pc'[u] = pc[u]
        /\ pc'[t] = "carve" => Rest(t) = "carve"
    BY <1>8, <1>b DEF Enter, Touched, rvars, avars, regvars, Goto
  <2>2. r \in Region /\ req[t] \in Nat
    BY <1>b
  <2>3. pc'[t] = "carve" => offsets[r] + req[t] <= length[pools[r]]
    <3>1. sizes(r) \in Nat /\ offsets[r] \in Nat
      BY <1>b, <2>2 DEF sizes
    <3>2. Rest(t) = "carve" => ~(sizes(r) - offsets[r] < req[t])
      BY DEF Rest
    <3> QED
      BY <2>1, <2>2, <3>1, <3>2 DEF sizes
  <2>4. Room'
    BY <1>b, <2>1, <2>3 DEF Room
  <2> QED
    BY <2>1, <2>4 DEF InBounds
<1>2. ASSUME NEW t \in Thread, ExtendBuffer(t) PROVE Room' /\ InBounds'
  <2>1. /\ UNCHANGED <<handed, region, req>>
        /\ pools' = [pools EXCEPT ![region[t]] = mapped]
        /\ offsets' = [offsets EXCEPT ![region[t]] = 0]
        /\ length' = [length EXCEPT ![mapped] = AllocSize(req[t])]
        /\ pc[t] = "extend" /\ pc'[t] = "record_size"
        /\ \A u \in Thread \ {t} : pc'[u] = pc[u]
    BY <1>2, <1>b DEF ExtendBuffer, Goto
  <2>2. \A a \in Area : a # mapped => length'[a] = length[a]
    BY <1>b, <2>1
  <2>3. Room'
    <3> SUFFICES ASSUME NEW u \in Thread, pc'[u] = "carve"
                 PROVE  offsets'[region[u]] + req[u] <= length'[pools'[region[u]]]
      BY <2>1 DEF Room
    <3>1. u # t /\ pc[u] = "carve"
      BY <2>1
    <3>2. region[u] # region[t]
      BY <1>c, <2>1, <3>1
    <3>3. /\ offsets'[region[u]] = offsets[region[u]]
          /\ pools'[region[u]] = pools[region[u]]
      BY <1>b, <2>1, <3>2
    <3>4. pools[region[u]] \in Area /\ pools[region[u]] # mapped
      <4>1. region[u] \in Region /\ pools[region[u]] \in Area
        BY <1>b
      <4>2. pools[region[u]] \in Nat /\ pools[region[u]] < mapped
        BY <1>a, <4>1, MmapAssumption DEF OwnArea, Area
      <4> QED
        BY <1>b, <4>1, <4>2
    <3> QED
      BY <2>2, <3>1, <3>3, <3>4 DEF Room
  <2> QED
    BY <1>d, <2>1, <2>2, <2>3 DEF InBounds
<1>3. ASSUME NEW t \in Thread, Touch(t) \/ Files(t) \/ Announce(t) \/ AnnounceNested(t)
      PROVE  Room' /\ InBounds'
  <2>1. /\ UNCHANGED <<pools, length, handed, offsets, region, req>>
        /\ \A u \in Thread : pc'[u] = "carve" => pc[u] = "carve"
    BY <1>3, <1>b DEF Touch, Files, RecordSize, RecordPool, Load, Increment,
                      Announce, AnnounceNested, rvars, avars, regvars, Goto
  <2> QED
    BY <2>1 DEF Room, InBounds
<1>4. ASSUME NEW t \in Thread, Report(t) PROVE Room' /\ InBounds'
  <2>1. /\ UNCHANGED <<pools, length, handed, offsets, region, req>>
        /\ \A u \in Thread \ {t} : pc'[u] = pc[u]
        /\ pc'[t] = "carve" => sizes(region[t]) - offsets[region[t]] >= req[t]
    BY <1>4, <1>b DEF Report, rvars, avars, regvars, Goto
  <2>2. /\ sizes(region[t]) \in Nat /\ offsets[region[t]] \in Nat /\ req[t] \in Nat
    BY <1>b DEF sizes
  <2>3. pc'[t] = "carve" => offsets[region[t]] + req[t] <= length[pools[region[t]]]
    BY <2>1, <2>2 DEF sizes
  <2> QED
    BY <2>1, <2>3 DEF Room, InBounds
<1>5. ASSUME NEW t \in Thread, Carve(t) PROVE Room' /\ InBounds'
  <2> DEFINE r == region[t]
             new == [area |-> pools[r], from |-> offsets[r], size |-> req[t],
                     nth |-> Cardinality(handed)]
  <2>1. /\ UNCHANGED <<pools, length, offsets, region, req>>
        /\ handed' = handed \cup {new} /\ pc[t] = "carve"
        /\ \A u \in Thread : pc'[u] = "carve" => pc[u] = "carve"
    BY <1>5, <1>b DEF Carve, rvars, avars, regvars, Goto
  <2>2. new.from + new.size <= length[new.area]
    BY <2>1 DEF Room
  <2> QED
    BY <2>1, <2>2 DEF Room, InBounds
<1>6. ASSUME NEW t \in Thread, Advance(t) PROVE Room' /\ InBounds'
  <2>1. /\ UNCHANGED <<pools, length, handed, region, req>>
        /\ offsets' = [offsets EXCEPT ![region[t]] = @ + req[t]]
        /\ pc[t] = "advance" /\ pc'[t] = "idle"
        /\ \A u \in Thread \ {t} : pc'[u] = pc[u]
    BY <1>6, <1>b DEF Advance, avars, regvars, Goto
  <2>2. \A u \in Thread : pc'[u] = "carve" =>
          pc[u] = "carve" /\ offsets'[region[u]] = offsets[region[u]]
    BY <1>b, <1>c, <2>1
  <2> QED
    BY <2>1, <2>2 DEF Room, InBounds
<1>7. CASE UNCHANGED vars
  BY <1>7 DEF vars, rvars, avars, regvars, Room, InBounds
<1> QED
  BY <1>1, <1>2, <1>3, <1>4, <1>5, <1>6, <1>7, <1>8 DEF Next, Call, Step, Done, Files

\* With forced extension (the default) only mapped memory is handed out.  Two
\* facts carry this: ExtendBuffer maps at least what is asked for, and only
\* the holder of the region's mutex moves the region's area and offset.
THEOREM OnlyMappedMemory == ASSUME ForceMmap PROVE Spec => []InBounds
<1>1. Init => Room /\ InBounds
  BY DEF Init, Room, InBounds
<1>2. IInv /\ Room /\ InBounds /\ [Next]_vars => Room' /\ InBounds'
  BY RoomStep
<1> QED
  BY <1>1, <1>2, IInvInit, IInvStep, PTL DEF Spec

-----------------------------------------------------------------------------
(* FirstTouch.                                                             *)

\* A region that has been used is marked as touched, one in which a thread
\* runs FirstTouch is not.
TouchedInUse ==
  /\ \A r \in Region, h \in handed : h.area = pools[r] => firstTouchFlag[r]
  /\ \A t \in Thread : pc[t] \notin Outside =>
       (firstTouchFlag[region[t]] <=> pc[t] # "touch")

LEMMA TouchStep ==
  IInv /\ TouchedInUse /\ TouchedFirst /\ [Next]_vars => TouchedInUse' /\ TouchedFirst'
<1> SUFFICES ASSUME IInv, TouchedInUse, TouchedFirst, [Next]_vars
             PROVE  TouchedInUse' /\ TouchedFirst'
  OBVIOUS
<1>b. /\ firstTouchFlag \in [Region -> BOOLEAN] /\ pools \in [Region -> Area]
      /\ mapped \in Nat /\ DOMAIN pc = Thread /\ region \in [Thread -> Region]
  BY DEF IInv, TypeOK
<1>1. ASSUME NEW t \in Thread, Enter(t) PROVE TouchedInUse' /\ TouchedFirst'
  <2>1. /\ UNCHANGED <<pools, handed, region, firstTouchFlag, overwritten>>
        /\ \A u \in Thread \ {t} : pc'[u] = pc[u]
        /\ pc'[t] = IF ~firstTouchFlag[region[t]] THEN "touch" ELSE Rest(t)
    BY <1>1, <1>b DEF Enter, Untouched, rvars, Goto
  <2>2. Rest(t) # "touch" /\ region[t] \in Region
    BY <1>b DEF Rest
  <2> QED
    BY <2>1, <2>2 DEF TouchedInUse, TouchedFirst
<1>7. ASSUME NEW t \in Thread, Touch(t) PROVE TouchedInUse' /\ TouchedFirst'
  <2>1. /\ UNCHANGED <<pools, handed, region, firstTouchFlag, pc>> /\ pc[t] = "touch"
        /\ \A h \in overwritten' : h \in overwritten \/ (h \in handed /\ h.area = pools[region[t]])
    BY <1>7 DEF Touch
  <2>2. region[t] \in Region /\ ~firstTouchFlag[region[t]]
    BY <1>b, <2>1 DEF TouchedInUse
  <2>3. \A h \in overwritten' : FALSE
    BY <2>1, <2>2 DEF TouchedInUse, TouchedFirst
  <2> QED
    BY <2>1, <2>3 DEF TouchedInUse, TouchedFirst
<1>8. ASSUME NEW t \in Thread, Touched(t) PROVE TouchedInUse' /\ TouchedFirst'
  <2> DEFINE r == region[t]
  <2>1. /\ UNCHANGED <<pools, handed, region, overwritten>> /\ pc[t] = "touch"
        /\ firstTouchFlag' = [firstTouchFlag EXCEPT ![r] = TRUE]
        /\ \A u \in Thread \ {t} : pc'[u] = pc[u]
        /\ pc'[t] = Rest(t)
    BY <1>8, <1>b DEF Touched, Goto
  <2>2. r \in Region /\ Rest(t) # "touch"
    BY <1>b DEF Rest
  <2>3. \A u \in Thread \ {t} : pc[u] \notin Outside => region[u] # r
    BY <2>1, Alone DEF IInv
  <2> QED
    BY <1>b, <2>1, <2>2, <2>3 DEF TouchedInUse, TouchedFirst
<1>6. ASSUME NEW t \in Thread, NEW core \in Core, NEW size \in Request, Malloc(t, core, size)
      PROVE  TouchedInUse' /\ TouchedFirst'
  <2>1. /\ UNCHANGED <<pools, handed, firstTouchFlag, overwritten>>
        /\ \A u \in Thread : pc'[u] \notin Outside => pc'[u] = pc[u] /\ region'[u] = region[u]
    BY <1>6, <1>b DEF Malloc, rvars, avars, regvars, Goto
  <2> QED
    BY <2>1 DEF TouchedInUse, TouchedFirst
<1>2. ASSUME NEW t \in Thread, ExtendBuffer(t) PROVE TouchedInUse' /\ TouchedFirst'
  <2>1. /\ UNCHANGED <<handed, region, firstTouchFlag, overwritten>>
        /\ pools' = [pools EXCEPT ![region[t]] = mapped] /\ pc[t] = "extend"
        /\ pc[t] \notin Outside /\ pc[t] # "touch" /\ pc'[t] # "touch"
        /\ \A u \in Thread \ {t} : pc'[u] = pc[u]
    BY <1>2, <1>b DEF ExtendBuffer, Goto
  <2>2. firstTouchFlag[region[t]]
    BY <2>1 DEF TouchedInUse
  <2> QED
    BY <1>b, <2>1, <2>2 DEF TouchedInUse, TouchedFirst
<1>3. ASSUME NEW t \in Thread,
             \/ Files(t) \/ Announce(t) \/ AnnounceNested(t)
             \/ Report(t) \/ Advance(t)
      PROVE  TouchedInUse' /\ TouchedFirst'
  <2>1. /\ UNCHANGED <<pools, handed, region, firstTouchFlag, overwritten>>
        /\ pc[t] \notin Outside /\ pc[t] # "touch" /\ pc'[t] # "touch"
        /\ \A u \in Thread \ {t} : pc'[u] = pc[u]
    BY <1>3, <1>b DEF Files, RecordSize, RecordPool, Load, Increment, Announce, AnnounceNested,
                      Report, Advance, rvars, avars, regvars, Goto
  <2> QED
    BY <2>1 DEF TouchedInUse, TouchedFirst
<1>4. ASSUME NEW t \in Thread, Carve(t) PROVE TouchedInUse' /\ TouchedFirst'
  <2>1. /\ UNCHANGED <<pools, region, firstTouchFlag, overwritten>> /\ pc[t] = "carve"
        /\ \A h \in handed' : h \in handed \/ h.area = pools[region[t]]
        /\ pc[t] \notin Outside /\ pc[t] # "touch" /\ pc'[t] # "touch"
        /\ \A u \in Thread \ {t} : pc'[u] = pc[u]
    BY <1>4, <1>b DEF Carve, rvars, avars, regvars, Goto
  <2>2. \A r \in Region : pools[r] = pools[region[t]] => r = region[t]
    BY <1>b DEF IInv, OwnArea
  <2> QED
    BY <2>1, <2>2 DEF TouchedInUse, TouchedFirst
<1>5. CASE UNCHANGED vars
  BY <1>5 DEF vars, rvars, TouchedInUse, TouchedFirst
<1> QED
  BY <1>1, <1>2, <1>3, <1>4, <1>5, <1>6, <1>7, <1>8 DEF Next, Call, Step, Done, Files

\* FirstTouch never clears memory that a caller already has: an area is
\* replaced only after its region's flag is set.
THEOREM FirstTouchIsFirst == Spec => []TouchedFirst
<1>1. Init => TouchedInUse /\ TouchedFirst
  BY DEF Init, TouchedInUse, TouchedFirst
<1> QED
  BY <1>1, IInvInit, IInvStep, TouchStep, PTL DEF Spec

-----------------------------------------------------------------------------
(* The registry.                                                           *)

\* The threads between the ASSERT of ExtendBuffer and the increment.
Filing == {t \in Thread : pc[t] \in {"record_size", "record_pool", "load", "increment"}}

\* The counter, and what a thread is about to store in it, are at most one
\* more than the number of extensions that are over.
Counted ==
  /\ extendOffset + Cardinality(Filing) <= mapped - CoreN
  /\ \A t \in Thread : pc[t] = "increment" => seen[t] + Cardinality(Filing) <= mapped - CoreN

LEMMA FilingFinite == IsFiniteSet(Filing) /\ Cardinality(Filing) \in Nat
<1>1. IsFiniteSet(Filing)
  BY MmapAssumption, FS_Subset DEF Filing
<1> QED
  BY <1>1, FS_CardinalityType

LEMMA CountedStep == TypeOK /\ Counted /\ [Next]_vars => Counted'
<1> SUFFICES ASSUME TypeOK, Counted, [Next]_vars PROVE Counted'
  OBVIOUS
<1> DEFINE n == Cardinality(Filing)
<1>a. /\ CoreN \in Nat /\ mapped \in Nat /\ extendOffset \in Nat
      /\ seen \in [Thread -> Nat] /\ DOMAIN pc = Thread
      /\ IsFiniteSet(Filing) /\ n \in Nat
  BY MmapAssumption, FilingFinite DEF TypeOK
<1>b. /\ extendOffset + n <= mapped - CoreN
      /\ \A t \in Thread : pc[t] = "increment" => seen[t] + n <= mapped - CoreN
  BY DEF Counted
<1>1. ASSUME NEW t \in Thread, ExtendBuffer(t) PROVE Counted'
  <2>1. /\ UNCHANGED <<extendOffset, seen>> /\ mapped' = mapped + 1
        /\ pc[t] = "extend" /\ pc'[t] = "record_size" /\ \A u \in Thread \ {t} : pc'[u] = pc[u]
    BY <1>1, <1>a DEF ExtendBuffer, Goto
  <2>2. Filing' = Filing \cup {t} /\ t \notin Filing
    BY <2>1 DEF Filing
  <2>3. n' = n + 1
    BY <1>a, <2>2, FS_AddElement
  <2> HIDE DEF n
  <2>4. \A u \in Thread : pc'[u] = "increment" => pc[u] = "increment"
    BY <2>1
  <2>5. extendOffset' + n' <= mapped' - CoreN
    BY <1>a, <1>b, <2>1, <2>3
  <2>6. \A u \in Thread : pc'[u] = "increment" => seen'[u] + n' <= mapped' - CoreN
    BY <1>a, <1>b, <2>1, <2>3, <2>4
  <2> QED
    BY <2>5, <2>6 DEF Counted, n
<1>2. ASSUME NEW t \in Thread, Increment(t) PROVE Counted'
  <2>1. /\ UNCHANGED <<mapped, seen>> /\ extendOffset' = seen[t] + 1
        /\ pc[t] = "increment" /\ pc'[t] = "announce" /\ \A u \in Thread \ {t} : pc'[u] = pc[u]
    BY <1>2, <1>a DEF Increment, NextOffset, Goto
  <2>2. Filing' = Filing \ {t} /\ t \in Filing
    BY <2>1 DEF Filing
  <2>3. n' = n - 1
    BY <1>a, <2>2, FS_RemoveElement
  <2> HIDE DEF n
  <2>4. \A u \in Thread : pc'[u] = "increment" => pc[u] = "increment"
    BY <2>1
  <2>5. extendOffset' + n' <= mapped' - CoreN
    BY <1>a, <1>b, <2>1, <2>3
  <2>6. \A u \in Thread : pc'[u] = "increment" => seen'[u] + n' <= mapped' - CoreN
    BY <1>a, <1>b, <2>1, <2>3, <2>4
  <2> QED
    BY <2>5, <2>6 DEF Counted, n
<1>3. ASSUME NEW t \in Thread, RecordSize(t) \/ RecordPool(t) \/ Load(t) PROVE Counted'
  <2>1. /\ UNCHANGED <<mapped, extendOffset>> /\ \A u \in Thread \ {t} : pc'[u] = pc[u]
        /\ \/ pc[t] = "record_size" /\ pc'[t] = "record_pool"
           \/ pc[t] = "record_pool" /\ pc'[t] = "load"
           \/ pc[t] = "load" /\ pc'[t] = "increment"
    BY <1>3, <1>a DEF RecordSize, RecordPool, Load, avars, Goto
  <2>2. Filing' = Filing
    BY <2>1 DEF Filing
  <2>3. \A u \in Thread : pc'[u] = "increment" =>
          seen'[u] = extendOffset \/ (pc[u] = "increment" /\ seen'[u] = seen[u])
    BY <1>3, <1>a DEF RecordSize, RecordPool, Load, Goto
  <2>4. n' = n
    BY <2>2
  <2> HIDE DEF n
  <2>5. \A u \in Thread : pc'[u] = "increment" => seen'[u] + n' <= mapped' - CoreN
    BY <1>b, <2>1, <2>3, <2>4
  <2> QED
    BY <1>b, <2>1, <2>4, <2>5 DEF Counted, n
<1>4. ASSUME NEW t \in Thread,
             \/ \E core \in Core, size \in Request : Malloc(t, core, size)
             \/ Enter(t) \/ Touch(t) \/ Touched(t) \/ Announce(t) \/ AnnounceNested(t)
             \/ Report(t) \/ Carve(t) \/ Advance(t)
      PROVE  Counted'
  <2> DEFINE Places == {"record_size", "record_pool", "load", "increment"}
  <2>1. /\ UNCHANGED <<mapped, extendOffset, seen>> /\ \A u \in Thread \ {t} : pc'[u] = pc[u]
        /\ pc[t] \notin Places /\ pc'[t] \notin Places
    BY <1>4, <1>a DEF Malloc, Enter, Touch, Touched, Announce, AnnounceNested, Report,
                      Carve, Advance, Rest, avars, Goto
  <2>2. Filing' = Filing
    BY <2>1 DEF Filing
  <2>3. \A u \in Thread : pc'[u] = "increment" => pc[u] = "increment"
    BY <2>1
  <2> QED
    BY <2>1, <2>2, <2>3 DEF Counted
<1>5. CASE UNCHANGED vars
  <2>1. UNCHANGED <<mapped, extendOffset, seen, pc>>
    BY <1>5 DEF vars, avars
  <2>2. Filing' = Filing
    BY <2>1 DEF Filing
  <2> QED
    BY <2>1, <2>2 DEF Counted
<1> QED
  BY <1>1, <1>2, <1>3, <1>4, <1>5 DEF Next, Call, Step, Done

\* extendMax_ - 1 extensions have a place in the registry: threads of two
\* regions that increment extendOffset_ at the same time can only lose counts,
\* and what they add after the ASSERT of a third leaves its record in its row.
THEOREM RegistryHasRoom == Spec => []RegistrySuffices
<1>1. Init => Counted
  <2> SUFFICES ASSUME Init PROVE Counted
    OBVIOUS
  <2>1. Filing = {}
    BY DEF Init, Filing
  <2>2. Cardinality(Filing) = 0
    BY <2>1, FS_EmptySet
  <2> QED
    BY <2>2, MmapAssumption DEF Init, Counted
<1>2. TypeOK /\ Counted => RegistrySuffices
  <2> SUFFICES ASSUME TypeOK, Counted PROVE RegistrySuffices
    OBVIOUS
  <2>1. /\ CoreN \in Nat /\ ExtendMax \in Nat /\ mapped \in Nat /\ extendOffset \in Nat
        /\ Cardinality(Filing) \in Nat /\ extendOffset + Cardinality(Filing) <= mapped - CoreN
    BY MmapAssumption, FilingFinite DEF TypeOK, Counted
  <2>2. Recording # {} => Cardinality(Filing) >= 1
    <3>1. Recording \subseteq Filing
      BY DEF Recording, Filing
    <3>2. Cardinality(Filing) = 0 <=> Filing = {}
      BY FilingFinite, FS_EmptySet
    <3> QED
      BY <2>1, <3>1, <3>2
  <2>3. mapped < CoreN + ExtendMax => InRow
    BY <2>1 DEF InRow
  <2>4. mapped <= CoreN + ExtendMax /\ Recording # {} => InRow
    BY <2>1, <2>2 DEF InRow
  <2> QED
    BY <2>3, <2>4 DEF RegistrySuffices
<1> QED
  BY <1>1, <1>2, TypeInit, TypeStep, CountedStep, PTL DEF Spec

-----------------------------------------------------------------------------
(* MmapManager implements PageSource.                                      *)

Reporting == {"record_size", "record_pool", "load", "increment", "announce", "nested", "report"}

\* The serial numbers of the ranges are below their count; a call in progress
\* has asked for a size; the area it has just mapped is empty and long enough.
Serving ==
  /\ \A h \in handed : h.nth < Cardinality(handed)
  /\ \A t \in Thread : pc[t] # "idle" => req[t] \in Request
  /\ \A t \in Thread : pc[t] \in Reporting =>
       offsets[region[t]] = 0 /\ req[t] <= sizes(region[t])

LEMMA ServingStep == IInv /\ Serving /\ [Next]_vars => Serving'
<1> SUFFICES ASSUME IInv, Serving, [Next]_vars PROVE Serving'
  OBVIOUS
<1> USE DEF Reporting, sizes
<1>a. /\ pools \in [Region -> Area] /\ offsets \in [Region -> Nat] /\ mapped \in Nat
      /\ length \in [Area -> Nat] /\ DOMAIN pc = Thread /\ IsFiniteSet(handed)
      /\ region \in [Thread -> Region] /\ req \in [Thread -> Nat]
  BY DEF IInv, TypeOK
<1>b. \A t, u \in Thread :
        pc[t] \notin Outside /\ pc[u] \notin Outside /\ region[t] = region[u] => t = u
  BY Alone DEF IInv
<1>c. \A r \in Region : pools[r] \in Area /\ pools[r] # mapped
  <2>1. \A r \in Region : pools[r] \in Area /\ pools[r] \in Nat /\ pools[r] < mapped
    BY <1>a, MmapAssumption DEF IInv, OwnArea, Area
  <2> QED
    BY <1>a, <2>1
<1>1. ASSUME NEW t \in Thread, NEW core \in Core, NEW size \in Request, Malloc(t, core, size)
      PROVE  Serving'
  <2>1. /\ UNCHANGED <<handed, offsets, pools, length>> /\ req'[t] = size
        /\ pc'[t] = "lock"
        /\ \A u \in Thread \ {t} : /\ pc'[u] = pc[u] /\ req'[u] = req[u]
                                   /\ region'[u] = region[u]
    BY <1>1, <1>a DEF Malloc, rvars, avars, regvars, Goto
  <2> QED
    BY <2>1 DEF Serving
<1>2. ASSUME NEW t \in Thread, ExtendBuffer(t) PROVE Serving'
  <2>1. /\ UNCHANGED <<handed, region, req>> /\ pc[t] = "extend" /\ pc'[t] = "record_size"
        /\ pools' = [pools EXCEPT ![region[t]] = mapped]
        /\ offsets' = [offsets EXCEPT ![region[t]] = 0]
        /\ length' = [length EXCEPT ![mapped] = AllocSize(req[t])] /\ mapped \in Area
        /\ \A u \in Thread \ {t} : pc'[u] = pc[u]
    BY <1>2, <1>a DEF ExtendBuffer, Goto
  <2>2. offsets'[region[t]] = 0 /\ req[t] <= length'[pools'[region[t]]]
    BY <1>a, <2>1, AreaType
  <2>3. ASSUME NEW u \in Thread \ {t}, pc'[u] \in Reporting
        PROVE  offsets'[region[u]] = 0 /\ req[u] <= length'[pools'[region[u]]]
    <3>1. region[u] # region[t]
      BY <1>b, <2>1, <2>3
    <3>2. /\ pools'[region[u]] = pools[region[u]] /\ offsets'[region[u]] = offsets[region[u]]
          /\ length'[pools[region[u]]] = length[pools[region[u]]]
      BY <1>a, <1>c, <2>1, <3>1
    <3> QED
      BY <2>1, <2>3, <3>2 DEF Serving
  <2>4. \A u \in Thread : pc'[u] # "idle" => req'[u] \in Request
    BY <2>1 DEF Serving
  <2> QED
    BY <2>1, <2>2, <2>3, <2>4 DEF Serving
<1>3. ASSUME NEW t \in Thread,
             \/ Enter(t) \/ Touch(t) \/ Touched(t) \/ Files(t) \/ Announce(t)
             \/ AnnounceNested(t) \/ Report(t)
      PROVE  Serving'
  <2>1. /\ UNCHANGED <<handed, region, req, pools, offsets, length>>
        /\ \A u \in Thread : /\ pc'[u] \in Reporting => pc[u] \in Reporting
                             /\ pc'[u] # "idle" => pc[u] # "idle"
    BY <1>3, <1>a DEF Enter, Touch, Touched, Files, RecordSize, RecordPool,
                      Load, Increment, Announce, AnnounceNested, Report,
                      Rest, rvars, avars, regvars, Goto
  <2> QED
    BY <2>1 DEF Serving
<1>4. ASSUME NEW t \in Thread, Carve(t) PROVE Serving'
  <2> DEFINE new == [area |-> pools[region[t]], from |-> offsets[region[t]],
                     size |-> req[t], nth |-> Cardinality(handed)]
  <2>1. /\ UNCHANGED <<region, req, pools, offsets, length>> /\ handed' = handed \cup {new}
        /\ \A u \in Thread : /\ pc'[u] \in Reporting => pc[u] \in Reporting
                             /\ pc'[u] # "idle" => pc[u] # "idle"
    BY <1>4, <1>a DEF Carve, rvars, avars, regvars, Goto
  <2>2. /\ new.nth = Cardinality(handed) /\ Cardinality(handed) \in Nat
        /\ \A h \in handed : h.nth \in Nat /\ h.nth < Cardinality(handed)
    BY <1>a, FS_CardinalityType DEF Serving, IInv, TypeOK, Extent
  <2>3. Cardinality(handed') = Cardinality(handed) + 1
    <3>1. new \notin handed
      BY <2>2
    <3>2. IsFiniteSet(handed)
      BY <1>a
    <3> QED
      BY <2>1, <3>1, <3>2, FS_AddElement
  <2>4. \A h \in handed' : h.nth < Cardinality(handed')
    BY <2>1, <2>2, <2>3
  <2> QED
    BY <2>1, <2>4 DEF Serving
<1>5. ASSUME NEW t \in Thread, Advance(t) PROVE Serving'
  <2>1. /\ UNCHANGED <<handed, region, req, pools, length>>
        /\ offsets' = [offsets EXCEPT ![region[t]] = @ + req[t]]
        /\ pc[t] = "advance" /\ pc'[t] = "idle"
        /\ \A u \in Thread \ {t} : pc'[u] = pc[u]
    BY <1>5, <1>a DEF Advance, avars, regvars, Goto
  <2>2. \A u \in Thread : pc'[u] \in Reporting =>
          pc[u] \in Reporting /\ offsets'[region[u]] = offsets[region[u]]
    BY <1>a, <1>b, <2>1
  <2> QED
    BY <2>1, <2>2 DEF Serving
<1>6. CASE UNCHANGED vars
  BY <1>6 DEF vars, rvars, avars, regvars, Serving
<1> QED
  BY <1>1, <1>2, <1>3, <1>4, <1>5, <1>6 DEF Next, Call, Step, Done, Files

LEMMA GiveStep ==
  ASSUME IInv, Serving, NEW t \in Thread, Carve(t) PROVE P!Give(t)
<1> DEFINE new == [area |-> pools[region[t]], from |-> offsets[region[t]],
                   size |-> req[t], nth |-> Cardinality(handed)]
<1>1. /\ UNCHANGED req /\ handed' = handed \cup {new} /\ pc[t] = "carve"
      /\ pc' = [pc EXCEPT ![t] = "advance"] /\ DOMAIN pc = Thread
  BY DEF Carve, Goto, IInv, TypeOK
<1>2. Asked[t] = req[t] /\ req[t] # None
  BY <1>1, MmapAssumption DEF Asked, Serving
<1>3. Asked' = [Asked EXCEPT ![t] = None]
  BY <1>1 DEF Asked
<1>4. new \notin handed
  <2>1. IsFiniteSet(handed) /\ \A h \in handed : h.nth < Cardinality(handed)
    BY DEF IInv, TypeOK, Serving
  <2>2. Cardinality(handed) \in Nat
    BY <2>1, FS_CardinalityType
  <2> QED
    BY <2>1, <2>2
<1>5. \A g \in handed : P!Apart(g, new)
  <2>1. IInv'
    BY IInvStep DEF Next, Step
  <2>2. Disjoint'
    BY <2>1 DEF IInv
  <2> QED
    BY <1>1, <1>4, <2>2 DEF Disjoint, P!Apart
<1> QED
  BY <1>1, <1>2, <1>3, <1>4, <1>5 DEF P!Give

LEMMA SourceStep ==
  IInv /\ Serving /\ [Next]_vars => [P!Next]_<<Asked, handed>>
<1> SUFFICES ASSUME IInv, Serving, Next PROVE P!Next \/ UNCHANGED <<Asked, handed>>
  BY DEF vars, Asked
<1>a. DOMAIN pc = Thread
  BY DEF IInv, TypeOK
<1>1. ASSUME NEW t \in Thread, NEW core \in Core, NEW size \in Request, Malloc(t, core, size)
      PROVE  P!Next
  <2>1. P!Ask(t, size)
    BY <1>1, <1>a DEF Malloc, P!Ask, Asked, Goto, IInv, TypeOK
  <2> QED
    BY <2>1 DEF P!Next
<1>2. ASSUME NEW t \in Thread, Carve(t) PROVE P!Next
  BY <1>2, GiveStep DEF P!Next
<1>3. ASSUME NEW t \in Thread, Report(t) PROVE UNCHANGED <<Asked, handed>>
  <2>1. UNCHANGED <<handed, req>> /\ pc[t] = "report"
    BY <1>3 DEF Report
  <2>2. sizes(region[t]) - offsets[region[t]] >= req[t]
    <3>1. /\ offsets[region[t]] = 0 /\ req[t] <= sizes(region[t])
      BY <2>1 DEF Serving, Reporting
    <3>2. sizes(region[t]) \in Nat /\ req[t] \in Nat
      BY DEF IInv, TypeOK, sizes
    <3> QED
      BY <3>1, <3>2
  <2>3. pc' = [pc EXCEPT ![t] = "carve"]
    BY <1>3, <2>2 DEF Report, Goto
  <2> QED
    BY <1>a, <2>1, <2>3 DEF Asked
<1>4. ASSUME NEW t \in Thread,
             \/ Enter(t) \/ Touch(t) \/ Touched(t) \/ ExtendBuffer(t) \/ Files(t)
             \/ Announce(t) \/ AnnounceNested(t) \/ Advance(t)
      PROVE  UNCHANGED <<Asked, handed>>
  <2>1. /\ UNCHANGED <<handed, req>>
        /\ \A u \in Thread : pc[u] \in {"idle", "advance"} <=> pc'[u] \in {"idle", "advance"}
    BY <1>4, <1>a DEF Enter, Touch, Touched, ExtendBuffer, Files,
                      RecordSize, RecordPool, Load, Increment, Announce,
                      AnnounceNested, Advance, Rest, Goto
  <2> QED
    BY <2>1 DEF Asked
<1>5. CASE Done
  BY <1>5 DEF Done, vars, Asked
<1> QED
  BY <1>1, <1>2, <1>3, <1>4, <1>5 DEF Next, Call, Step, Files

\* MmapManager implements PageSource: with or without forced extension every
\* answer is a range of the size asked for that nobody else has, and no
\* request is refused.
THEOREM SourceOfPages == Spec => ImplementsPageSource
<1>1. Init => Serving /\ P!Init
  BY DEF Init, Serving, P!Init, Asked, Reporting
<1>2. IInv /\ Serving /\ [Next]_vars => Serving' /\ [P!Next]_<<Asked, handed>>
  BY ServingStep, SourceStep
<1> QED
  BY <1>1, <1>2, IInvInit, IInvStep, PTL DEF Spec, ImplementsPageSource, P!Spec

=============================================================================
