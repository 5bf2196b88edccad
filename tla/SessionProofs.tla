---------------------------- MODULE SessionProofs ---------------------------
(***************************************************************************)
(* Proofs about the session for every set of callers, slot count and       *)
(* sequence-id width, and about the calls on it for every set of compounds *)
(* and every choice of Faults besides.  The first half is about SlotsSpec, *)
(* the specification of SessionSlots, which SessionCall extends.  The      *)
(* second half is about Spec, that of SessionCall, and uses the first.     *)
(***************************************************************************)
EXTENDS SessionCall, FiniteSetTheorems, TLAPS

\* Zenon proves the leaves that name no other prover.
USE Zenon

-----------------------------------------------------------------------------
(* The slot table *)

(***************************************************************************)
(* The inductive invariant.  NoFallback needs TokenAccounting (a scanning  *)
(* caller is counted, so some slot is free); TokenAccounting needs         *)
(* SlotExclusive (the slot that release frees was in use, so the count     *)
(* goes up by one); SlotExclusive and LeaseFresh hold by themselves.       *)
(***************************************************************************)
SlotIInv ==
    /\ TypeOK
    /\ SlotExclusive
    /\ TokenAccounting
    /\ NoFallback
    /\ LeaseFresh

\* NewSession makes at least one slot.
LEMMA NumSlotsPositive == NumSlots \in Nat /\ NumSlots >= 1
  BY SMTT(30), SlotCountInt DEF NumSlots

\* The slot ids and every set of callers or of slots are finite.
LEMMA CountsAreNat ==
    /\ IsFiniteSet(SlotIDs)
    /\ IsFiniteSet(FreeSlots)
    /\ Cardinality(FreeSlots) \in Nat
    /\ Cardinality(FreeSlots) <= NumSlots
    /\ \A l : IsFiniteSet(At(l)) /\ Cardinality(At(l)) \in Nat
  <1>1. IsFiniteSet(SlotIDs) /\ Cardinality(SlotIDs) = NumSlots
    <2>1. /\ IsFiniteSet(0 .. NumSlots - 1)
          /\ Cardinality(0 .. NumSlots - 1) =
                IF 0 > NumSlots - 1 THEN 0 ELSE NumSlots - 1 - 0 + 1
      BY SMTT(30), NumSlotsPositive, FS_Interval
    <2> QED  BY SMTT(30), <2>1, NumSlotsPositive DEF SlotIDs
  <1>2. FreeSlots \in SUBSET SlotIDs
    BY DEF FreeSlots
  <1>3. IsFiniteSet(FreeSlots) /\ Cardinality(FreeSlots) <= Cardinality(SlotIDs)
    BY <1>1, <1>2, FS_Subset
  <1>4. ASSUME NEW l
        PROVE  IsFiniteSet(At(l)) /\ Cardinality(At(l)) \in Nat
    <2>1. At(l) \in SUBSET Callers
      BY DEF At
    <2>2. IsFiniteSet(At(l))
      BY <2>1, CallersFinite, FS_Subset
    <2> QED  BY <2>2, FS_CardinalityType
  <1> QED  BY <1>1, <1>3, <1>4, FS_CardinalityType

(***************************************************************************)
(* A move of one caller takes it out of the count of the location it       *)
(* leaves, into the count of the one it enters, and changes no other.      *)
(***************************************************************************)
LEMMA MoveCounts ==
    ASSUME TypeOK, NEW t \in Callers, NEW from, NEW to,
           Move(t, from, to), from # to
    PROVE  /\ Cardinality(At(from)') = Cardinality(At(from)) - 1
           /\ Cardinality(At(to)') = Cardinality(At(to)) + 1
           /\ \A l : l # from /\ l # to => At(l)' = At(l)
  <1>1. /\ pc[t] = from
        /\ pc' = [pc EXCEPT ![t] = to]
        /\ pc \in [Callers -> Locations]
    BY DEF Move, TypeOK
  <1>2. At(from)' = At(from) \ {t} /\ t \in At(from)
    BY <1>1 DEF At
  <1>3. At(to)' = At(to) \cup {t} /\ t \notin At(to)
    BY <1>1 DEF At
  <1>4. ASSUME NEW l, l # from, l # to
        PROVE  At(l)' = At(l)
    BY <1>1, <1>4 DEF At
  <1>5. IsFiniteSet(At(from)) /\ IsFiniteSet(At(to))
    BY CountsAreNat
  <1>6. Cardinality(At(from) \ {t}) = Cardinality(At(from)) - 1
    BY <1>2, <1>5, FS_RemoveElement
  <1>7. Cardinality(At(to) \cup {t}) = Cardinality(At(to)) + 1
    BY <1>3, <1>5, FS_AddElement
  <1> QED  BY <1>2, <1>3, <1>4, <1>6, <1>7

\* The variables keep their types: a release wraps the sequence id, a send waits for room.
LEMMA SlotTypeStep == TypeOK /\ [SlotsNext]_slotVars => TypeOK'
  <1> SUFFICES ASSUME TypeOK, [SlotsNext]_slotVars
               PROVE  TypeOK'
    OBVIOUS
  <1> USE NumSlotsPositive, SeqModNat DEF TypeOK
  <1>1. ASSUME NEW t \in Callers, Acquire(t)
        PROVE  TypeOK'
    BY <1>1 DEF Acquire, Locations
  <1>2. ASSUME NEW t \in Callers, TakeToken(t)
        PROVE  TypeOK'
    BY SMTT(30), <1>2 DEF TakeToken, Move, Locations
  <1>3. ASSUME NEW t \in Callers, AcquireCancelled(t)
        PROVE  TypeOK'
    BY <1>3 DEF AcquireCancelled, Move, Locations
  <1>4. ASSUME NEW t \in Callers, Scan(t)
        PROVE  TypeOK'
    <2>1. CASE \A i \in SlotIDs : slots[i].inUse
      BY SMTT(30), <1>4, <2>1 DEF Scan, Move, Locations
    <2>2. ASSUME NEW i \in SlotIDs, Lease(t, i)
          PROVE  TypeOK'
      <3>1. highest' \in SlotIDs
        BY <2>2 DEF Lease
      <3>2. [slotID |-> i, seq |-> slots[i].seq,
             highest |-> highest', released |-> FALSE] \in Leases
        BY <3>1 DEF Leases
      <3>3. lease' \in [Callers -> Leases]
        BY <2>2, <3>2 DEF Lease
      <3>4. slots' \in [SlotIDs -> [seq : Seqs, inUse : BOOLEAN]]
        BY <2>2 DEF Lease
      <3> QED  BY <2>2, <3>1, <3>3, <3>4 DEF Lease, Move, Locations
    <2> QED  BY <1>4, <2>1, <2>2 DEF Scan
  <1>5. ASSUME NEW t \in Callers, NEW advance \in BOOLEAN, Release(t, advance)
        PROVE  TypeOK'
    <2> DEFINE i == lease[t].slotID
               new == [seq   |-> IF advance THEN (slots[i].seq + 1) % SeqMod
                                            ELSE slots[i].seq,
                       inUse |-> FALSE]
    <2>1. i \in SlotIDs
      BY DEF Leases
    <2>2. new \in [seq : Seqs, inUse : BOOLEAN]
      <3>1. slots[i].seq \in Seqs
        BY <2>1
      <3>2. (slots[i].seq + 1) % SeqMod \in Seqs
        BY SMTT(30), <3>1 DEF Seqs
      <3> QED  BY <3>1, <3>2
    <2>3. slots' = [slots EXCEPT ![i] = new]
      BY <1>5, <2>1 DEF Release
    <2>4. slots' \in [SlotIDs -> [seq : Seqs, inUse : BOOLEAN]]
      BY <2>1, <2>2, <2>3
    <2>5. lease' \in [Callers -> Leases]
      BY <1>5 DEF Release, Leases
    <2> QED  BY <1>5, <2>4, <2>5 DEF Release, Move, Locations
  <1>6. ASSUME NEW t \in Callers, NEW advance \in BOOLEAN, ReleaseAgain(t, advance)
        PROVE  TypeOK'
    BY <1>6 DEF ReleaseAgain, slotVars
  <1>7. ASSUME NEW t \in Callers, ReturnToken(t)
        PROVE  TypeOK'
    BY SMTT(30), <1>7 DEF ReturnToken, Move, Locations
  <1>8. CASE UNCHANGED slotVars
    BY <1>8 DEF slotVars
  <1> QED  BY <1>1, <1>2, <1>3, <1>4, <1>5, <1>6, <1>7, <1>8 DEF SlotsNext

(***************************************************************************)
(* Leases and in-use bits stay in step, and what a held lease carries      *)
(* stays current: only Lease and Release touch a slot, a free one and the  *)
(* caller's own.                                                           *)
(***************************************************************************)
LEMMA ExclusiveStep ==
    TypeOK /\ SlotExclusive /\ LeaseFresh /\ [SlotsNext]_slotVars => SlotExclusive' /\ LeaseFresh'
  <1> SUFFICES ASSUME TypeOK, SlotExclusive, LeaseFresh, [SlotsNext]_slotVars
               PROVE  SlotExclusive' /\ LeaseFresh'
    OBVIOUS
  <1> USE DEF SlotExclusive, LeaseFresh, Holds
  <1>0. /\ \A t \in Callers : lease[t].slotID \in SlotIDs
        /\ \A t \in Callers : lease[t].highest \in SlotIDs
        /\ highest \in SlotIDs
        /\ SlotIDs \subseteq Int
        /\ pc \in [Callers -> Locations]
        /\ lease \in [Callers -> Leases]
        /\ slots \in [SlotIDs -> [seq : Seqs, inUse : BOOLEAN]]
    BY SMTT(30), NumSlotsPositive DEF TypeOK, Leases, SlotIDs
  <1>1. ASSUME NEW t \in Callers, UNCHANGED <<slots, highest, lease>>,
               NEW l, l # "holding", pc[t] # "holding", pc' = [pc EXCEPT ![t] = l]
        PROVE  SlotExclusive' /\ LeaseFresh'
    <2>1. \A u \in Callers : pc'[u] = "holding" <=> pc[u] = "holding"
      BY <1>0, <1>1
    <2> QED  BY ZenonT(40), <1>1, <2>1
  <1>2. ASSUME NEW t \in Callers, NEW i \in SlotIDs, Lease(t, i)
        PROVE  SlotExclusive' /\ LeaseFresh'
    <2> DEFINE new == [slotID |-> i, seq |-> slots[i].seq,
                       highest |-> highest', released |-> FALSE]
    <2>1. /\ pc'[t] = "holding" /\ pc[t] = "scanning"
          /\ lease'[t] = new
          /\ \A u \in Callers : u # t => pc'[u] = pc[u] /\ lease'[u] = lease[u]
      BY <1>0, <1>2 DEF Lease, Move
    <2>2. /\ slots'[i].inUse /\ slots'[i].seq = slots[i].seq
          /\ \A j \in SlotIDs : j # i => slots'[j] = slots[j]
      BY SMTT(30), <1>0, <1>2 DEF Lease
    <2>3. highest' >= i /\ highest' >= highest /\ highest' \in Int
      BY SMTT(30), <1>0, <1>2 DEF Lease
    <2>4. \A u \in Callers : ~(pc[u] = "holding" /\ lease[u].slotID = i)
      BY <1>2 DEF Lease
    <2>5. \A u \in Callers, j \in SlotIDs :
             Holds(u, j)' <=> (u = t /\ j = i) \/ Holds(u, j)
      BY SMTT(30), <2>1
    <2>6. SlotExclusive'
      BY SMTT(30), <2>2, <2>4, <2>5
    <2>7. ASSUME NEW u \in Callers, pc'[u] = "holding"
          PROVE  /\ ~lease'[u].released
                 /\ lease'[u].seq = slots'[lease'[u].slotID].seq
                 /\ lease'[u].slotID <= lease'[u].highest
                 /\ lease'[u].highest <= highest'
      <3>1. CASE u = t
        BY SMTT(30), <1>0, <2>1, <2>2, <2>3, <3>1
      <3>2. CASE u # t
        <4>1. pc[u] = "holding" /\ lease'[u] = lease[u] /\ lease[u].slotID # i
          BY <2>1, <2>4, <2>7, <3>2
        <4>2. slots'[lease[u].slotID] = slots[lease[u].slotID]
          BY <1>0, <2>2, <4>1
        <4>3. lease[u].highest <= highest'
          <5>1. lease[u].highest \in Int /\ highest \in Int
            BY <1>0
          <5>2. lease[u].highest <= highest
            BY <4>1
          <5> QED  BY SMTT(30), <2>3, <5>1, <5>2
        <4> QED  BY <4>1, <4>2, <4>3
      <3> QED  BY <3>1, <3>2
    <2> QED  BY <2>6, <2>7
  <1>3. ASSUME NEW t \in Callers, NEW advance \in BOOLEAN, Release(t, advance)
        PROVE  SlotExclusive' /\ LeaseFresh'
    <2> DEFINE i == lease[t].slotID
    <2>1. /\ pc'[t] = "returning" /\ pc[t] = "holding"
          /\ highest' = highest
          /\ \A u \in Callers : u # t => pc'[u] = pc[u] /\ lease'[u] = lease[u]
      BY <1>0, <1>3 DEF Release, Move
    <2>2. /\ slots'[i].inUse = FALSE
          /\ \A j \in SlotIDs : j # i => slots'[j] = slots[j]
      BY <1>0, <1>3 DEF Release
    <2>3. \A u \in Callers : u # t /\ pc[u] = "holding" => lease[u].slotID # i
      BY <1>0, <2>1
    <2>4. \A u \in Callers, j \in SlotIDs : Holds(u, j)' <=> u # t /\ Holds(u, j)
      BY <2>1
    <2>5. SlotExclusive'
      BY SMTT(30), <1>0, <2>1, <2>2, <2>3, <2>4
    <2>6. ASSUME NEW u \in Callers, pc'[u] = "holding"
          PROVE  /\ ~lease'[u].released
                 /\ lease'[u].seq = slots'[lease'[u].slotID].seq
                 /\ lease'[u].slotID <= lease'[u].highest
                 /\ lease'[u].highest <= highest'
      <3>1. u # t /\ pc[u] = "holding" /\ lease'[u] = lease[u] /\ lease[u].slotID # i
        BY <2>1, <2>3, <2>6
      <3>2. slots'[lease[u].slotID] = slots[lease[u].slotID]
        BY <1>0, <2>2, <3>1
      <3> QED  BY SMTT(30), <2>1, <3>1, <3>2
    <2> QED  BY <2>5, <2>6
  <1>4. ASSUME NEW t \in Callers, Scan(t)
        PROVE  SlotExclusive' /\ LeaseFresh'
    <2>1. CASE \A i \in SlotIDs : slots[i].inUse
      BY <1>1, <1>4, <2>1 DEF Scan, Move
    <2> QED  BY <1>2, <1>4, <2>1 DEF Scan
  <1>5. CASE UNCHANGED slotVars
    BY <1>5 DEF slotVars
  <1>6. ASSUME NEW t \in Callers,
               Acquire(t) \/ TakeToken(t) \/ AcquireCancelled(t) \/ ReturnToken(t)
        PROVE  SlotExclusive' /\ LeaseFresh'
    BY <1>1, <1>6 DEF Acquire, TakeToken, AcquireCancelled, ReturnToken, Move
  <1> QED  BY <1>3, <1>4, <1>5, <1>6 DEF SlotsNext, ReleaseAgain

(***************************************************************************)
(* Free slots stay balanced against tokens and the callers in the gaps,    *)
(* and the scan of a caller with a token finds a free slot.                *)
(***************************************************************************)
LEMMA AccountingStep == SlotIInv /\ [SlotsNext]_slotVars => TokenAccounting' /\ NoFallback'
  <1> SUFFICES ASSUME SlotIInv, [SlotsNext]_slotVars
               PROVE  TokenAccounting' /\ NoFallback'
    OBVIOUS
  <1> DEFINE F == Cardinality(FreeSlots)
             N == Cardinality(At("scanning"))
             R == Cardinality(At("returning"))
  <1>0. /\ TypeOK /\ SlotExclusive /\ LeaseFresh
        /\ F = free + N + R
        /\ At("fallback") = {}
        /\ free \in Nat /\ F \in Nat /\ N \in Nat /\ R \in Nat
    <2>1. F \in Nat /\ N \in Nat /\ R \in Nat
      BY CountsAreNat
    <2>2. free \in Nat
      BY SMTT(30), NumSlotsPositive DEF SlotIInv, TypeOK
    <2> QED  BY <2>1, <2>2 DEF SlotIInv, TokenAccounting, NoFallback
  <1>1. ASSUME NEW t \in Callers, Acquire(t)
        PROVE  TokenAccounting' /\ NoFallback'
    <2>1. Move(t, "idle", "waiting")
      BY <1>0, <1>1 DEF Acquire, Move, At
    <2>2. \A l \in {"scanning", "returning", "fallback"} : At(l)' = At(l)
      BY SMTT(30), <1>0, <2>1, MoveCounts
    <2>3. FreeSlots' = FreeSlots /\ free' = free
      BY <1>1 DEF Acquire, FreeSlots
    <2> QED  BY <1>0, <2>2, <2>3 DEF TokenAccounting, NoFallback
  <1>2. ASSUME NEW t \in Callers, TakeToken(t)
        PROVE  TokenAccounting' /\ NoFallback'
    <2>1. Move(t, "waiting", "scanning")
      BY <1>2 DEF TakeToken
    <2>2. /\ Cardinality(At("scanning")') = N + 1
          /\ \A l \in {"returning", "fallback"} : At(l)' = At(l)
      BY SMTT(30), <1>0, <2>1, MoveCounts
    <2>3. FreeSlots' = FreeSlots /\ free' = free - 1
      BY <1>2 DEF TakeToken, FreeSlots
    <2> QED  BY SMTT(30), <1>0, <2>2, <2>3 DEF TokenAccounting, NoFallback
  <1>3. ASSUME NEW t \in Callers, AcquireCancelled(t)
        PROVE  TokenAccounting' /\ NoFallback'
    <2>1. \A l \in {"scanning", "returning", "fallback"} : At(l)' = At(l)
      BY SMTT(30), <1>0, <1>3, MoveCounts DEF AcquireCancelled
    <2>2. FreeSlots' = FreeSlots /\ free' = free
      BY <1>3 DEF AcquireCancelled, FreeSlots
    <2> QED  BY <1>0, <2>1, <2>2 DEF TokenAccounting, NoFallback
  <1>4. ASSUME NEW t \in Callers, Scan(t)
        PROVE  TokenAccounting' /\ NoFallback'
    <2>1. ~ \A i \in SlotIDs : slots[i].inUse
      <3> SUFFICES ASSUME \A i \in SlotIDs : slots[i].inUse
                   PROVE  FALSE
        OBVIOUS
      <3>1. FreeSlots = {}
        BY DEF FreeSlots
      <3>2. F = 0
        BY <3>1, FS_EmptySet
      <3>3. t \in At("scanning")
        BY <1>4 DEF Scan, Move, At
      <3>4. N # 0
        BY <3>3, CountsAreNat, FS_EmptySet
      <3> QED  BY SMTT(30), <1>0, <3>2, <3>4
    <2>2. PICK i \in SlotIDs : Lease(t, i)
      BY <1>4, <2>1 DEF Scan
    <2>3. FreeSlots' = FreeSlots \ {i} /\ i \in FreeSlots
      BY <1>0, <2>2 DEF Lease, FreeSlots, TypeOK
    <2>4. Cardinality(FreeSlots') = F - 1
      BY <2>3, CountsAreNat, FS_RemoveElement
    <2>5. Move(t, "scanning", "holding") /\ free' = free
      BY <2>2 DEF Lease
    <2>6. /\ Cardinality(At("scanning")') = N - 1
          /\ \A l \in {"returning", "fallback"} : At(l)' = At(l)
      BY SMTT(30), <1>0, <2>5, MoveCounts
    <2> QED  BY SMTT(30), <1>0, <2>4, <2>5, <2>6 DEF TokenAccounting, NoFallback
  <1>5. ASSUME NEW t \in Callers, NEW advance \in BOOLEAN, Release(t, advance)
        PROVE  TokenAccounting' /\ NoFallback'
    <2> DEFINE i == lease[t].slotID
    <2>1. i \in SlotIDs /\ slots[i].inUse
      BY <1>0, <1>5 DEF TypeOK, Leases, Release, Move, SlotExclusive, Holds
    <2>2. /\ slots'[i].inUse = FALSE
          /\ \A j \in SlotIDs : j # i => slots'[j] = slots[j]
      BY <1>0, <1>5, <2>1 DEF Release, TypeOK
    <2>3. FreeSlots' = FreeSlots \cup {i} /\ i \notin FreeSlots
      BY <2>1, <2>2 DEF FreeSlots
    <2>4. Cardinality(FreeSlots') = F + 1
      BY <2>3, CountsAreNat, FS_AddElement
    <2>5. Move(t, "holding", "returning") /\ free' = free
      BY <1>5 DEF Release
    <2>6. /\ Cardinality(At("returning")') = R + 1
          /\ \A l \in {"scanning", "fallback"} : At(l)' = At(l)
      BY SMTT(30), <1>0, <2>5, MoveCounts
    <2> QED  BY SMTT(30), <1>0, <2>4, <2>5, <2>6 DEF TokenAccounting, NoFallback
  <1>6. ASSUME NEW t \in Callers, ReturnToken(t)
        PROVE  TokenAccounting' /\ NoFallback'
    <2>1. Move(t, "returning", "idle")
      BY <1>6 DEF ReturnToken
    <2>2. /\ Cardinality(At("returning")') = R - 1
          /\ \A l \in {"scanning", "fallback"} : At(l)' = At(l)
      BY SMTT(30), <1>0, <2>1, MoveCounts
    <2>3. FreeSlots' = FreeSlots /\ free' = free + 1
      BY <1>6 DEF ReturnToken, FreeSlots
    <2> QED  BY SMTT(30), <1>0, <2>2, <2>3 DEF TokenAccounting, NoFallback
  <1>7. CASE UNCHANGED slotVars
    BY <1>0, <1>7 DEF slotVars, TokenAccounting, NoFallback, FreeSlots, At
  <1> QED  BY <1>1, <1>2, <1>3, <1>4, <1>5, <1>6, <1>7 DEF SlotsNext, ReleaseAgain

\* NewSession's state satisfies the inductive invariant.
LEMMA SlotInitIInv == SlotsInit => SlotIInv
  <1> SUFFICES ASSUME SlotsInit
               PROVE  SlotIInv
    OBVIOUS
  <1> USE NumSlotsPositive, SeqModNat DEF SlotsInit
  <1>1. TypeOK
    BY SMTT(30) DEF TypeOK, SlotIDs, Seqs, Leases, NoLease, Locations
  <1>2. SlotExclusive /\ NoFallback /\ LeaseFresh
    BY DEF SlotExclusive, Holds, NoFallback, At, LeaseFresh
  <1>3. TokenAccounting
    <2>1. FreeSlots = 0 .. NumSlots - 1
      BY DEF FreeSlots, SlotIDs
    <2>2. Cardinality(0 .. NumSlots - 1) =
             IF 0 > NumSlots - 1 THEN 0 ELSE NumSlots - 1 - 0 + 1
      BY SMTT(30), FS_Interval
    <2>3. Cardinality(At("scanning")) = 0 /\ Cardinality(At("returning")) = 0
      <3>1. At("scanning") = {} /\ At("returning") = {}
        BY DEF At
      <3> QED  BY <3>1, FS_EmptySet
    <2> QED  BY SMTT(30), <2>1, <2>2, <2>3 DEF TokenAccounting
  <1> QED  BY <1>1, <1>2, <1>3 DEF SlotIInv

(***************************************************************************)
(* Every reachable state of the slot table satisfies IInv: types, leases   *)
(* against in-use bits, and slots against tokens.                          *)
(***************************************************************************)
THEOREM SlotInvariance == SlotsSpec => []SlotIInv
  <1>1. SlotIInv /\ [SlotsNext]_slotVars => SlotIInv'
    BY SlotTypeStep, ExclusiveStep, AccountingStep DEF SlotIInv
  <1> QED  BY SlotInitIInv, <1>1, PTL DEF SlotsSpec

\* Session's variables keep their types, whatever the interleaving.
THEOREM TypeCorrect == SlotsSpec => []TypeOK
  <1>1. SlotIInv => TypeOK
    BY DEF SlotIInv
  <1> QED  BY SlotInvariance, <1>1, PTL

\* Two callers never hold the same slot, and a slot is in use iff it is held.
THEOREM SlotsAreExclusive == SlotsSpec => []SlotExclusive
  <1>1. SlotIInv => SlotExclusive
    BY DEF SlotIInv
  <1> QED  BY SlotInvariance, <1>1, PTL

\* The tokens of s.free and the inUse bits agree up to the callers in the gaps.
THEOREM TokensAccounted == SlotsSpec => []TokenAccounting
  <1>1. SlotIInv => TokenAccounting
    BY DEF SlotIInv
  <1> QED  BY SlotInvariance, <1>1, PTL

\* The branch of AcquireSlot whose comment says "this is unreachable" is.
THEOREM FallbackUnreachable == SlotsSpec => []NoFallback
  <1>1. SlotIInv => NoFallback
    BY DEF SlotIInv
  <1> QED  BY SlotInvariance, <1>1, PTL

\* The token send at the end of release never finds the channel full.
THEOREM ReleaseNeverBlocks == SlotsSpec => []SendNeverBlocks
  <1>1. SlotIInv => SendNeverBlocks
    <2> SUFFICES ASSUME SlotIInv, At("returning") # {}
                 PROVE  free < NumSlots
      BY DEF SendNeverBlocks
    <2>1. Cardinality(At("returning")) # 0
      BY CountsAreNat, FS_EmptySet
    <2>2. /\ Cardinality(FreeSlots) <= NumSlots /\ Cardinality(FreeSlots) \in Nat
          /\ Cardinality(At("returning")) \in Nat
          /\ Cardinality(At("scanning")) \in Nat
      BY CountsAreNat
    <2>3. Cardinality(FreeSlots) =
             free + Cardinality(At("scanning")) + Cardinality(At("returning"))
      BY DEF SlotIInv, TokenAccounting
    <2>4. free \in Int
      BY SMTT(30), NumSlotsPositive DEF SlotIInv, TypeOK
    <2> QED  BY SMTT(30), <2>1, <2>2, <2>3, <2>4, NumSlotsPositive
  <1> QED  BY SlotInvariance, <1>1, PTL

\* A held lease carries its slot's current sequence id and sound slot bounds.
THEOREM LeasesAreFresh == SlotsSpec => []LeaseFresh
  <1>1. SlotIInv => LeaseFresh
    BY DEF SlotIInv
  <1> QED  BY SlotInvariance, <1>1, PTL

-----------------------------------------------------------------------------
OwnerMatches ==
    /\ Owner \in [SlotIDs -> Callers \cup {Nobody}]
    /\ \A i \in SlotIDs, t \in Callers : Owner[i] = t <=> Holds(t, i)
    /\ \A i \in SlotIDs : Owner[i] = Nobody <=> ~ \E t \in Callers : Holds(t, i)

\* A slot's owner under the mapping is its holder, and Nobody when it has none.
LEMMA OwnerIsHolder == SlotExclusive => OwnerMatches
  <1> SUFFICES ASSUME SlotExclusive
               PROVE  OwnerMatches
    OBVIOUS
  <1>1. ASSUME NEW i \in SlotIDs, NEW t \in Callers, Holds(t, i)
        PROVE  Owner[i] = t
    <2>1. Owner[i] = CHOOSE u \in Callers : Holds(u, i)
      BY <1>1 DEF Owner
    <2>2. (CHOOSE u \in Callers : Holds(u, i)) = t
      BY <1>1 DEF SlotExclusive
    <2> QED  BY <2>1, <2>2
  <1>2. ASSUME NEW i \in SlotIDs, ~ \E t \in Callers : Holds(t, i)
        PROVE  Owner[i] = Nobody
    BY <1>2 DEF Owner
  <1>3. \A i \in SlotIDs : Owner[i] \in Callers \cup {Nobody}
    BY <1>1, <1>2
  <1>4. Owner = [i \in SlotIDs |-> Owner[i]]
    BY DEF Owner
  <1> QED  BY <1>1, <1>2, <1>3, <1>4, NobodyIsNoCaller DEF OwnerMatches

(***************************************************************************)
(* The session implements the allocator of SlotAllocator: the scan is its  *)
(* Acquire, release up to Unlock is its GiveBack, and the token traffic in *)
(* between is invisible.                                                   *)
(***************************************************************************)
THEOREM Refinement == SlotsSpec => ImplementsAllocator
  <1> DEFINE Seq == [i \in SlotIDs |-> slots[i].seq]
  <1>1. SlotsInit => Allocator!Init
    <2> SUFFICES ASSUME SlotsInit
                 PROVE  Allocator!Init
      OBVIOUS
    <2>1. Owner = [i \in SlotIDs |-> Nobody]
      BY DEF Owner, Holds, SlotsInit
    <2>2. Seq = [i \in SlotIDs |-> 1]
      BY DEF SlotsInit
    <2> QED  BY <2>1, <2>2 DEF Allocator!Init
  <1>2. SlotIInv /\ SlotIInv' /\ [SlotsNext]_slotVars => [Allocator!Next]_(Allocator!vars)
    <2> SUFFICES ASSUME SlotIInv, SlotIInv', [SlotsNext]_slotVars
                 PROVE  [Allocator!Next]_(Allocator!vars)
      OBVIOUS
    <2> USE DEF OwnerMatches
    <2>0. /\ TypeOK /\ SlotExclusive /\ SlotExclusive'
          /\ OwnerMatches /\ OwnerMatches'
          /\ pc \in [Callers -> Locations]
          /\ lease \in [Callers -> Leases]
          /\ \A t \in Callers : lease[t].slotID \in SlotIDs
          /\ slots \in [SlotIDs -> [seq : Seqs, inUse : BOOLEAN]]
      <3>1. SlotExclusive /\ SlotExclusive'
        BY DEF SlotIInv
      <3>2. OwnerMatches /\ OwnerMatches'
        BY <3>1, OwnerIsHolder, PTL
      <3> QED  BY <3>1, <3>2 DEF SlotIInv, TypeOK, Leases
    <2>1. ASSUME NEW t \in Callers, UNCHANGED <<slots, lease>>,
                 NEW l, l # "holding", pc[t] # "holding", pc' = [pc EXCEPT ![t] = l]
          PROVE  UNCHANGED Allocator!vars
      <3>1. \A u \in Callers, i \in SlotIDs : Holds(u, i)' <=> Holds(u, i)
        BY SMTT(30), <2>0, <2>1 DEF Holds
      <3>2. \A i \in SlotIDs : Owner'[i] = Owner[i]
        BY <2>0, <3>1 DEF Owner
      <3>3. Owner' = Owner
        BY <3>2 DEF Owner
      <3> QED  BY <2>1, <3>3 DEF Allocator!vars
    <2>2. ASSUME NEW t \in Callers, NEW i \in SlotIDs, Lease(t, i)
          PROVE  Allocator!Acquire(t, i)
      <3>1. /\ pc[t] = "scanning" /\ pc'[t] = "holding"
            /\ lease'[t].slotID = i
            /\ \A u \in Callers : u # t => pc'[u] = pc[u] /\ lease'[u] = lease[u]
        BY <2>0, <2>2 DEF Lease, Move
      <3>2. \A u \in Callers, j \in SlotIDs :
               Holds(u, j)' <=> (u = t /\ j = i) \/ Holds(u, j)
        BY <3>1 DEF Holds
      <3>3. Owner[i] = Nobody
        BY <2>0, <2>2 DEF Lease, SlotExclusive
      <3>4. \A j \in SlotIDs : Owner[j] # t
        BY <2>0, <3>1 DEF Holds
      <3>5. Owner' = [Owner EXCEPT ![i] = t]
        <4>1. Owner'[i] = t
          BY <2>0, <3>2
        <4>2. \A j \in SlotIDs \ {i} : Owner'[j] = Owner[j]
          BY ZenonT(40), <2>0, <3>2
        <4> QED  BY <2>0, <4>1, <4>2
      <3>6. Seq' = Seq
        BY SMTT(30), <2>0, <2>2 DEF Lease
      <3> QED  BY <3>3, <3>4, <3>5, <3>6 DEF Allocator!Acquire
    <2>3. ASSUME NEW t \in Callers, NEW advance \in BOOLEAN, Release(t, advance)
          PROVE  Allocator!GiveBack(t, lease[t].slotID, advance)
      <3> DEFINE i == lease[t].slotID
      <3>1. /\ pc[t] = "holding" /\ pc'[t] = "returning"
            /\ \A u \in Callers : u # t => pc'[u] = pc[u] /\ lease'[u] = lease[u]
        BY <2>0, <2>3 DEF Release, Move
      <3>2. \A u \in Callers, j \in SlotIDs : Holds(u, j)' <=> u # t /\ Holds(u, j)
        BY <3>1 DEF Holds
      <3>3. Owner[i] = t
        BY SMTT(30), <2>0, <3>1 DEF Holds
      <3>4. Owner' = [Owner EXCEPT ![i] = Nobody]
        <4>2. \A u \in Callers : Holds(u, i) => u = t
          BY SMTT(30), <2>0, <3>1 DEF SlotExclusive, Holds
        <4>3. Owner'[i] = Nobody
          BY SMTT(30), <2>0, <3>2, <4>2
        <4>4. \A j \in SlotIDs \ {i} : ~ Holds(t, j)
          BY DEF Holds
        <4>5. \A j \in SlotIDs \ {i} : Owner'[j] = Owner[j]
          BY <2>0, <3>2, <4>4
        <4> QED  BY <2>0, <4>3, <4>5
      <3>5. Seq' = IF advance THEN [Seq EXCEPT ![i] = (@ + 1) % SeqMod] ELSE Seq
        <4>1. /\ slots'[i].seq = IF advance THEN (slots[i].seq + 1) % SeqMod
                                            ELSE slots[i].seq
              /\ \A j \in SlotIDs : j # i => slots'[j] = slots[j]
          BY <2>0, <2>3 DEF Release
        <4> QED  BY <2>0, <4>1
      <3> QED  BY <2>0, <3>3, <3>4, <3>5 DEF Allocator!GiveBack
    <2>4. ASSUME NEW t \in Callers, Scan(t)
          PROVE  [Allocator!Next]_(Allocator!vars)
      <3>1. CASE \A i \in SlotIDs : slots[i].inUse
        BY <2>1, <2>4, <3>1 DEF Scan, Move
      <3> QED  BY <2>2, <2>4, <3>1 DEF Scan, Allocator!Next
    <2>5. ASSUME NEW t \in Callers,
                 Acquire(t) \/ TakeToken(t) \/ AcquireCancelled(t) \/ ReturnToken(t)
          PROVE  UNCHANGED Allocator!vars
      BY <2>1, <2>5 DEF Acquire, TakeToken, AcquireCancelled, ReturnToken, Move
    <2>6. CASE UNCHANGED slotVars
      BY <2>6 DEF slotVars, Allocator!vars, Owner, Holds
    <2>7. ASSUME NEW t \in Callers, NEW advance \in BOOLEAN, Release(t, advance)
          PROVE  Allocator!Next
      BY <2>0, <2>3, <2>7 DEF Allocator!Next
    <2> QED  BY <2>4, <2>5, <2>6, <2>7 DEF SlotsNext, ReleaseAgain
  <1> QED  BY <1>1, <1>2, SlotInvariance, PTL DEF SlotsSpec, ImplementsAllocator, Allocator!Spec
-----------------------------------------------------------------------------
(* CallCompound and the server *)

Shape ==
    /\ req \in [Callers -> Requests \cup {"none"}]
    /\ reply \in [Callers -> Requests \cup Failures \cup {"none"}]
    /\ srvSeq \in [SlotIDs -> Seqs]
    /\ srvReq \in [SlotIDs -> Requests \cup {"none"}]
    /\ upset \subseteq SlotIDs

\* A call that is on its way has a compound; only one that holds a lease has a reply.
CallInv ==
    \A t \in Callers :
        /\ pc[t] \in {"waiting", "scanning", "holding"} => req[t] \in Requests
        /\ reply[t] # "none" => pc[t] = "holding"

\* What makes Finish advance a sequence id that the server did not use, a fault did.
FaultInv ==
    \A t \in Callers :
        conn = "up" /\ reply[t] \in {"seqErr", "empty"} => lease[t].slotID \in upset

(***************************************************************************)
(* The inductive invariant.  OwnResults needs InSync (the server answers   *)
(* from its cache only what is out of step); InSync needs FaultInv and     *)
(* CallInv (what Finish does to the sequence id is what the server did)    *)
(* and the session's exclusiveness and freshness (the reply that moved the *)
(* server's slot is the holder's, and its lease has the slot's id).        *)
(***************************************************************************)
IInv ==
    /\ Shape
    /\ CallInv
    /\ FaultInv
    /\ InSync
    /\ OwnResults

\* What is used of the session.
Session == TypeOK /\ SlotExclusive /\ LeaseFresh

-----------------------------------------------------------------------------
\* A step of a call is a step of the session, or leaves the session alone.
LEMMA SessionStep == [Next]_vars => [SlotsNext]_slotVars
  <1> SUFFICES ASSUME [Next]_vars
               PROVE  [SlotsNext]_slotVars
    OBVIOUS
  <1>1. ASSUME NEW t \in Callers, NEW r \in Requests, Begin(t, r)
        PROVE  SlotsNext
    BY <1>1 DEF Begin, SlotsNext
  <1>2. ASSUME NEW t \in Callers, SlotStep(t)
        PROVE  SlotsNext
    BY <1>2 DEF SlotStep, SlotsNext
  <1>3. ASSUME NEW t \in Callers, AcquireFails(t)
        PROVE  SlotsNext
    BY <1>3 DEF AcquireFails, SlotsNext
  <1>4. ASSUME NEW t \in Callers, RoundTrip(t)
        PROVE  UNCHANGED slotVars
    BY <1>4 DEF RoundTrip, Executed, Undecodable, Replayed, SequenceFails, NoResop,
                NotExecuted, ConnectionLost, Answer, slotVars
  <1>5. ASSUME NEW t \in Callers, Finish(t)
        PROVE  SlotsNext
    <2>1. (reply[t] # "error") \in BOOLEAN
      OBVIOUS
    <2> QED  BY <1>5, <2>1 DEF Finish, SlotsNext
  <1>6. CASE UNCHANGED vars
    BY <1>6 DEF vars, slotVars
  <1> QED  BY <1>1, <1>2, <1>3, <1>4, <1>5, <1>6 DEF Next

(***************************************************************************)
(* CallCompound keeps to the session's contract: every behaviour of the    *)
(* calls, seen through the session's variables, is one of SessionSlots.    *)
(***************************************************************************)
THEOREM SessionIsUsed == Spec => UsesSession
  <1>1. Init => SlotsInit
    BY DEF Init
  <1> QED  BY <1>1, SessionStep, PTL DEF Spec, UsesSession, SlotsSpec
-----------------------------------------------------------------------------
\* A sequence id and its successor differ: the width is more than one value.
LEMMA NextDiffers ==
    ASSUME NEW x \in Seqs
    PROVE  (x + 1) % SeqMod \in Seqs /\ (x + 1) % SeqMod # x
  BY SMTT(30), SeqModNat DEF Seqs

\* While t waits for its reply and nothing went wrong on its slot, the lease has
\* the id that the server takes next, which is not the one it used last.
LEMMA SendingInSync ==
    ASSUME Session, IInv, NEW t \in Callers, Sending(t)
    PROVE  LET i == lease[t].slotID IN
           /\ i \in SlotIDs
           /\ ~Answered(i)
           /\ srvSeq[i] \in Seqs
           /\ lease[t].seq = slots[i].seq
           /\ conn = "up" /\ i \notin upset => lease[t].seq = NextSeq(i) /\ lease[t].seq # srvSeq[i]
  <1> DEFINE i == lease[t].slotID
  <1>1. i \in SlotIDs
    BY DEF Session, TypeOK, Leases
  <1>2. ~Answered(i)
    <2>1. "none" \notin Requests
      BY RequestsNamed
    <2>2. \A u \in Callers : Holds(u, i) => u = t
      BY <1>1 DEF Session, SlotExclusive, Holds, Sending
    <2> QED  BY <2>1, <2>2 DEF Answered, Sending
  <1>3. srvSeq[i] \in Seqs
    BY <1>1 DEF IInv, Shape
  <1>4. lease[t].seq = slots[i].seq
    BY DEF Session, LeaseFresh, Sending
  <1>5. ASSUME conn = "up", i \notin upset
        PROVE  lease[t].seq = NextSeq(i)
    BY <1>1, <1>2, <1>4, <1>5 DEF IInv, InSync
  <1>6. NextSeq(i) # srvSeq[i]
    BY <1>3, NextDiffers DEF NextSeq
  <1> QED  BY <1>1, <1>2, <1>3, <1>4, <1>5, <1>6

(***************************************************************************)
(* A reply that t gets changes Answered for t's slot and no other, keeps   *)
(* the shape of the state, and is that of a call that holds a lease.       *)
(***************************************************************************)
LEMMA AnswerFrame ==
    ASSUME Session, IInv, NEW t \in Callers, NEW a \in Requests \cup Failures,
           Sending(t), Answer(t, a)
    PROVE  /\ \A i \in SlotIDs :
                 Answered(i)' <=> IF i = lease[t].slotID THEN a \in Requests ELSE Answered(i)
           /\ reply' \in [Callers -> Requests \cup Failures \cup {"none"}]
           /\ reply'[t] = a /\ \A u \in Callers \ {t} : reply'[u] = reply[u]
           /\ UNCHANGED <<slots, lease, pc, req>>
           /\ CallInv'
  <1> DEFINE j == lease[t].slotID
  <1>1. /\ reply' \in [Callers -> Requests \cup Failures \cup {"none"}]
        /\ reply'[t] = a /\ \A u \in Callers \ {t} : reply'[u] = reply[u]
        /\ UNCHANGED <<slots, lease, pc, req>>
    BY DEF IInv, Shape, Answer, slotVars
  <1>2. CallInv'
    BY <1>1 DEF IInv, CallInv, Sending
  <1>3. j \in SlotIDs
    BY SendingInSync
  <1>4. \A u \in Callers, i \in SlotIDs : Holds(u, i)' <=> Holds(u, i)
    BY <1>1 DEF Holds
  <1>5. Holds(t, j) /\ \A u \in Callers : Holds(u, j) => u = t
    BY <1>3 DEF Session, SlotExclusive, Holds, Sending
  <1>6. ASSUME NEW i \in SlotIDs, i # j
        PROVE  ~Holds(t, i)
    BY <1>6 DEF Holds
  <1>7. Answered(j)' <=> a \in Requests
    BY <1>1, <1>3, <1>4, <1>5 DEF Answered
  <1>8. ASSUME NEW i \in SlotIDs, i # j
        PROVE  Answered(i)' <=> Answered(i)
    BY <1>1, <1>4, <1>6, <1>8 DEF Answered
  <1> QED  BY <1>1, <1>2, <1>7, <1>8

\* What the server does with t's compound leaves its other slots alone.
ServerSteps(t) ==
    /\ srvSeq' \in [SlotIDs -> Seqs]
    /\ srvReq' \in [SlotIDs -> Requests \cup {"none"}]
    /\ \A i \in SlotIDs \ {lease[t].slotID} : srvSeq'[i] = srvSeq[i]

\* The server runs t's compound: its slot is at the id of the lease.
LEMMA RunsFrame ==
    ASSUME Session, IInv, NEW t \in Callers, ServerRuns(t)
    PROVE  ServerSteps(t) /\ srvSeq'[lease[t].slotID] = lease[t].seq
  <1>1. lease[t].slotID \in SlotIDs /\ lease[t].seq \in Seqs
    BY DEF Session, TypeOK, Leases
  <1> QED  BY <1>1 DEF IInv, Shape, ServerRuns, ServerSteps

\* The server does nothing with it.
LEMMA IdleFrame ==
    ASSUME IInv, NEW t \in Callers, UNCHANGED srvVars
    PROVE  ServerSteps(t)
  BY DEF IInv, Shape, srvVars, ServerSteps

(***************************************************************************)
(* A round trip of t that ends with a keeps the invariant if, on a slot    *)
(* without fault, results are those of t's compound, and they come exactly *)
(* when the server has used the id of the lease.                           *)
(***************************************************************************)
LEMMA TripEnds ==
    ASSUME Session, IInv, NEW t \in Callers, NEW a \in Requests \cup Failures,
           Sending(t), Answer(t, a), ServerSteps(t),
           upset' \in {upset, upset \cup {lease[t].slotID}},
           conn' = "up" => conn = "up",
           lease[t].slotID \notin upset' =>
              /\ a \in Requests => a = req[t]
              /\ conn' = "up" =>
                    \/ a \in Requests /\ srvSeq'[lease[t].slotID] = lease[t].seq
                    \/ a = "error" /\ srvSeq'[lease[t].slotID] = srvSeq[lease[t].slotID]
    PROVE  IInv'
  <1> DEFINE i == lease[t].slotID
  <1>0. /\ Shape /\ CallInv /\ FaultInv /\ InSync /\ OwnResults
        /\ "error" \notin Requests
    BY RequestsNamed DEF IInv, Failures
  <1>1. /\ i \in SlotIDs /\ ~Answered(i)
        /\ lease[t].seq = slots[i].seq
        /\ conn = "up" /\ i \notin upset => lease[t].seq = NextSeq(i)
    BY SendingInSync
  <1>2. /\ \A k \in SlotIDs : Answered(k)' <=> IF k = i THEN a \in Requests ELSE Answered(k)
        /\ reply' \in [Callers -> Requests \cup Failures \cup {"none"}]
        /\ reply'[t] = a /\ \A u \in Callers \ {t} : reply'[u] = reply[u]
        /\ UNCHANGED <<slots, lease, pc, req>>
        /\ CallInv'
    BY AnswerFrame
  <1>3. Shape'
    BY <1>0, <1>1, <1>2 DEF Shape, ServerSteps
  <1>4. FaultInv'
    <2>1. "seqErr" \notin Requests /\ "empty" \notin Requests
      BY RequestsNamed DEF Failures
    <2> QED  BY <1>0, <1>2, <2>1 DEF FaultInv
  <1>5. InSync'
    BY SMTT(30), <1>0, <1>1, <1>2 DEF InSync, NextSeq, ServerSteps
  <1>6. OwnResults'
    BY <1>0, <1>2 DEF OwnResults
  <1> QED  BY <1>2, <1>3, <1>4, <1>5, <1>6 DEF IInv

(***************************************************************************)
(* Every way a round trip ends keeps the invariant: on a slot without      *)
(* fault the server runs the compound or does nothing with it, since the   *)
(* id is its next one; on the others the fault is on record.               *)
(***************************************************************************)
LEMMA RoundTripStep ==
    ASSUME Session, IInv, NEW t \in Callers, RoundTrip(t)
    PROVE  IInv'
  <1> DEFINE i == lease[t].slotID
  <1>1. Sending(t)
    BY DEF RoundTrip, Executed, Undecodable, Replayed, SequenceFails, NoResop,
           NotExecuted, ConnectionLost
  <1>2. /\ i \in SlotIDs
        /\ conn = "up" /\ i \notin upset => lease[t].seq = NextSeq(i) /\ lease[t].seq # srvSeq[i]
    BY <1>1, SendingInSync
  <1>3. /\ "error" \notin Requests /\ "seqErr" \notin Requests /\ "empty" \notin Requests
        /\ {"error", "seqErr", "empty"} \subseteq Failures
    BY RequestsNamed DEF Failures
  <1>4. CASE Executed(t)
    <2>1. req[t] \in Requests
      BY <1>1 DEF IInv, CallInv, Sending
    <2>2. Answer(t, req[t]) /\ ServerRuns(t) /\ UNCHANGED <<conn, upset>>
      BY <1>4 DEF Executed
    <2> QED  BY <1>1, <2>1, <2>2, RunsFrame, TripEnds
  <1>5. CASE Undecodable(t)
    <2>1. Answer(t, "error") /\ ServerRuns(t) /\ conn' = conn /\ upset' = upset \cup {i}
      BY <1>5 DEF Undecodable, Upset
    <2> QED  BY <1>1, <1>3, <2>1, RunsFrame, TripEnds
  <1>6. CASE Replayed(t)
    <2>1. /\ conn = "up" /\ UNCHANGED <<conn, srvVars, upset>>
          /\ Answer(t, srvReq[i]) /\ lease[t].seq = srvSeq[i] /\ srvReq[i] # "none"
      BY <1>6 DEF Replayed
    <2>2. i \in upset
      BY <1>2, <2>1
    <2>3. srvReq[i] \in Requests
      BY SMTT(30), <1>2, <2>1 DEF IInv, Shape
    <2> QED  BY <1>1, <2>1, <2>2, <2>3, IdleFrame, TripEnds
  <1>7. CASE SequenceFails(t)
    <2>1. /\ conn = "up" /\ UNCHANGED <<conn, srvVars>> /\ Answer(t, "seqErr")
          /\ \/ lease[t].seq # NextSeq(i) /\ upset' = upset
             \/ upset' = upset \cup {i}
      BY <1>7 DEF SequenceFails, Upset
    <2>2. i \in upset' /\ upset' \in {upset, upset \cup {i}}
      BY <1>2, <2>1
    <2> QED  BY <1>1, <1>3, <2>1, <2>2, IdleFrame, TripEnds
  <1>8. CASE NoResop(t)
    <2>1. Answer(t, "empty") /\ UNCHANGED <<conn, srvVars>> /\ upset' = upset \cup {i}
      BY <1>8 DEF NoResop, Upset
    <2> QED  BY <1>1, <1>3, <2>1, IdleFrame, TripEnds
  <1>9. CASE NotExecuted(t)
    <2>1. Answer(t, "error") /\ UNCHANGED <<conn, srvVars, upset>>
      BY <1>9 DEF NotExecuted
    <2> QED  BY <1>1, <1>3, <2>1, IdleFrame, TripEnds DEF srvVars
  <1>10. CASE ConnectionLost(t)
    <2>1. /\ Answer(t, "error") /\ conn' = "down" /\ upset' = upset
          /\ ServerRuns(t) \/ UNCHANGED srvVars
      BY <1>10 DEF ConnectionLost
    <2>2. ServerSteps(t)
      BY <2>1, RunsFrame, IdleFrame
    <2> QED  BY <1>1, <1>3, <2>1, <2>2, TripEnds
  <1> QED  BY <1>4, <1>5, <1>6, <1>7, <1>8, <1>9, <1>10 DEF RoundTrip

(***************************************************************************)
(* A step of t inside AcquireSlot, or the send that ends release, keeps    *)
(* the invariant: no slot's sequence id moves, the leases of the callers   *)
(* that hold one stay, and t has no reply.                                 *)
(***************************************************************************)
LEMMA QuietStep ==
    ASSUME Session, IInv, NEW t \in Callers, reply[t] = "none",
           UNCHANGED <<reply, conn, srvVars, upset>>,
           \A i \in SlotIDs : slots'[i].seq = slots[i].seq,
           \A u \in Callers \ {t} : pc'[u] = pc[u] /\ lease'[u] = lease[u] /\ req'[u] = req[u],
           req' \in [Callers -> Requests \cup {"none"}],
           pc'[t] \in {"waiting", "scanning", "holding"} => req'[t] \in Requests
    PROVE  IInv'
  <1>0. /\ Shape /\ CallInv /\ FaultInv /\ InSync /\ OwnResults
        /\ "none" \notin Requests
    BY RequestsNamed DEF IInv
  <1>1. \A i \in SlotIDs : Answered(i)' <=> Answered(i)
    BY <1>0 DEF Answered, Holds
  <1>2. Shape'
    BY <1>0 DEF Shape, srvVars
  <1>3. CallInv'
    BY <1>0 DEF CallInv
  <1>4. FaultInv'
    BY <1>0 DEF FaultInv
  <1>5. InSync'
    BY <1>0, <1>1 DEF InSync, NextSeq, srvVars
  <1>6. OwnResults'
    BY <1>0 DEF OwnResults
  <1> QED  BY <1>2, <1>3, <1>4, <1>5, <1>6 DEF IInv

\* Entering, going through and leaving AcquireSlot, and returning the token.
LEMMA AcquireStep ==
    ASSUME Session, IInv, NEW t \in Callers,
           (\E r \in Requests : Begin(t, r)) \/ SlotStep(t) \/ AcquireFails(t)
    PROVE  IInv'
  <1>0. /\ pc \in [Callers -> Locations] /\ lease \in [Callers -> Leases]
        /\ slots \in [SlotIDs -> [seq : Seqs, inUse : BOOLEAN]]
        /\ req \in [Callers -> Requests \cup {"none"}]
        /\ CallInv
    BY DEF Session, TypeOK, IInv, Shape
  <1>1. ASSUME NEW r \in Requests, Begin(t, r)
        PROVE  IInv'
    <2>1. /\ pc[t] \in {"idle", "fallback"} /\ pc' = [pc EXCEPT ![t] = "waiting"]
          /\ req' = [req EXCEPT ![t] = r]
          /\ UNCHANGED <<slots, lease>> /\ UNCHANGED <<reply, conn, srvVars, upset>>
      BY <1>1 DEF Begin, Acquire
    <2>2. reply[t] = "none"
      BY <1>0, <2>1 DEF CallInv
    <2> QED  BY <1>0, <2>1, <2>2, QuietStep
  <1>2. CASE AcquireFails(t)
    <2>1. /\ pc[t] = "waiting" /\ pc' = [pc EXCEPT ![t] = "idle"]
          /\ req' = [req EXCEPT ![t] = "none"]
          /\ UNCHANGED <<slots, lease>> /\ UNCHANGED <<reply, conn, srvVars, upset>>
      BY <1>2 DEF AcquireFails, AcquireCancelled, Move
    <2>2. reply[t] = "none"
      BY <1>0, <2>1 DEF CallInv
    <2> QED  BY <1>0, <2>1, <2>2, QuietStep
  <1>3. CASE SlotStep(t)
    <2>1. UNCHANGED <<req, reply, conn, srvVars, upset>>
      BY <1>3 DEF SlotStep
    <2>2. CASE TakeToken(t)
      <3>1. /\ pc[t] = "waiting" /\ pc' = [pc EXCEPT ![t] = "scanning"]
            /\ UNCHANGED <<slots, lease>>
        BY <2>2 DEF TakeToken, Move
      <3>2. reply[t] = "none" /\ req[t] \in Requests
        BY <1>0, <3>1 DEF CallInv
      <3> QED  BY <1>0, <2>1, <3>1, <3>2, QuietStep
    <2>3. CASE ReturnToken(t)
      <3>1. /\ pc[t] = "returning" /\ pc' = [pc EXCEPT ![t] = "idle"]
            /\ UNCHANGED <<slots, lease>>
        BY <2>3 DEF ReturnToken, Move
      <3>2. reply[t] = "none"
        BY SMTT(30), <1>0, <3>1 DEF CallInv
      <3> QED  BY <1>0, <2>1, <3>1, <3>2, QuietStep
    <2>4. CASE Scan(t)
      <3>1. /\ pc[t] = "scanning"
            /\ \/ pc' = [pc EXCEPT ![t] = "fallback"] /\ UNCHANGED <<slots, lease>>
               \/ \E i \in SlotIDs :
                     /\ pc' = [pc EXCEPT ![t] = "holding"]
                     /\ slots' = [slots EXCEPT ![i].inUse = TRUE]
                     /\ lease' = [lease EXCEPT ![t] =
                           [slotID |-> i, seq |-> slots[i].seq,
                            highest |-> highest', released |-> FALSE]]
        BY <2>4 DEF Scan, Lease, Move
      <3>2. reply[t] = "none" /\ req[t] \in Requests
        BY <1>0, <3>1 DEF CallInv
      <3>3. /\ \A i \in SlotIDs : slots'[i].seq = slots[i].seq
            /\ \A u \in Callers \ {t} : pc'[u] = pc[u] /\ lease'[u] = lease[u]
        BY SMTT(30), <1>0, <3>1
      <3> QED  BY <1>0, <2>1, <3>2, <3>3, QuietStep
    <2> QED  BY <1>3, <2>2, <2>3, <2>4 DEF SlotStep
  <1> QED  BY <1>1, <1>2, <1>3

(***************************************************************************)
(* Done and Retry keep the invariant: on a slot without fault the id       *)
(* advances exactly if the reply shows that the server used it.            *)
(***************************************************************************)
LEMMA FinishStep ==
    ASSUME Session, IInv, NEW t \in Callers, Finish(t)
    PROVE  IInv'
  <1> DEFINE i == lease[t].slotID
  <1>0. /\ Shape /\ CallInv /\ FaultInv /\ InSync /\ OwnResults
        /\ pc \in [Callers -> Locations] /\ lease \in [Callers -> Leases]
        /\ slots \in [SlotIDs -> [seq : Seqs, inUse : BOOLEAN]]
        /\ i \in SlotIDs
        /\ "none" \notin Requests /\ "error" \notin Requests
    BY RequestsNamed DEF Session, TypeOK, Leases, IInv, Failures
  <1>1. /\ pc[t] = "holding" /\ pc' = [pc EXCEPT ![t] = "returning"]
        /\ reply[t] # "none" /\ reply' = [reply EXCEPT ![t] = "none"]
        /\ req' = [req EXCEPT ![t] = "none"]
        /\ \A u \in Callers \ {t} : lease'[u] = lease[u]
        /\ UNCHANGED <<conn, srvVars, upset>>
    BY <1>0 DEF Finish, Returns, Release, Move
  <1>2. /\ slots'[i].seq = IF reply[t] # "error" THEN (slots[i].seq + 1) % SeqMod
                                                 ELSE slots[i].seq
        /\ \A k \in SlotIDs \ {i} : slots'[k] = slots[k]
    BY <1>0 DEF Finish, Release
  <1>3. Holds(t, i) /\ \A u \in Callers : Holds(u, i) => u = t
    BY <1>0, <1>1 DEF Session, SlotExclusive, Holds
  <1>4. \A u \in Callers, k \in SlotIDs : Holds(u, k)' <=> u # t /\ Holds(u, k)
    BY <1>0, <1>1 DEF Holds
  <1>5. ASSUME NEW k \in SlotIDs, k = i
        PROVE  ~Answered(k)' /\ (Answered(k) <=> reply[t] \in Requests)
    BY <1>3, <1>4, <1>5 DEF Answered
  <1>6. ASSUME NEW k \in SlotIDs, k # i
        PROVE  Answered(k)' <=> Answered(k)
    <2>1. ~Holds(t, k)
      BY <1>6 DEF Holds
    <2>2. \A u \in Callers \ {t} : reply'[u] = reply[u]
      BY <1>0, <1>1 DEF Shape
    <2> QED  BY <1>4, <2>1, <2>2 DEF Answered
  <1>7. Shape'
    BY <1>0, <1>1 DEF Shape, srvVars
  <1>8. CallInv'
    BY <1>0, <1>1 DEF CallInv, Shape
  <1>9. FaultInv'
    <2>1. ASSUME NEW u \in Callers, reply'[u] \in {"seqErr", "empty"}
          PROVE  reply'[u] = reply[u] /\ lease'[u] = lease[u]
      BY SMTT(30), <1>0, <1>1, <2>1 DEF Shape
    <2> QED  BY <1>0, <1>1, <2>1 DEF FaultInv
  <1>10. InSync'
    <2>1. ASSUME conn = "up", i \notin upset
          PROVE  slots'[i].seq = NextSeq(i)
      <3>1. reply[t] \in Requests \cup {"error"}
        BY <1>0, <1>1, <2>1 DEF FaultInv, Shape, Failures
      <3>2. slots[i].seq = IF reply[t] \in Requests THEN srvSeq[i] ELSE NextSeq(i)
        BY <1>0, <1>5, <2>1 DEF InSync
      <3> QED  BY <1>0, <1>2, <3>1, <3>2 DEF NextSeq
    <2> QED  BY SMTT(30), <1>0, <1>1, <1>2, <1>5, <1>6, <2>1 DEF InSync, NextSeq, srvVars
  <1>11. OwnResults'
    BY <1>0, <1>1 DEF OwnResults, Shape
  <1> QED  BY <1>7, <1>8, <1>9, <1>10, <1>11 DEF IInv
-----------------------------------------------------------------------------
\* Before the first call both sides of every slot are in step.
LEMMA InitHolds == Init => IInv
  <1> SUFFICES ASSUME Init
               PROVE  IInv
    OBVIOUS
  <1>1. Shape
    BY SMTT(30), SeqModNat DEF Init, Shape, Seqs
  <1>2. CallInv /\ FaultInv /\ OwnResults
    BY RequestsNamed DEF Init, SlotsInit, CallInv, FaultInv, OwnResults
  <1>3. InSync
    <2>1. 1 % SeqMod = 1
      BY SMTT(30), SeqModNat
    <2>2. \A i \in SlotIDs : ~Answered(i)
      BY DEF Init, SlotsInit, Answered, Holds
    <2> QED  BY SMTT(30), <2>1, <2>2 DEF Init, SlotsInit, InSync, NextSeq
  <1> QED  BY <1>1, <1>2, <1>3 DEF IInv

\* So the guarantees of the slot table hold under CallCompound.
LEMMA SessionHolds == Spec => []Session
  <1>1. SlotIInv => Session
    BY DEF SlotIInv, Session
  <1> QED  BY <1>1, SessionIsUsed, SlotInvariance, PTL DEF UsesSession

\* The invariant holds throughout: calls and the server's slots stay in step.
THEOREM Invariance == Spec => []IInv
  <1>1. Session /\ IInv /\ [Next]_vars => IInv'
    <2> SUFFICES ASSUME Session, IInv, [Next]_vars
                 PROVE  IInv'
      OBVIOUS
    <2>1. CASE UNCHANGED vars
      BY SMTT(30), <2>1 DEF vars, slotVars, srvVars, IInv, Shape, CallInv, FaultInv,
                            InSync, OwnResults,
                  Answered, NextSeq, Holds
    <2> QED  BY <2>1, RoundTripStep, AcquireStep, FinishStep DEF Next
  <1> QED  BY <1>1, InitHolds, SessionHolds, PTL DEF Spec

(***************************************************************************)
(* While the connection lives, a slot that met no fault carries the id     *)
(* that the server takes next, but for the time between the server's use   *)
(* of it and Done: what CallCompound does with a lease is right for every  *)
(* outcome of the round trip, and for any number of slots and callers.     *)
(***************************************************************************)
THEOREM SlotsInSync == Spec => []InSync
  <1>1. IInv => InSync
    BY DEF IInv
  <1> QED  BY <1>1, Invariance, PTL

\* CallCompound never returns the results that the server kept for another
\* compound, on a slot that met no fault.
THEOREM ResultsAreOwn == Spec => []OwnResults
  <1>1. IInv => OwnResults
    BY DEF IInv
  <1> QED  BY <1>1, Invariance, PTL

(***************************************************************************)
(* "Advance to avoid wedging the slot" holds of the code against a server  *)
(* that shows none of the Faults: what the violation of NotWedged needs is *)
(* one of them, and nothing else (lost connections, errors before sending  *)
(* and context ends do not wedge a slot).                                  *)
(***************************************************************************)
THEOREM OnlyFaultsWedge == ASSUME Faults = {} PROVE Spec => []NotWedged
  <1>1. Init => upset = {}
    BY DEF Init
  <1>2. upset = {} /\ [Next]_vars => (upset = {})'
    <2>1. ASSUME NEW t \in Callers, RoundTrip(t)
          PROVE  upset' = upset
      BY <2>1 DEF RoundTrip, Executed, Undecodable, Replayed, SequenceFails, NoResop,
                  NotExecuted, ConnectionLost
    <2> QED  BY <2>1 DEF Next, Begin, SlotStep, AcquireFails, Finish, vars
  <1>3. Session /\ IInv /\ upset = {} => NotWedged
    BY DEF IInv, InSync, Session, SlotExclusive, Answered, NotWedged
  <1> QED  BY <1>1, <1>2, <1>3, Invariance, SessionHolds, PTL DEF Spec
=============================================================================
