---------------------------- MODULE SessionSlots ----------------------------
(***************************************************************************)
(* The fore-channel slot table of an NFSv4.1 session (nfs4/session.go).    *)
(*                                                                         *)
(* Session keeps two records of which slots are free: the inUse bits of    *)
(* the table, guarded by the mutex s.mu, and the tokens in the buffered    *)
(* channel s.free, which has its own synchronisation.  No step updates     *)
(* both: AcquireSlot receives a token and only then locks the table, and   *)
(* release unlocks the table and only then sends the token.  Each side of  *)
(* those two gaps is a step of its own here; what happens between Lock and *)
(* Unlock is one step.                                                     *)
(***************************************************************************)
EXTENDS Integers, FiniteSets

CONSTANTS
    Callers,    \* the goroutines that call AcquireSlot, one lease each at a time
    SlotCount,  \* the argument of NewSession
    SeqMod      \* 2^32 in the code: a slot's seq is a uint32

ASSUME CallersFinite == IsFiniteSet(Callers)
ASSUME SlotCountInt == SlotCount \in Int
ASSUME SeqModNat == SeqMod \in Nat /\ SeqMod > 1

VARIABLES
    slots,    \* Session.slots: [seq, inUse] for each slot id
    highest,  \* Session.highest
    free,     \* the number of tokens in the channel Session.free
    lease,    \* lease[t]: the slotLease that t was given last
    pc        \* pc[t]: where t is in AcquireSlot, its lease, or release

slotVars == <<slots, highest, free, lease, pc>>

\* NewSession raises a slot count below one to one.
NumSlots == IF SlotCount < 1 THEN 1 ELSE SlotCount

SlotIDs == 0 .. NumSlots - 1

Seqs == 0 .. SeqMod - 1

Leases == [slotID : SlotIDs, seq : Seqs, highest : SlotIDs, released : BOOLEAN]

NoLease == [slotID |-> 0, seq |-> 0, highest |-> 0, released |-> TRUE]

(***************************************************************************)
(* "idle"      outside the session, no lease or a released one             *)
(* "waiting"   in AcquireSlot's select, before <-s.free                    *)
(* "scanning"  has a token, has not locked the table yet                   *)
(* "holding"   AcquireSlot returned a lease that is not released           *)
(* "returning" release has freed the slot and not yet sent the token       *)
(* "fallback"  AcquireSlot returned through the branch that the code calls *)
(*             unreachable: the scan found every slot in use               *)
(***************************************************************************)
Locations == {"idle", "waiting", "scanning", "holding", "returning", "fallback"}

FreeSlots == {i \in SlotIDs : ~slots[i].inUse}

At(l) == {t \in Callers : pc[t] = l}

Move(t, from, to) ==
    /\ pc[t] = from
    /\ pc' = [pc EXCEPT ![t] = to]

\* NewSession: every slot free at sequence id 1, one token for each.
SlotsInit ==
    /\ slots = [i \in SlotIDs |-> [seq |-> 1, inUse |-> FALSE]]
    /\ highest = 0
    /\ free = NumSlots
    /\ lease = [t \in Callers |-> NoLease]
    /\ pc = [t \in Callers |-> "idle"]

\* A call of AcquireSlot reaches the select.
Acquire(t) ==
    /\ pc[t] \in {"idle", "fallback"}
    /\ pc' = [pc EXCEPT ![t] = "waiting"]
    /\ UNCHANGED <<slots, highest, free, lease>>

\* case <-s.free
TakeToken(t) ==
    /\ free > 0
    /\ free' = free - 1
    /\ Move(t, "waiting", "scanning")
    /\ UNCHANGED <<slots, highest, lease>>

\* case <-ctx.Done(): also possible when a token is there, select picks either.
AcquireCancelled(t) ==
    /\ Move(t, "waiting", "idle")
    /\ UNCHANGED <<slots, highest, free, lease>>

BugLeaseUnmarked(t, i) ==
    /\ ~slots[i].inUse
    /\ highest' = IF i > highest THEN i ELSE highest
    /\ lease' = [lease EXCEPT ![t] =
                    [slotID |-> i, seq |-> slots[i].seq,
                     highest |-> highest', released |-> FALSE]]
    /\ Move(t, "scanning", "holding")
    /\ UNCHANGED <<slots, free>>

\* The loop hands out the free slot with the lowest id.
Lease(t, i) ==
    /\ ~slots[i].inUse
    /\ \A j \in SlotIDs : j < i => slots[j].inUse
    /\ slots' = [slots EXCEPT ![i].inUse = TRUE]
    /\ highest' = IF i > highest THEN i ELSE highest
    /\ lease' = [lease EXCEPT ![t] =
                    [slotID |-> i, seq |-> slots[i].seq,
                     highest |-> highest', released |-> FALSE]]
    /\ Move(t, "scanning", "holding")
    /\ free' = free

\* The scan under s.mu; when it finds nothing the token goes back and the call
\* fails with context.Canceled.
Scan(t) ==
    IF \A i \in SlotIDs : slots[i].inUse
    THEN /\ free < NumSlots
         /\ free' = free + 1
         /\ Move(t, "scanning", "fallback")
         /\ UNCHANGED <<slots, highest, lease>>
    ELSE \E i \in SlotIDs : Lease(t, i)

\* release up to Unlock: Done is Release(t, TRUE), Retry is Release(t, FALSE).
Release(t, advance) ==
    /\ ~lease[t].released
    /\ lease' = [lease EXCEPT ![t].released = TRUE]
    /\ slots' = [slots EXCEPT ![lease[t].slotID] =
                    [seq   |-> IF advance THEN (@.seq + 1) % SeqMod ELSE @.seq,
                     inUse |-> FALSE]]
    /\ Move(t, "holding", "returning")
    /\ UNCHANGED <<highest, free>>

BugReleaseAgain(t, advance) ==
    /\ pc[t] = "idle"
    /\ slots' = [slots EXCEPT ![lease[t].slotID] =
                    [seq   |-> IF advance THEN (@.seq + 1) % SeqMod ELSE @.seq,
                     inUse |-> FALSE]]
    /\ pc' = [pc EXCEPT ![t] = "returning"]
    /\ UNCHANGED <<highest, free, lease>>

\* Done or Retry on a lease that was released before: the early return.
ReleaseAgain(t, advance) ==
    /\ pc[t] = "idle"
    /\ lease[t].released
    /\ UNCHANGED slotVars

BugReturnNoToken(t) ==
    /\ Move(t, "returning", "idle")
    /\ UNCHANGED <<slots, highest, free, lease>>

\* The send on s.free that ends release; it blocks while the channel is full.
ReturnToken(t) ==
    /\ free < NumSlots
    /\ free' = free + 1
    /\ Move(t, "returning", "idle")
    /\ UNCHANGED <<slots, highest, lease>>

SlotsNext ==
    \E t \in Callers :
        \/ Acquire(t)
        \/ TakeToken(t)
        \/ AcquireCancelled(t)
        \/ Scan(t)
        \/ \E advance \in BOOLEAN : Release(t, advance)
        \/ \E advance \in BOOLEAN : ReleaseAgain(t, advance)
        \/ ReturnToken(t)

SlotsSpec == SlotsInit /\ [][SlotsNext]_slotVars

(***************************************************************************)
(* Fairness: goroutines run, the receivers that block on s.free are served *)
(* in order, and a lease is released: sessionCaller.CallCompound ends each *)
(* of its paths with Done or Retry, and its context bounds the round trip. *)
(***************************************************************************)
Fairness ==
    \A t \in Callers :
        /\ SF_slotVars(TakeToken(t))
        /\ WF_slotVars(Scan(t))
        /\ WF_slotVars(\E advance \in BOOLEAN : Release(t, advance))
        /\ WF_slotVars(ReturnToken(t))

FairSpec == SlotsSpec /\ Fairness
-----------------------------------------------------------------------------
TypeOK ==
    /\ slots \in [SlotIDs -> [seq : Seqs, inUse : BOOLEAN]]
    /\ highest \in SlotIDs
    /\ free \in 0 .. NumSlots
    /\ lease \in [Callers -> Leases]
    /\ pc \in [Callers -> Locations]

Holds(t, i) == pc[t] = "holding" /\ lease[t].slotID = i

(***************************************************************************)
(* A slot is marked in use exactly while some caller holds an unreleased   *)
(* lease on it, and never two callers at once: AcquireSlot and release     *)
(* keep the inUse bits in step with the leases they hand out.              *)
(***************************************************************************)
SlotExclusive ==
    /\ \A i \in SlotIDs : slots[i].inUse <=> \E t \in Callers : Holds(t, i)
    /\ \A s, t \in Callers, i \in SlotIDs : Holds(s, i) /\ Holds(t, i) => s = t

(***************************************************************************)
(* The two records of what is free agree up to the gaps: the slots not in  *)
(* use are those with a token in the channel, those whose token an         *)
(* acquirer has taken before its scan, and those a releaser has freed      *)
(* before its send ("token/slot accounting is consistent").                *)
(***************************************************************************)
TokenAccounting ==
    Cardinality(FreeSlots) =
        free + Cardinality(At("scanning")) + Cardinality(At("returning"))

\* No call of AcquireSlot takes the branch the code calls unreachable.
NoFallback == At("fallback") = {}

\* The send that ends release finds room in the channel, so release never blocks.
SendNeverBlocks == At("returning") # {} => free < NumSlots

(***************************************************************************)
(* The sequence id in an unreleased lease is still the one its slot has,   *)
(* and the lease's highest slot id covers its own slot and is covered by   *)
(* the session's: nothing a lease carries goes stale while it is held.     *)
(***************************************************************************)
LeaseFresh ==
    \A t \in Callers : pc[t] = "holding" =>
        /\ ~lease[t].released
        /\ lease[t].seq = slots[lease[t].slotID].seq
        /\ lease[t].slotID <= lease[t].highest
        /\ lease[t].highest <= highest

\* Every call of AcquireSlot returns, with a lease or with its context's error,
\* however many callers contend for however few slots.
AcquireReturns == \A t \in Callers : pc[t] = "waiting" ~> pc[t] \in {"holding", "idle"}

(***************************************************************************)
(* The refinement mapping: a slot's owner is the caller with an unreleased *)
(* lease on it.                                                            *)
(***************************************************************************)
CONSTANT Nobody

ASSUME NobodyIsNoCaller == Nobody \notin Callers

Owner ==
    [i \in SlotIDs |->
        IF \E t \in Callers : Holds(t, i)
        THEN CHOOSE t \in Callers : Holds(t, i)
        ELSE Nobody]

Allocator == INSTANCE SlotAllocator
                 WITH owner <- Owner, seq <- [i \in SlotIDs |-> slots[i].seq]

\* The slot table implements the one-step allocator of SlotAllocator.
ImplementsAllocator == Allocator!Spec
=============================================================================
