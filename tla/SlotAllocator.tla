---------------------------- MODULE SlotAllocator ---------------------------
(***************************************************************************)
(* What a Session promises its callers (nfs4/session.go, the comments of   *)
(* slot, Session and slotLease): each slot has at most one owner at a      *)
(* time, an acquirer becomes the owner of some free slot in one step, and  *)
(* only the owner moves the slot's sequence id, by one, as it gives the    *)
(* slot back.  Tokens, the mutex and the two gaps are not visible here.    *)
(***************************************************************************)
EXTENDS Integers

CONSTANTS Callers, SlotIDs, SeqMod, Nobody

VARIABLES
    owner,  \* owner[i]: the caller that holds slot i, or Nobody
    seq     \* seq[i]: the sequence id the next request on slot i carries

vars == <<owner, seq>>

Init ==
    /\ owner = [i \in SlotIDs |-> Nobody]
    /\ seq = [i \in SlotIDs |-> 1]

Acquire(t, i) ==
    /\ owner[i] = Nobody
    /\ \A j \in SlotIDs : owner[j] # t
    /\ owner' = [owner EXCEPT ![i] = t]
    /\ seq' = seq

GiveBack(t, i, advance) ==
    /\ owner[i] = t
    /\ owner' = [owner EXCEPT ![i] = Nobody]
    /\ seq' = IF advance THEN [seq EXCEPT ![i] = (@ + 1) % SeqMod] ELSE seq

Next ==
    \E t \in Callers, i \in SlotIDs :
        \/ Acquire(t, i)
        \/ \E advance \in BOOLEAN : GiveBack(t, i, advance)

Spec == Init /\ [][Next]_vars
=============================================================================
