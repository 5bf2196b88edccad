----------------------------- MODULE SessionCall ----------------------------
(***************************************************************************)
(* sessionCaller.CallCompound (nfs4/session.go) over the slot table of     *)
(* SessionSlots, a connection, and the slot table of the server.           *)
(*                                                                         *)
(* A call leases a slot, sends its compound behind SEQUENCE(slot, seq) and *)
(* releases the lease according to what the base caller returned.  The     *)
(* base caller is RPCCaller over rpc.Client, one round trip at a time on   *)
(* one connection, so a round trip is one step here; a context that ends   *)
(* during it closes the connection for good (rpc/client.go).  The server   *)
(* is not part of the repository: its slots advance "on each successful    *)
(* use" and a used (slot, seq) is answered again from the slot's cache.    *)
(***************************************************************************)
EXTENDS SessionSlots

CONSTANTS
    Requests,  \* the compounds that callers send
    Faults     \* the answers other than success that occur

FaultKinds == {"seqfail", "noresop", "undecodable"}

\* "error": CallCompound got an error; "seqErr": SEQUENCE has a bad status;
\* "empty": a compound status and no resop, so SEQUENCE's status is still zero.
Failures == {"error", "seqErr", "empty"}

ASSUME FaultsKnown == Faults \subseteq FaultKinds
ASSUME RequestsNamed == Requests \cap (Failures \cup {"none"}) = {}

\* Besides those of SessionSlots:
VARIABLES
    req,      \* req[t]: the compound of t's current call, if there is one
    reply,    \* reply[t]: what the base caller returned to t, if it has
    conn,     \* the connection: "up" or "down"
    srvSeq,   \* the server's slots: the sequence id last executed
    srvReq,   \* and the compound it executed then
    upset     \* history: the slots that met one of the Faults

srvVars == <<srvSeq, srvReq>>
vars == <<slotVars, req, reply, conn, srvVars, upset>>

Init ==
    /\ SlotsInit
    /\ req = [t \in Callers |-> "none"]
    /\ reply = [t \in Callers |-> "none"]
    /\ conn = "up"
    /\ srvSeq = [i \in SlotIDs |-> 0]
    /\ srvReq = [i \in SlotIDs |-> "none"]
    /\ upset = {}

\* CallCompound(r) enters AcquireSlot.
Begin(t, r) ==
    /\ Acquire(t)
    /\ req' = [req EXCEPT ![t] = r]
    /\ UNCHANGED <<reply, conn, srvVars, upset>>

\* AcquireSlot goes on, or the release that ends the call returns its token.
SlotStep(t) ==
    /\ TakeToken(t) \/ Scan(t) \/ ReturnToken(t)
    /\ UNCHANGED <<req, reply, conn, srvVars, upset>>

\* AcquireSlot saw the context end: CallCompound returns its error.
AcquireFails(t) ==
    /\ AcquireCancelled(t)
    /\ req' = [req EXCEPT ![t] = "none"]
    /\ UNCHANGED <<reply, conn, srvVars, upset>>
-----------------------------------------------------------------------------
Sending(t) == pc[t] = "holding" /\ reply[t] = "none"

Answer(t, a) ==
    /\ reply' = [reply EXCEPT ![t] = a]
    /\ UNCHANGED <<slotVars, req>>

Upset(t) == upset' = upset \cup {lease[t].slotID}

NextSeq(i) == (srvSeq[i] + 1) % SeqMod

\* The server runs SEQUENCE and the ops of t's compound.
ServerRuns(t) ==
    LET i == lease[t].slotID IN
    /\ lease[t].seq = NextSeq(i)
    /\ srvSeq' = [srvSeq EXCEPT ![i] = lease[t].seq]
    /\ srvReq' = [srvReq EXCEPT ![i] = req[t]]

\* The round trip succeeds and the results are those of t's compound.
Executed(t) ==
    /\ Sending(t) /\ conn = "up"
    /\ ServerRuns(t)
    /\ Answer(t, req[t])
    /\ UNCHANGED <<conn, upset>>

\* The server ran the compound but the client cannot decode the results.
Undecodable(t) ==
    /\ Sending(t) /\ conn = "up" /\ "undecodable" \in Faults
    /\ ServerRuns(t)
    /\ Answer(t, "error")
    /\ Upset(t) /\ conn' = conn

\* The (slot, seq) was used before: the cached results come back.
Replayed(t) ==
    LET i == lease[t].slotID IN
    /\ Sending(t) /\ conn = "up"
    /\ lease[t].seq = srvSeq[i] /\ srvReq[i] # "none"
    /\ Answer(t, srvReq[i])
    /\ UNCHANGED <<conn, srvVars, upset>>

\* SEQUENCE fails: the sequence id is not the slot's next one, or the server
\* refuses (NFS4ERR_DELAY, NFS4ERR_BADSESSION, ...) without using the slot.
SequenceFails(t) ==
    /\ Sending(t) /\ conn = "up"
    /\ \/ lease[t].seq # NextSeq(lease[t].slotID) /\ upset' = upset
       \/ "seqfail" \in Faults /\ Upset(t)
    /\ Answer(t, "seqErr")
    /\ UNCHANGED <<conn, srvVars>>

\* The server rejects the compound before SEQUENCE: a status and no results.
NoResop(t) ==
    /\ Sending(t) /\ conn = "up" /\ "noresop" \in Faults
    /\ Answer(t, "empty")
    /\ Upset(t) /\ UNCHANGED <<conn, srvVars>>

\* The call is not sent (context already done, encoding error), or the RPC layer
\* of the server denies it: ReplyHeader.Error.
NotExecuted(t) ==
    /\ Sending(t)
    /\ Answer(t, "error")
    /\ UNCHANGED <<conn, srvVars, upset>>

\* The context ends or the transport fails during the round trip, which the
\* server may or may not have run; the connection is gone.
ConnectionLost(t) ==
    /\ Sending(t) /\ conn = "up"
    /\ ServerRuns(t) \/ UNCHANGED srvVars
    /\ Answer(t, "error")
    /\ conn' = "down" /\ upset' = upset
-----------------------------------------------------------------------------
\* CallCompound returns the results, or an error if reply[t] is one of Failures.
Returns(t) ==
    /\ reply' = [reply EXCEPT ![t] = "none"]
    /\ req' = [req EXCEPT ![t] = "none"]

BugFinishAlwaysAdvance(t) ==
    /\ pc[t] = "holding" /\ reply[t] # "none"
    /\ Release(t, TRUE)
    /\ Returns(t)
    /\ UNCHANGED <<conn, srvVars, upset>>

BugFinishNeverAdvance(t) ==
    /\ pc[t] = "holding" /\ reply[t] # "none"
    /\ Release(t, FALSE)
    /\ Returns(t)
    /\ UNCHANGED <<conn, srvVars, upset>>

BugFinishTokenWithSlot(t) ==
    /\ pc[t] = "holding" /\ reply[t] # "none"
    /\ lease' = [lease EXCEPT ![t].released = TRUE]
    /\ slots' = [slots EXCEPT ![lease[t].slotID].inUse = FALSE]
    /\ pc' = [pc EXCEPT ![t] = "returning"]
    /\ free' = free + 1
    /\ Returns(t)
    /\ UNCHANGED <<highest, conn, srvVars, upset>>

\* The base caller has returned: an error means Retry, anything else Done.
Finish(t) ==
    /\ pc[t] = "holding" /\ reply[t] # "none"
    /\ Release(t, reply[t] # "error")
    /\ Returns(t)
    /\ UNCHANGED <<conn, srvVars, upset>>

RoundTrip(t) ==
    \/ Executed(t)
    \/ Undecodable(t)
    \/ Replayed(t)
    \/ SequenceFails(t)
    \/ NoResop(t)
    \/ NotExecuted(t)
    \/ ConnectionLost(t)

Next ==
    \E t \in Callers :
        \/ \E r \in Requests : Begin(t, r)
        \/ SlotStep(t)
        \/ AcquireFails(t)
        \/ RoundTrip(t)
        \/ Finish(t)

Spec == Init /\ [][Next]_vars
-----------------------------------------------------------------------------
\* Some caller has a reply to a request that the server ran on slot i.
Answered(i) == \E t \in Callers : Holds(t, i) /\ reply[t] \in Requests

(***************************************************************************)
(* While the connection lives, the sequence id of a slot is the next one   *)
(* the server takes, except between the server's use of it and the lease's *)
(* Done: advancing on every decoded reply and keeping the id on an error   *)
(* keeps both sides in step, whatever happens to the other slots.  A slot  *)
(* that met one of the Faults is out of step: see NotWedged.               *)
(***************************************************************************)
InSync ==
    conn = "up" =>
        \A i \in SlotIDs \ upset :
            slots[i].seq = IF Answered(i) THEN srvSeq[i] ELSE NextSeq(i)

\* The results that a call gets on a slot that met no fault are those of its own
\* compound, never those that the server kept for another.
OwnResults ==
    \A t \in Callers :
        reply[t] \in Requests /\ lease[t].slotID \notin upset => reply[t] = req[t]

\* The calls use the session as its contract asks: each lease is released once,
\* by its holder, so the session's own guarantees carry over.
UsesSession == SlotsSpec

(***************************************************************************)
(* "Advance to avoid wedging the slot": a slot that is free can be used    *)
(* again, its sequence id is the server's next one or a replay of the last.*)
(***************************************************************************)
NotWedged ==
    conn = "up" =>
        \A i \in SlotIDs : ~slots[i].inUse => slots[i].seq \in {srvSeq[i], NextSeq(i)}
=============================================================================
