------------------------------ MODULE OpenOwner -----------------------------
(***************************************************************************)
(* The seqid of the one open-owner of a v4.0 Conn (nfs4/conn_write.go).    *)
(* Open, openConfirm and CloseFile take the next number from an atomic     *)
(* counter when they build their arguments; their compounds then wait for  *)
(* the rpc.Client, which sends one at a time.  The server, which is not    *)
(* part of the repository, takes any number first and then its successor.  *)
(***************************************************************************)
EXTENDS Integers, Sequences

CONSTANTS
    Callers,  \* goroutines
    MaxSeqid, \* bound on the counter
    Attempts  \* the attempts of the retry loop

VARIABLES
    openSeqid,  \* Conn.openSeqid
    pc,         \* caller -> "idle", "built" or "sent"
    op,         \* caller -> the operation its compound carries
    seqid,      \* caller -> the seqid in it
    tries,      \* caller -> compounds sent
    busy,       \* the caller that holds Client.mu, or none
    last,       \* server: the last seqid it took, 0 before the first
    reached     \* the seqids that reached the server, replays left out

vars == <<openSeqid, pc, op, seqid, tries, busy, last, reached>>

None == "none"

Init ==
    /\ openSeqid = 0
    /\ pc = [c \in Callers |-> "idle"]
    /\ op = [c \in Callers |-> None]
    /\ seqid = [c \in Callers |-> 0]
    /\ tries = [c \in Callers |-> 0]
    /\ busy = None
    /\ last = 0
    /\ reached = <<>>

\* Open, openConfirm or CloseFile up to CallCompound: nextSeqid is one atomic
\* addition, and the argument keeps what it returned.
Build(c, o) ==
    /\ openSeqid' = openSeqid + 1
    /\ seqid' = [seqid EXCEPT ![c] = openSeqid']
    /\ op' = [op EXCEPT ![c] = o]
    /\ tries' = [tries EXCEPT ![c] = 0]
    /\ pc' = [pc EXCEPT ![c] = "built"]

Call(c, o) ==
    /\ pc[c] = "idle" /\ openSeqid < MaxSeqid
    /\ Build(c, o)
    /\ UNCHANGED <<busy, last, reached>>

\* Client.Call has the lock and writes the request.
Send(c) ==
    /\ pc[c] = "built" /\ busy = None
    /\ busy' = c
    /\ tries' = [tries EXCEPT ![c] = @ + 1]
    /\ pc' = [pc EXCEPT ![c] = "sent"]
    /\ UNCHANGED <<openSeqid, op, seqid, last, reached>>

End(c) == pc' = [pc EXCEPT ![c] = "idle"] /\ UNCHANGED <<openSeqid, op, seqid, tries>>

\* The retry loop sends the compound again, with the seqid it has.
Again(c) ==
    /\ tries[c] < Attempts
    /\ pc' = [pc EXCEPT ![c] = "built"]
    /\ UNCHANGED <<openSeqid, op, seqid, tries>>

\* The server sees the seqid: the next one, which it takes whatever comes of the
\* operation; the last one again, which gets the answer of the last; or any
\* other, which is NFS4ERR_BAD_SEQID.  An OPEN may ask for OPEN_CONFIRM.
Serve(c) ==
    LET next == last = 0 \/ seqid[c] = last + 1
        again == seqid[c] = last
    IN
    /\ pc[c] = "sent" /\ busy = c
    /\ busy' = None
    /\ reached' = IF again THEN reached ELSE Append(reached, seqid[c])
    /\ last' = IF next THEN seqid[c] ELSE last
    /\ \/ End(c)
       \/ next /\ op[c] = "OPEN" /\ openSeqid < MaxSeqid /\ Build(c, "OPEN_CONFIRM")
       \/ (next \/ again) /\ Again(c)

\* The compound fails before its operation is reached (PUTFH, the transport).
Miss(c) ==
    /\ pc[c] = "sent" /\ busy = c
    /\ busy' = None
    /\ End(c) \/ Again(c)
    /\ UNCHANGED <<last, reached>>

Next ==
    \E c \in Callers :
        \/ \E o \in {"OPEN", "CLOSE"} : Call(c, o)
        \/ Send(c) \/ Serve(c) \/ Miss(c)

Spec == Init /\ [][Next]_vars
-----------------------------------------------------------------------------
(***************************************************************************)
(* conn_write.go:24: seqids "advance by one on each OPEN/CLOSE", which is  *)
(* what a v4.0 server requires of the operations of one open-owner.  The   *)
(* counter does; the numbers reach the server in the order in which the    *)
(* callers get the lock, and those of compounds that failed before their   *)
(* operation never do.                                                     *)
(***************************************************************************)
AdvanceByOne == \A i \in 1 .. Len(reached) - 1 : reached[i + 1] = reached[i] + 1
=============================================================================
