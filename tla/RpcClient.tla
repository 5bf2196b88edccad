------------------------------ MODULE RpcClient -----------------------------
(***************************************************************************)
(* rpc.Client (rpc/client.go): synchronous RPC over one stream.            *)
(*                                                                         *)
(* Client.Call holds c.mu for a whole round trip and does the I/O in a     *)
(* goroutine of its own, so that the context can end the call while the    *)
(* I/O is blocked.  The goroutine outlives such a call: what keeps it from *)
(* reading the reply of a later call is that the connection was closed.    *)
(* Locking, allocXID, encoding and the start of the goroutine are one      *)
(* step, as nothing of them is visible before the goroutine writes.  A     *)
(* record is one element of the stream.  The server (external) answers     *)
(* requests in order, at its own pace or never.                            *)
(***************************************************************************)
EXTENDS Integers, Sequences, FiniteSets

CONSTANTS
    Callers,   \* goroutines that use the Client, one Call each at a time
    Workers,   \* bound: I/O goroutines alive at the same time
    Requests,  \* procedure arguments; a result names the request it answers
    XidMod,    \* 2^32 in the code: nextID is a uint32
    MaxFaults, \* bound: requests not encoded, reads that leave a reply unread
    Nobody

ASSUME MaxFaultsNat == MaxFaults \in Nat
ASSUME XidModNat == XidMod \in Nat /\ XidMod > MaxFaults + 2
ASSUME NobodyElse == Nobody \notin Callers \cup Workers \cup Requests
ASSUME RequestsNamed == Requests \cap {"cancelled", "error"} = {}

VARIABLES
    nextID,   \* Client.nextID
    mu,       \* the caller that holds Client.mu, or Nobody
    conn,     \* "open" or "closed"
    toServer, \* request records in transit, of kind "call"
    toClient, \* reply records in transit, of one of the ReplyKinds
    call,     \* call[t]: [at, req, done, xid, worker]: t's Call and its context
    io,       \* io[w]: [at, msg]: an I/O goroutine, what it writes or has in done
    result,   \* result[t]: the outcome of t's last Call
    faults    \* how many such faults happened so far

vars == <<nextID, mu, conn, toServer, toClient, call, io, result, faults>>

Xids == 0 .. XidMod - 1

\* "garbled": the header does not decode.  "oversized": ReadRecord refuses the
\* fragment and leaves its payload in the stream, where it is "debris" to the
\* next read.
ReplyKinds == {"ok", "denied", "garbled", "oversized", "debris"}

Messages == [xid : Xids, req : Requests, kind : ReplyKinds \cup {"call"}]

IOError == [xid |-> 0, req |-> Nobody, kind |-> "ioError"]
NoMessage == [xid |-> 0, req |-> Nobody, kind |-> "none"]

\* Client.allocXID
AllocXID ==
    LET x == (nextID + 1) % XidMod IN IF x = 0 THEN 1 ELSE x

NoCall == [at |-> "idle", req |-> Nobody, done |-> FALSE, xid |-> 0, worker |-> Nobody]
Resting == [at |-> "free", msg |-> NoMessage]

\* NewClient starts at a random transaction id.
Init ==
    /\ nextID \in Xids
    /\ mu = Nobody
    /\ conn = "open"
    /\ toServer = <<>> /\ toClient = <<>>
    /\ call = [t \in Callers |-> NoCall]
    /\ io = [w \in Workers |-> Resting]
    /\ result = [t \in Callers |-> Nobody]
    /\ faults = 0

stream == <<conn, toServer, toClient>>
-----------------------------------------------------------------------------
\* Call with a live context goes on to c.mu.Lock().
Call(t, r) ==
    /\ call[t].at = "idle"
    /\ call' = [call EXCEPT ![t] = [NoCall EXCEPT !.at = "queued", !.req = r]]
    /\ result' = [result EXCEPT ![t] = Nobody]
    /\ UNCHANGED <<nextID, mu, stream, io, faults>>

\* Call with a context that is done already: the early return.
CallDone(t) ==
    /\ call[t].at = "idle"
    /\ result' = [result EXCEPT ![t] = "cancelled"]
    /\ UNCHANGED <<nextID, mu, stream, call, io, faults>>

\* The context of t's call ends.
ContextEnds(t) ==
    /\ call[t].at # "idle" /\ ~call[t].done
    /\ call' = [call EXCEPT ![t].done = TRUE]
    /\ UNCHANGED <<nextID, mu, stream, io, result, faults>>

\* Lock, allocXID, encode, go func().
Start(t, w) ==
    /\ call[t].at = "queued" /\ mu = Nobody
    /\ io[w].at = "free"
    /\ mu' = t
    /\ nextID' = AllocXID
    /\ call' = [call EXCEPT ![t].at = "select", ![t].xid = nextID', ![t].worker = w]
    /\ io' = [io EXCEPT ![w] = [at  |-> "write",
                                msg |-> [xid |-> nextID', req |-> call[t].req,
                                         kind |-> "call"]]]
    /\ UNCHANGED <<stream, result, faults>>

\* The encoder reports an error: the xid is used up, nothing is sent.
EncodeFails(t) ==
    /\ call[t].at = "queued" /\ mu = Nobody
    /\ faults < MaxFaults
    /\ faults' = faults + 1
    /\ nextID' = AllocXID
    /\ call' = [call EXCEPT ![t] = NoCall]
    /\ result' = [result EXCEPT ![t] = "error"]
    /\ UNCHANGED <<mu, stream, io>>

Return(t, res) ==
    /\ mu' = Nobody
    /\ call' = [call EXCEPT ![t] = NoCall]
    /\ result' = [result EXCEPT ![t] = res]
    /\ UNCHANGED <<nextID, faults>>

CloseConn == conn' = "closed" /\ toServer' = <<>> /\ toClient' = <<>>

BugSelectContextKeepsConn(t) ==
    /\ call[t].at = "select" /\ call[t].done
    /\ UNCHANGED stream
    /\ io' = [w \in Workers |->
                IF w = call[t].worker /\ io[w].at = "done" THEN Resting ELSE io[w]]
    /\ Return(t, "cancelled")

BugSelectContextKeepsLock(t) ==
    /\ call[t].at = "select" /\ call[t].done
    /\ CloseConn
    /\ io' = [w \in Workers |->
                IF w = call[t].worker /\ io[w].at = "done" THEN Resting ELSE io[w]]
    /\ call' = [call EXCEPT ![t] = NoCall]
    /\ result' = [result EXCEPT ![t] = "cancelled"]
    /\ UNCHANGED <<nextID, mu, faults>>

\* case <-ctx.Done(): close the connection and leave the goroutine behind.
SelectContext(t) ==
    /\ call[t].at = "select" /\ call[t].done
    /\ CloseConn
    /\ io' = [w \in Workers |->
                IF w = call[t].worker /\ io[w].at = "done" THEN Resting ELSE io[w]]
    /\ Return(t, "cancelled")

BugDecodeNoXid(x, rep) == IF rep.kind = "ok" THEN rep.req ELSE "error"

\* decodeReply: header, xid, accepted status, then the procedure's results.  An
\* I/O error is returned as it is.
decodeReply(x, rep) ==
    IF rep.kind = "ok" /\ rep.xid = x THEN rep.req ELSE "error"

\* case res := <-done
SelectDone(t) ==
    LET w == call[t].worker IN
    /\ call[t].at = "select" /\ io[w].at = "done"
    /\ io' = [io EXCEPT ![w] = Resting]
    /\ Return(t, decodeReply(call[t].xid, io[w].msg))
    /\ UNCHANGED stream
-----------------------------------------------------------------------------
\* The goroutine sends on its buffered channel and ends; nobody may be listening.
Finish(w, res) ==
    io' = [io EXCEPT ![w] = IF \E t \in Callers : call[t].worker = w
                            THEN [at |-> "done", msg |-> res]
                            ELSE Resting]

\* WriteRecord
Write(w) ==
    /\ io[w].at = "write"
    /\ \/ /\ conn = "open"
          /\ toServer' = Append(toServer, io[w].msg)
          /\ io' = [io EXCEPT ![w] = [at |-> "read", msg |-> NoMessage]]
       \/ /\ conn = "closed"
          /\ Finish(w, IOError)
          /\ UNCHANGED toServer
    /\ UNCHANGED <<nextID, mu, conn, toClient, call, result, faults>>

BugReadNotWokenByClose(w) ==
    /\ io[w].at = "read"
    /\ toClient # <<>> /\ Head(toClient).kind \notin {"oversized", "debris"}
    /\ Finish(w, Head(toClient))
    /\ toClient' = Tail(toClient)
    /\ UNCHANGED <<nextID, mu, conn, toServer, call, result, faults>>

\* ReadRecord on a closed connection, or with a record in the stream.
Read(w) ==
    /\ io[w].at = "read"
    /\ \/ conn = "closed" /\ Finish(w, IOError) /\ UNCHANGED toClient
       \/ /\ toClient # <<>> /\ Head(toClient).kind \notin {"oversized", "debris"}
          /\ Finish(w, Head(toClient))
          /\ toClient' = Tail(toClient)
    /\ UNCHANGED <<nextID, mu, conn, toServer, call, result, faults>>

\* A record over the size limit: ReadRecord returns an error having consumed the
\* fragment header only.  Reading what is left of it fails again, or blocks.
ReadOversized(w) ==
    /\ io[w].at = "read" /\ faults < MaxFaults
    /\ toClient # <<>> /\ Head(toClient).kind \in {"oversized", "debris"}
    /\ Finish(w, IOError)
    /\ toClient' = [toClient EXCEPT ![1].kind = "debris"]
    /\ faults' = faults + 1
    /\ UNCHANGED <<nextID, mu, conn, toServer, call, result>>

\* A deadline set with SetDeadline ends the read; the connection stays open and
\* the reply is still to come.
ReadTimesOut(w) ==
    /\ io[w].at = "read" /\ conn = "open" /\ faults < MaxFaults
    /\ Finish(w, IOError)
    /\ faults' = faults + 1
    /\ UNCHANGED <<nextID, mu, stream, call, result>>
-----------------------------------------------------------------------------
\* Client.Close, which takes no lock, or the peer closing the connection.
Close ==
    /\ conn = "open"
    /\ CloseConn
    /\ UNCHANGED <<nextID, mu, call, io, result, faults>>

\* The server answers the oldest request it has.
Respond(kind) ==
    /\ toServer # <<>>
    /\ toServer' = Tail(toServer)
    /\ toClient' = Append(toClient, [Head(toServer) EXCEPT !.kind = kind])
    /\ UNCHANGED <<nextID, mu, conn, call, io, result, faults>>

Next ==
    \/ \E t \in Callers :
          \/ \E r \in Requests : Call(t, r)
          \/ CallDone(t)
          \/ ContextEnds(t)
          \/ \E w \in Workers : Start(t, w)
          \/ EncodeFails(t)
          \/ SelectContext(t)
          \/ SelectDone(t)
    \/ \E w \in Workers : Write(w) \/ Read(w) \/ ReadOversized(w) \/ ReadTimesOut(w)
    \/ Close
    \/ \E kind \in ReplyKinds \ {"debris"} : Respond(kind)

Spec == Init /\ [][Next]_vars

(***************************************************************************)
(* Fairness: goroutines run, sync.Mutex does not starve a waiter (strong   *)
(* fairness of Start), and every context ends at some time, as one with a  *)
(* deadline does.  Nothing is assumed of the server.                       *)
(***************************************************************************)
Fairness ==
    /\ \A t \in Callers :
          /\ SF_vars(\E w \in Workers : Start(t, w))
          /\ WF_vars(ContextEnds(t))
          /\ WF_vars(SelectContext(t))
          /\ WF_vars(SelectDone(t))
    /\ \A w \in Workers : WF_vars(Write(w)) /\ WF_vars(Read(w))

FairSpec == Spec /\ Fairness
-----------------------------------------------------------------------------
Calls == [at : {"idle", "queued", "select"}, req : Requests \cup {Nobody},
          done : BOOLEAN, xid : Xids, worker : Workers \cup {Nobody}]

IOs == [at : {"free", "write", "read", "done"}, msg : Messages \cup {IOError, NoMessage}]

TypeOK ==
    /\ nextID \in Xids
    /\ mu \in Callers \cup {Nobody}
    /\ conn \in {"open", "closed"}
    /\ toServer \in Seq(Messages)
    /\ toClient \in Seq(Messages)
    /\ call \in [Callers -> Calls]
    /\ io \in [Workers -> IOs]
    /\ result \in [Callers -> Requests \cup {"cancelled", "error", Nobody}]
    /\ faults \in 0 .. MaxFaults

(***************************************************************************)
(* On an open connection at most one goroutine does I/O, and it works for  *)
(* the caller that holds the mutex: a goroutine left behind by a cancelled *)
(* Call never reads the reply of a later one.                              *)
(***************************************************************************)
OneReader ==
    conn = "open" =>
        \A w \in Workers : io[w].at \in {"write", "read"} =>
            mu # Nobody /\ call[mu].worker = w

(***************************************************************************)
(* A Call that succeeds decoded the reply to its own request, also when    *)
(* replies that earlier calls gave up on are still in the stream.          *)
(***************************************************************************)
OwnReply ==
    [][\A t \in Callers : call[t].at = "select" /\ result'[t] \in Requests
            => result'[t] = call[t].req]_vars

\* Every Call returns, also when the server never answers, once contexts end.
CallReturns == \A t \in Callers : call[t].at # "idle" ~> call[t].at = "idle"

\* No I/O goroutine outlives its Call for ever.
WorkersEnd == \A w \in Workers : io[w].at # "free" ~> io[w].at = "free"
=============================================================================
