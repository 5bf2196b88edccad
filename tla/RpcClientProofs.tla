--------------------------- MODULE RpcClientProofs --------------------------
(***************************************************************************)
(* Proofs about RpcClient for any number of callers and I/O goroutines and *)
(* any width of the transaction id.                                        *)
(***************************************************************************)
EXTENDS RpcClient, TLAPS

\* Zenon proves the leaves that name no other prover.
USE Zenon

\* The mutex is held exactly by the caller in the select, who has a goroutine
\* that has started and that nobody else waits for.
LockInv ==
    /\ \A t \in Callers : call[t].at = "select" <=> mu = t
    /\ \A t \in Callers : call[t].at = "select" <=> call[t].worker # Nobody

\* A goroutine that is to write has a request to write.
WriteInv == \A w \in Workers : io[w].at = "write" => io[w].msg \in Messages

\* A Call that waits for the mutex has a request.
QueuedInv == \A t \in Callers : call[t].at = "queued" => call[t].req \in Requests

IInv == TypeOK /\ LockInv /\ QueuedInv /\ WriteInv /\ OneReader

\* allocXID stays within the width of the transaction id.
LEMMA AllocXIDType == nextID \in Xids => AllocXID \in Xids
  BY SMTT(30), XidModNat, MaxFaultsNat DEF Xids, AllocXID

\* The streams hold messages: what is appended, taken off and changed in place.
LEMMA StreamTypes ==
    ASSUME NEW q \in Seq(Messages)
    PROVE  /\ \A m \in Messages : Append(q, m) \in Seq(Messages)
           /\ q # <<>> => Head(q) \in Messages /\ Tail(q) \in Seq(Messages)
           /\ \A m \in Messages : q # <<>> => [q EXCEPT ![1] = m] \in Seq(Messages)
  <1>1. ASSUME NEW m \in Messages, q # <<>> PROVE [q EXCEPT ![1] = m] \in Seq(Messages)
    <2>1. Len(q) \in Nat /\ q \in [1 .. Len(q) -> Messages]
      BY SMTT(30)
    <2>2. [q EXCEPT ![1] = m] \in [1 .. Len(q) -> Messages]
      BY <2>1
    <2> QED  BY SMTT(30), <2>1, <2>2
  <1> QED  BY SMTT(30), <1>1

\* A message with another kind is one.
LEMMA Rekinded ==
    ASSUME NEW m \in Messages, NEW k \in ReplyKinds
    PROVE  [m EXCEPT !.kind = k] \in Messages
  BY DEF Messages

\* What a step may change in a caller's record.
LEMMA CallEdits ==
    ASSUME NEW c \in Calls
    PROVE  /\ [c EXCEPT !.done = TRUE] \in Calls
           /\ [c EXCEPT !.done = TRUE].at = c.at
           /\ [c EXCEPT !.done = TRUE].req = c.req
           /\ [c EXCEPT !.done = TRUE].worker = c.worker
           /\ \A x \in Xids, w \in Workers :
                 /\ [c EXCEPT !.at = "select", !.xid = x, !.worker = w] \in Calls
                 /\ [c EXCEPT !.at = "select", !.xid = x, !.worker = w].at = "select"
                 /\ [c EXCEPT !.at = "select", !.xid = x, !.worker = w].worker = w
  BY DEF Calls

\* A goroutine that ends leaves the types and the callers as they are, and does no
\* more I/O.
LEMMA FinishTypes ==
    ASSUME IInv, NEW w \in Workers, NEW res \in Messages \cup {IOError, NoMessage},
           Finish(w, res)
    PROVE  /\ io' \in [Workers -> IOs]
           /\ \A v \in Workers : io'[v].at \in {"write", "read"} => v # w /\ io'[v] = io[v]
  BY DEF Finish, Resting, IInv, TypeOK, IOs

\* NewClient establishes the invariant.
LEMMA InitIInv == Init => IInv
  BY SMTT(30), NobodyElse, XidModNat, MaxFaultsNat
     DEF Init, IInv, TypeOK, Calls, IOs, LockInv, QueuedInv, WriteInv, OneReader, NoCall,
         Resting, NoMessage, Xids

\* What a caller does: Call, its early return, the locked part and the select.
LEMMA CallerStep ==
    ASSUME IInv, NEW t \in Callers,
           \/ \E r \in Requests : Call(t, r)
           \/ CallDone(t)
           \/ ContextEnds(t)
           \/ \E w \in Workers : Start(t, w)
           \/ EncodeFails(t)
           \/ SelectContext(t)
           \/ SelectDone(t)
    PROVE  IInv'
  <1>a. call \in [Callers -> Calls]
    BY DEF IInv, TypeOK
  <1>b. call[t] \in Calls
    BY <1>a
  <1>c. ASSUME NEW c \in Calls PROVE [call EXCEPT ![t] = c] \in [Callers -> Calls]
    BY <1>a
  <1> USE NobodyElse, AllocXIDType
  <1> USE DEF IInv, TypeOK, LockInv, QueuedInv, WriteInv, OneReader, stream
  <1>0. 0 \in Xids
    BY SMTT(30), XidModNat, MaxFaultsNat DEF Xids
  <1>1. ASSUME NEW r \in Requests, Call(t, r) PROVE IInv'
    BY <1>0, <1>1, ZenonT(40) DEF Call, NoCall, Calls
  <1>2. CASE CallDone(t)
    BY <1>2 DEF CallDone
  <1>3. CASE ContextEnds(t)
    <2>0. call' = [call EXCEPT ![t] = [call[t] EXCEPT !.done = TRUE]]
      BY <1>3 DEF ContextEnds
    <2>1. call' \in [Callers -> Calls]
      <3> HIDE NobodyElse, AllocXIDType DEF IInv, TypeOK, LockInv, QueuedInv, WriteInv, OneReader, stream
      <3>1. [call[t] EXCEPT !.done = TRUE] \in Calls
        BY <1>b, CallEdits
      <3> QED  BY <1>c, <2>0, <3>1
    <2>2. \A u \in Callers : /\ call'[u].at = call[u].at /\ call'[u].worker = call[u].worker
                             /\ call'[u].req = call[u].req
      <3> HIDE NobodyElse, AllocXIDType DEF IInv, TypeOK, LockInv, QueuedInv, WriteInv, OneReader, stream
      <3>1. call'[t] = [call[t] EXCEPT !.done = TRUE]
        BY <1>a, <2>0
      <3>2. \A u \in Callers \ {t} : call'[u] = call[u]
        BY <1>a, <2>0, ZenonT(30)
      <3>3. /\ call'[t].at = call[t].at /\ call'[t].worker = call[t].worker
            /\ call'[t].req = call[t].req
        BY <1>b, <3>1, CallEdits
      <3> QED  BY <3>2, <3>3
    <2> QED  BY SMTT(30), <1>3, <2>1, <2>2 DEF ContextEnds
  <1>4. ASSUME NEW w \in Workers, Start(t, w) PROVE IInv'
    <2>1. nextID' \in Xids /\ mu' = t
      BY <1>4 DEF Start
    <2>0. call' = [call EXCEPT ![t] = [call[t] EXCEPT !.at = "select", !.xid = nextID',
                                                      !.worker = w]]
      BY <1>4 DEF Start
    <2>2. call' \in [Callers -> Calls]
      <3> HIDE NobodyElse, AllocXIDType DEF IInv, TypeOK, LockInv, QueuedInv, WriteInv, OneReader, stream
      <3>1. [call[t] EXCEPT !.at = "select", !.xid = nextID', !.worker = w] \in Calls
        BY <1>b, <2>1, CallEdits
      <3> QED  BY <1>c, <2>0, <3>1
    <2>3. /\ call'[t].at = "select" /\ call'[t].worker = w
          /\ \A u \in Callers \ {t} : call'[u] = call[u]
      <3> HIDE NobodyElse, AllocXIDType DEF IInv, TypeOK, LockInv, QueuedInv, WriteInv, OneReader, stream
      <3>1. call'[t] = [call[t] EXCEPT !.at = "select", !.xid = nextID', !.worker = w]
        BY <1>a, <2>0
      <3>2. call'[t].at = "select" /\ call'[t].worker = w
        BY <1>b, <3>1, SMTT(30) DEF Calls
      <3> QED  BY <1>a, <2>0, <3>2
    <2>4. call[t].req \in Requests
      BY <1>4 DEF Start, QueuedInv
    <2>5. [xid |-> nextID', req |-> call[t].req, kind |-> "call"] \in Messages
      BY <2>1, <2>4, SMTT(30) DEF Messages
    <2>6. \A v \in Workers :
             IF v = w THEN io'[v].at = "write" /\ io'[v].msg \in Messages ELSE io'[v] = io[v]
      BY <1>4, <2>5 DEF Start
    <2>7. io' \in [Workers -> IOs]
      BY <1>4, <2>5 DEF Start, IOs
    <2>8. mu = Nobody /\ UNCHANGED <<conn, toServer, toClient, result, faults>>
      BY <1>4 DEF Start
    <2>9. TypeOK' /\ LockInv' /\ QueuedInv'
      BY <2>1, <2>2, <2>3, <2>7, <2>8, SMTT(30)
    <2> QED  BY <2>1, <2>3, <2>6, <2>8, <2>9
  <1>5. CASE EncodeFails(t)
    <2>1. faults' \in 0 .. MaxFaults
      BY SMTT(30), <1>5, MaxFaultsNat DEF EncodeFails
    <2> QED  BY <1>0, <1>5, <2>1 DEF EncodeFails, NoCall, Calls
  <1>6. CASE SelectContext(t)
    <2>1. toServer' \in Seq(Messages) /\ toClient' \in Seq(Messages)
      BY SMTT(30), <1>6 DEF SelectContext, CloseConn
    <2>2. io' \in [Workers -> IOs]
      BY <1>6 DEF SelectContext, Resting, IOs
    <2>3. conn' = "closed"
      BY <1>6 DEF SelectContext, CloseConn
    <2>4. call' \in [Callers -> Calls] /\ mu' = Nobody
      BY <1>0, <1>6 DEF SelectContext, Return, NoCall, Calls
    <2>5. \A u \in Callers : IF u = t THEN call'[u] = NoCall ELSE call'[u] = call[u]
      BY <1>6 DEF SelectContext, Return
    <2>6. \A v \in Workers : io'[v].at \in {"write", "read"} => io'[v] = io[v]
      BY <1>6 DEF SelectContext, Resting
    <2>7. result' \in [Callers -> Requests \cup {"cancelled", "error", Nobody}]
      BY <1>6 DEF SelectContext, Return
    <2>8. UNCHANGED <<nextID, faults>>
      BY <1>6 DEF SelectContext, Return
    <2>9. call[t].at = "select"
      BY <1>6 DEF SelectContext
    <2>10. TypeOK'
      BY <2>1, <2>2, <2>3, <2>4, <2>7, <2>8
    <2>11. LockInv' /\ QueuedInv'
      BY <2>4, <2>5, <2>9, SMTT(30) DEF NoCall
    <2> QED  BY <2>3, <2>6, <2>10, <2>11
  <1>7. CASE SelectDone(t)
    BY SMTT(30), <1>0, <1>7 DEF SelectDone, Return, decodeReply, NoCall, Resting,
                                NoMessage, IOError,
                      Messages, Calls, IOs
  <1> QED  BY <1>1, <1>2, <1>3, <1>4, <1>5, <1>6, <1>7

\* What an I/O goroutine does.
LEMMA WorkerStep ==
    ASSUME IInv, NEW w \in Workers,
           Write(w) \/ Read(w) \/ ReadOversized(w) \/ ReadTimesOut(w)
    PROVE  IInv'
  <1>1. CASE Write(w)
    <2>1. CASE conn = "open" /\ io[w].msg \in Messages
      <3>0. /\ toServer' = Append(toServer, io[w].msg)
            /\ io' = [io EXCEPT ![w] = [at |-> "read", msg |-> NoMessage]]
        BY <1>1, <2>1 DEF Write
      <3>1. toServer' \in Seq(Messages)
        BY <2>1, <3>0, StreamTypes DEF IInv, TypeOK
      <3>2. io' \in [Workers -> IOs]
        BY <3>0 DEF IInv, TypeOK, IOs
      <3>3. \A v \in Workers : IF v = w THEN io'[v].at = "read" ELSE io'[v] = io[v]
        BY <3>0 DEF IInv, TypeOK
      <3> QED
        BY <1>1, <3>1, <3>2, <3>3 DEF Write, IInv, TypeOK, LockInv, QueuedInv, WriteInv, OneReader
    <2>2. CASE conn = "closed"
      BY <1>1, <2>2, FinishTypes, SMTT(30) DEF Write, IInv, TypeOK, LockInv, QueuedInv, WriteInv, OneReader
    <2> QED  BY <1>1, <2>1, <2>2 DEF IInv, TypeOK, WriteInv, Write
  <1>2. CASE Read(w)
    <2>1. CASE conn = "closed" /\ Finish(w, IOError) /\ UNCHANGED toClient
      BY <1>2, <2>1, FinishTypes DEF Read, IInv, TypeOK, LockInv, QueuedInv, WriteInv, OneReader
    <2>2. CASE toClient # <<>> /\ Finish(w, Head(toClient)) /\ toClient' = Tail(toClient)
      <3>1. Head(toClient) \in Messages /\ toClient' \in Seq(Messages)
        BY <2>2, StreamTypes DEF IInv, TypeOK
      <3> QED  BY <1>2, <2>2, <3>1, FinishTypes DEF Read, IInv, TypeOK, LockInv, QueuedInv, WriteInv, OneReader
    <2> QED  BY <1>2, <2>1, <2>2 DEF Read
  <1>3. CASE ReadOversized(w)
    <2>1. Head(toClient) \in Messages /\ toClient[1] = Head(toClient)
      BY SMTT(30), <1>3, StreamTypes DEF ReadOversized, IInv, TypeOK
    <2>2. toClient' = [toClient EXCEPT ![1] = [toClient[1] EXCEPT !.kind = "debris"]]
      BY <1>3 DEF ReadOversized
    <2>3. [toClient[1] EXCEPT !.kind = "debris"] \in Messages
      BY <2>1, Rekinded DEF ReplyKinds
    <2>4. toClient' \in Seq(Messages)
      BY <1>3, <2>2, <2>3, StreamTypes DEF ReadOversized, IInv, TypeOK
    <2>5. faults' \in 0 .. MaxFaults
      BY SMTT(30), <1>3, MaxFaultsNat DEF ReadOversized, IInv, TypeOK
    <2> QED  BY <1>3, <2>4, <2>5, FinishTypes DEF ReadOversized, IInv, TypeOK, LockInv, QueuedInv, WriteInv, OneReader
  <1>4. CASE ReadTimesOut(w)
    <2>1. faults' \in 0 .. MaxFaults
      BY SMTT(30), <1>4, MaxFaultsNat DEF ReadTimesOut, IInv, TypeOK
    <2> QED
      BY <1>4, <2>1, FinishTypes DEF ReadTimesOut, stream, IInv, TypeOK, LockInv, QueuedInv, WriteInv, OneReader
  <1> QED  BY <1>1, <1>2, <1>3, <1>4

\* Every step of the client, the server and the connection.
LEMMA StepIInv == IInv /\ [Next]_vars => IInv'
  <1> SUFFICES ASSUME IInv, [Next]_vars
               PROVE  IInv'
    OBVIOUS
  <1>1. CASE Close
    BY SMTT(30), <1>1 DEF Close, CloseConn, IInv, TypeOK, LockInv, QueuedInv, WriteInv,
                          OneReader
  <1>2. ASSUME NEW kind \in ReplyKinds, Respond(kind) PROVE IInv'
    <2>1. Head(toServer) \in Messages /\ toServer' \in Seq(Messages)
      BY <1>2, StreamTypes DEF Respond, IInv, TypeOK
    <2>2. toClient' \in Seq(Messages)
      BY <1>2, <2>1, Rekinded, StreamTypes DEF Respond, IInv, TypeOK
    <2> QED  BY <1>2, <2>1, <2>2 DEF Respond, IInv, TypeOK, LockInv, QueuedInv, WriteInv, OneReader
  <1>3. CASE UNCHANGED vars
    BY <1>3 DEF vars, IInv, TypeOK, LockInv, QueuedInv, WriteInv, OneReader
  <1> QED  BY <1>1, <1>2, <1>3, CallerStep, WorkerStep DEF Next

(***************************************************************************)
(* On an open connection only the goroutine of the Call that holds the     *)
(* mutex does I/O, whatever was cancelled before: closing the connection   *)
(* in Call's ctx.Done() case is what keeps a goroutine left behind from    *)
(* reading a later reply.                                                  *)
(***************************************************************************)
THEOREM OneReaderThm == Spec => []OneReader
  <1>1. IInv => OneReader
    BY DEF IInv
  <1> QED  BY <1>1, InitIInv, StepIInv, PTL DEF Spec

\* The state keeps its types; in particular the transaction id its width.
THEOREM TypeOKThm == Spec => []TypeOK
  <1>1. IInv => TypeOK
    BY DEF IInv
  <1> QED  BY <1>1, InitIInv, StepIInv, PTL DEF Spec
-----------------------------------------------------------------------------
(* OwnReply: the transaction ids in transit do not come round again.       *)

\* The records in transit, the one that is read next first.
Total == Len(toClient) + Len(toServer)
Flight(k) == IF k <= Len(toClient) THEN toClient[k] ELSE toServer[k - Len(toClient)]

\* How many ids allocXID gave out after x, the newest being n; it skips 0.
Age(n, x) == IF x <= n THEN n - x ELSE n - x + XidMod - 1

Busy == conn = "open" /\ \E w \in Workers : io[w].at \in {"write", "read"}

\* A closed connection carries nothing.
ClosedInv == conn = "closed" => toClient = <<>> /\ toServer = <<>>

\* A record in transit is the older the nearer it is to being read, but each place
\* and each id without a record was paid for with a fault.
AgeInv ==
    \A k \in 1 .. Total :
        /\ Flight(k).xid \in 1 .. XidMod - 1
        /\ Age(nextID, Flight(k).xid) + k <= faults + (IF Busy THEN 1 ELSE 0)

\* What has the newest id, in transit, to be written or read, is of the Call that
\* holds the mutex.
MineInv ==
    mu # Nobody =>
        /\ nextID # 0 /\ call[mu].xid = nextID
        /\ \A k \in 1 .. Total : Flight(k).xid = nextID => Flight(k).req = call[mu].req
        /\ \A w \in Workers : call[mu].worker = w =>
              /\ io[w].at = "write" =>
                    /\ io[w].msg.xid = nextID /\ io[w].msg.req = call[mu].req
                    /\ \A k \in 1 .. Total : Flight(k).xid # nextID
              /\ io[w].at = "done" /\ io[w].msg.kind = "ok" /\ io[w].msg.xid = nextID
                    => io[w].msg.req = call[mu].req

\* A Call that has not returned has no result.
PendingInv == \A t \in Callers : call[t].at # "idle" => result[t] = Nobody

XInv == ClosedInv /\ AgeInv /\ MineInv /\ PendingInv

\* An id that is not too old gets older by one with each that allocXID gives out,
\* and is not given out again.
LEMMA AgeGrows ==
    ASSUME NEW n \in Xids, nextID = n, NEW x \in 1 .. XidMod - 1
    PROVE  /\ AllocXID \in 1 .. XidMod - 1
           /\ Age(n, x) \in Nat /\ Age(x, x) = 0 /\ (n # 0 /\ x # n => Age(n, x) > 0)
           /\ Age(n, x) <= MaxFaults => AllocXID # x /\ Age(AllocXID, x) = Age(n, x) + 1
  <1>1. XidMod \in Nat /\ XidMod > MaxFaults + 2 /\ MaxFaults \in Nat /\ n \in 0 .. XidMod - 1
    BY XidModNat, MaxFaultsNat DEF Xids
  <1>2. AllocXID = IF n + 1 = XidMod THEN 1 ELSE n + 1
    <2>1. CASE n + 1 = XidMod
      <3>1. (n + 1) % XidMod = 0
        BY SMTT(30), <1>1, <2>1
      <3> QED  BY <2>1, <3>1 DEF AllocXID
    <2>2. CASE n + 1 < XidMod
      <3>1. (n + 1) % XidMod = n + 1
        BY SMTT(30), <1>1, <2>2
      <3> QED  BY SMTT(30), <1>1, <2>2, <3>1 DEF AllocXID
    <2> QED  BY SMTT(30), <1>1, <2>1, <2>2
  <1> QED  BY SMTT(30), <1>1, <1>2 DEF Age

\* Lengths and places in the streams are numbers.
LEMMA FlightTypes ==
    ASSUME TypeOK
    PROVE  /\ Len(toClient) \in Nat /\ Len(toServer) \in Nat /\ Total \in Nat
           /\ \A k \in 1 .. Total : Flight(k) \in Messages
           /\ nextID \in Xids /\ faults \in Nat
  <1>1. Len(toClient) \in Nat /\ Len(toServer) \in Nat /\ Total \in Nat
    BY SMTT(30) DEF TypeOK, Total
  <1>2. ASSUME NEW k \in 1 .. Total PROVE Flight(k) \in Messages
    BY SMTT(30), <1>1, <1>2 DEF TypeOK, Total, Flight
  <1> QED  BY SMTT(30), <1>1, <1>2, MaxFaultsNat DEF TypeOK

\* The streams carry the same ids and requests in the same places.
SameFlight ==
    /\ Total' = Total
    /\ \A k \in 1 .. Total : Flight(k)'.xid = Flight(k).xid /\ Flight(k)'.req = Flight(k).req

\* Nothing is sent or read.
LEMMA StillFlight ==
    ASSUME UNCHANGED <<toServer, toClient>>
    PROVE  SameFlight
  BY DEF SameFlight, Total, Flight

\* The server's answer takes the place of the request.
LEMMA RespondFlight ==
    ASSUME TypeOK, NEW kind \in ReplyKinds, Respond(kind)
    PROVE  SameFlight
  <1>1. /\ toServer # <<>> /\ toServer' = Tail(toServer)
        /\ toClient' = Append(toClient, [Head(toServer) EXCEPT !.kind = kind])
        /\ toServer \in Seq(Messages) /\ toClient \in Seq(Messages)
    BY DEF Respond, TypeOK
  <1> DEFINE m == [Head(toServer) EXCEPT !.kind = kind]
  <1>2. Head(toServer) = toServer[1] /\ Head(toServer) \in Messages
    BY SMTT(30), <1>1, StreamTypes
  <1>3. m.xid = toServer[1].xid /\ m.req = toServer[1].req
    BY <1>2 DEF Messages
  <1>4. /\ Len(toServer') = Len(toServer) - 1 /\ Len(toClient') = Len(toClient) + 1
        /\ Len(toServer) \in Nat /\ Len(toServer) > 0 /\ Len(toClient) \in Nat
        /\ \A k \in 1 .. Len(toServer) - 1 : toServer'[k] = toServer[k + 1]
        /\ \A k \in 1 .. Len(toClient) : toClient'[k] = toClient[k]
        /\ toClient'[Len(toClient) + 1] = m
    BY SMTT(30), <1>1
  <1>5. Total' = Total
    BY SMTT(30), <1>4 DEF Total
  <1>6. ASSUME NEW k \in 1 .. Total
        PROVE  Flight(k)'.xid = Flight(k).xid /\ Flight(k)'.req = Flight(k).req
    <2>1. CASE k <= Len(toClient)
      BY SMTT(30), <1>4, <2>1 DEF Flight
    <2>2. CASE k = Len(toClient) + 1
      <3>1. Flight(k)' = m
        BY SMTT(30), <1>4, <2>2 DEF Flight
      <3>2. Flight(k) = toServer[1]
        BY SMTT(30), <1>4, <2>2 DEF Flight
      <3> QED  BY <1>3, <3>1, <3>2
    <2>3. CASE k > Len(toClient) + 1
      <3>1. /\ k - Len(toClient) - 1 \in 1 .. Len(toServer) - 1
            /\ k - Len(toClient) - 1 + 1 = k - Len(toClient)
            /\ k - (Len(toClient) + 1) = k - Len(toClient) - 1
            /\ ~(k <= Len(toClient)) /\ ~(k <= Len(toClient) + 1)
        BY SMTT(30), <1>4, <1>6, <2>3 DEF Total
      <3> QED  BY SMTT(30), <1>4, <3>1 DEF Flight
    <2> QED  BY SMTT(30), <1>4, <1>6, <2>1, <2>2, <2>3 DEF Total
  <1> QED  BY <1>5, <1>6 DEF SameFlight

(***************************************************************************)
(* A step that leaves the goroutines and what is in transit as they are    *)
(* keeps the ages and what belongs to the Call that holds the mutex.       *)
(***************************************************************************)
LEMMA StillX ==
    ASSUME TypeOK, XInv, SameFlight, UNCHANGED <<nextID, mu, conn, io, faults>>,
           mu # Nobody => /\ call'[mu].xid = call[mu].xid /\ call'[mu].req = call[mu].req
                          /\ call'[mu].worker = call[mu].worker
    PROVE  AgeInv' /\ MineInv'
  <1>1. Busy' <=> Busy
    BY DEF Busy
  <1>2. AgeInv'
    BY <1>1 DEF XInv, AgeInv, SameFlight
  <1>3. MineInv'
    BY DEF XInv, MineInv, SameFlight
  <1> QED  BY <1>2, <1>3

\* Call, its early return and the end of its context send and read nothing.
LEMMA QuietX ==
    ASSUME IInv, XInv, NEW t \in Callers,
           (\E r \in Requests : Call(t, r)) \/ CallDone(t) \/ ContextEnds(t)
    PROVE  XInv'
  <1>0. /\ call \in [Callers -> Calls] /\ result \in [Callers -> Requests \cup {"cancelled", "error", Nobody}]
        /\ mu \in Callers \cup {Nobody} /\ TypeOK /\ ClosedInv /\ PendingInv
        /\ \A u \in Callers : call[u].at = "select" <=> mu = u
    <2>1. TypeOK /\ LockInv /\ ClosedInv /\ PendingInv
      BY DEF IInv, XInv
    <2> QED  BY <2>1 DEF TypeOK, LockInv
  <1>1. UNCHANGED <<toServer, toClient>> /\ UNCHANGED <<nextID, mu, conn, io, faults>>
    BY DEF Call, CallDone, ContextEnds, stream
  <1>2. mu # Nobody => /\ call'[mu].xid = call[mu].xid /\ call'[mu].req = call[mu].req
                       /\ call'[mu].worker = call[mu].worker
    <2>1. ASSUME NEW r \in Requests, Call(t, r)
          PROVE  mu # t /\ \A u \in Callers \ {t} : call'[u] = call[u]
      BY <1>0, <2>1 DEF Call
    <2>2. CASE ContextEnds(t)
      <3>1. call' = [call EXCEPT ![t] = [call[t] EXCEPT !.done = TRUE]]
        BY <2>2 DEF ContextEnds
      <3> QED  BY <1>0, <3>1 DEF Calls
    <2> QED  BY <1>0, <2>1, <2>2 DEF CallDone
  <1>3. PendingInv'
    <2>1. ASSUME NEW r \in Requests, Call(t, r) PROVE PendingInv'
      BY <1>0, <2>1 DEF Call, PendingInv
    <2>2. CASE ContextEnds(t)
      <3>1. call' = [call EXCEPT ![t] = [call[t] EXCEPT !.done = TRUE]] /\ result' = result
        BY <2>2 DEF ContextEnds
      <3>2. \A u \in Callers : call'[u].at = call[u].at
        BY <1>0, <3>1 DEF Calls
      <3> QED  BY <1>0, <3>1, <3>2 DEF PendingInv
    <2>3. CASE CallDone(t)
      BY <1>0, <2>3 DEF CallDone, PendingInv
    <2> QED  BY <2>1, <2>2, <2>3
  <1>4. ClosedInv'
    BY <1>0, <1>1 DEF ClosedInv
  <1> QED  BY <1>0, <1>1, <1>2, <1>3, <1>4, StillFlight, StillX DEF XInv

\* Nobody holds the mutex, so no goroutine does I/O on an open connection; then an
\* id given out makes the records in transit older by one.
LEMMA AllocX ==
    ASSUME IInv, XInv, mu = Nobody, nextID' = AllocXID, UNCHANGED <<toServer, toClient>>
    PROVE  /\ nextID' \in 1 .. XidMod - 1
           /\ Total' = Total
           /\ \A k \in 1 .. Total :
                 /\ Flight(k)' = Flight(k)
                 /\ Flight(k).xid \in 1 .. XidMod - 1
                 /\ Flight(k).xid # nextID'
                 /\ Age(nextID', Flight(k).xid) + k <= faults + 1
  <1>1. ~Busy
    BY DEF IInv, OneReader, Busy
  <1>2. /\ Total \in Nat /\ nextID \in Xids /\ faults \in 0 .. MaxFaults
        /\ MaxFaults \in Nat /\ XidMod \in Nat /\ XidMod > 2
    BY SMTT(30), FlightTypes, MaxFaultsNat, XidModNat DEF IInv, TypeOK
  <1>3. Total' = Total /\ \A k \in 1 .. Total : Flight(k)' = Flight(k)
    BY DEF Total, Flight
  <1>4. ASSUME NEW k \in 1 .. Total
        PROVE  /\ Flight(k).xid \in 1 .. XidMod - 1
               /\ Flight(k).xid # nextID'
               /\ Age(nextID', Flight(k).xid) + k <= faults + 1
    <2> DEFINE x == Flight(k).xid
    <2>1. x \in 1 .. XidMod - 1 /\ Age(nextID, x) + k <= faults
      BY SMTT(30), <1>1, <1>2 DEF XInv, AgeInv
    <2>2. Age(nextID, x) \in Nat /\ (Age(nextID, x) <= MaxFaults =>
             AllocXID # x /\ Age(AllocXID, x) = Age(nextID, x) + 1)
      BY <1>2, <2>1, AgeGrows
    <2> HIDE DEF x
    <2>3. Age(nextID, x) <= MaxFaults
      BY SMTT(30), <1>2, <2>1, <2>2
    <2> QED  BY SMTT(30), <1>2, <2>1, <2>2, <2>3 DEF x
  <1>5. nextID' \in 1 .. XidMod - 1
    <2>1. 1 \in 1 .. XidMod - 1
      BY SMTT(30), <1>2
    <2> QED  BY <1>2, <2>1, AgeGrows
  <1> QED  BY <1>3, <1>4, <1>5

\* The locked part of Call takes an id that nothing in transit has.
LEMMA StartX ==
    ASSUME IInv, XInv, NEW t \in Callers, NEW w \in Workers, Start(t, w)
    PROVE  XInv'
  <1>0. /\ call \in [Callers -> Calls] /\ io \in [Workers -> IOs] /\ ClosedInv /\ PendingInv
        /\ conn \in {"open", "closed"} /\ t # Nobody /\ Total \in Nat /\ faults \in Nat
    BY NobodyElse, FlightTypes DEF IInv, TypeOK, XInv
  <1>1. /\ call[t].at = "queued" /\ mu = Nobody /\ mu' = t /\ nextID' = AllocXID
        /\ call' = [call EXCEPT ![t] = [call[t] EXCEPT !.at = "select", !.xid = nextID', !.worker = w]]
        /\ io' = [io EXCEPT ![w] = [at  |-> "write",
                                    msg |-> [xid |-> nextID', req |-> call[t].req, kind |-> "call"]]]
        /\ UNCHANGED <<conn, toServer, toClient, result, faults>>
    BY DEF Start, stream
  <1>2. /\ nextID' \in 1 .. XidMod - 1 /\ Total' = Total
        /\ \A k \in 1 .. Total :
              /\ Flight(k)' = Flight(k)
              /\ Flight(k).xid \in 1 .. XidMod - 1
              /\ Flight(k).xid # nextID'
              /\ Age(nextID', Flight(k).xid) + k <= faults + 1
    BY <1>1, AllocX
  <1>3. /\ call'[t].at = "select" /\ call'[t].xid = nextID' /\ call'[t].worker = w
        /\ call'[t].req = call[t].req
        /\ \A u \in Callers \ {t} : call'[u] = call[u]
    BY <1>0, <1>1 DEF Calls
  <1>4. io'[w].at = "write" /\ io'[w].msg.xid = nextID' /\ io'[w].msg.req = call[t].req
    BY <1>0, <1>1
  <1>5. ClosedInv'
    BY <1>0, <1>1 DEF ClosedInv
  <1>6. AgeInv'
    <2>1. conn = "open" => Busy'
      BY <1>1, <1>4 DEF Busy
    <2>2. conn # "open" => Total = 0
      BY SMTT(30), <1>0 DEF ClosedInv, Total
    <2>3. \A k \in 1 .. Total : Busy'
      BY SMTT(30), <2>1, <2>2
    <2> QED  BY <1>1, <1>2, <2>3 DEF AgeInv
  <1>7. MineInv'
    BY SMTT(30), <1>0, <1>1, <1>2, <1>3, <1>4 DEF MineInv
  <1>8. PendingInv'
    BY <1>0, <1>1, <1>3 DEF PendingInv
  <1> QED  BY <1>5, <1>6, <1>7, <1>8 DEF XInv

\* A failed encoding uses up an id, and is a fault.
LEMMA EncodeFailsX ==
    ASSUME IInv, XInv, NEW t \in Callers, EncodeFails(t)
    PROVE  XInv'
  <1>0. /\ call \in [Callers -> Calls] /\ result \in [Callers -> Requests \cup {"cancelled", "error", Nobody}]
        /\ ClosedInv /\ PendingInv /\ faults \in Nat
    BY FlightTypes DEF IInv, TypeOK, XInv
  <1>1. /\ mu = Nobody /\ mu' = mu /\ nextID' = AllocXID /\ faults' = faults + 1
        /\ call' = [call EXCEPT ![t] = NoCall] /\ result' = [result EXCEPT ![t] = "error"]
        /\ UNCHANGED <<conn, toServer, toClient, io>>
    BY DEF EncodeFails, stream
  <1>2. /\ Total' = Total
        /\ \A k \in 1 .. Total :
              /\ Flight(k)' = Flight(k)
              /\ Flight(k).xid \in 1 .. XidMod - 1
              /\ Age(nextID', Flight(k).xid) + k <= faults + 1
    BY <1>1, AllocX
  <1>3. AgeInv'
    <2>1. ~Busy'
      BY <1>1 DEF IInv, OneReader, Busy
    <2> QED  BY SMTT(30), <1>0, <1>1, <1>2, <2>1 DEF AgeInv
  <1>4. ClosedInv' /\ MineInv'
    BY <1>0, <1>1 DEF ClosedInv, MineInv
  <1>5. PendingInv'
    BY <1>0, <1>1 DEF PendingInv, NoCall
  <1> QED  BY <1>3, <1>4, <1>5 DEF XInv

\* When t's Call returns, the callers that still wait have no result.
LEMMA ReturnPending ==
    ASSUME TypeOK, PendingInv, NEW t \in Callers, NEW res, Return(t, res)
    PROVE  PendingInv'
  BY DEF TypeOK, PendingInv, Return, NoCall

\* A closed connection has no records, and no goroutine that counts.
LEMMA ClosedX ==
    ASSUME CloseConn
    PROVE  ClosedInv' /\ AgeInv' /\ Total' = 0
  BY SMTT(30) DEF CloseConn, ClosedInv, AgeInv, Total

\* The select of Call: the context closes the connection; a result frees the goroutine.
LEMMA SelectX ==
    ASSUME IInv, XInv, NEW t \in Callers, SelectContext(t) \/ SelectDone(t)
    PROVE  XInv'
  <1>0. TypeOK /\ ClosedInv /\ AgeInv /\ PendingInv
    BY DEF IInv, XInv
  <1>1. mu' = Nobody /\ MineInv' /\ UNCHANGED <<nextID, faults>>
    BY DEF SelectContext, SelectDone, Return, MineInv
  <1>2. PendingInv'
    BY <1>0, ReturnPending DEF SelectContext, SelectDone
  <1>3. CASE SelectContext(t)
    BY <1>1, <1>2, <1>3, ClosedX DEF SelectContext, XInv
  <1>4. CASE SelectDone(t)
    <2>1. UNCHANGED <<conn, toServer, toClient>>
      BY <1>4 DEF SelectDone, stream
    <2>2. call[t].at = "select"
      BY <1>4 DEF SelectDone
    <2>3. call[t].worker \in Workers
      BY <1>0, <2>2 DEF IInv, LockInv, TypeOK, Calls
    <2>4. Busy' <=> Busy
      <3>1. io[call[t].worker].at = "done" /\ io' = [io EXCEPT ![call[t].worker] = Resting]
        BY <1>4 DEF SelectDone
      <3>2. io \in [Workers -> IOs]
        BY <1>0 DEF TypeOK
      <3>3. \A w \in Workers : io'[w].at \in {"write", "read"} <=> io[w].at \in {"write", "read"}
        BY <2>3, <3>1, <3>2 DEF Resting
      <3> QED  BY <2>1, <3>3 DEF Busy
    <2>5. SameFlight
      BY <2>1, StillFlight
    <2>6. AgeInv'
      BY <1>0, <1>1, <2>4, <2>5 DEF AgeInv, SameFlight
    <2> QED  BY <1>0, <1>1, <1>2, <2>1, <2>6 DEF XInv, ClosedInv
  <1> QED  BY <1>3, <1>4
-----------------------------------------------------------------------------
\* The goroutine that does I/O on an open connection works for the holder of the
\* mutex, and when it ends no other does I/O.
LEMMA WorkerIsMine ==
    ASSUME IInv, NEW w \in Workers, io[w].at \in {"write", "read"}, conn = "open"
    PROVE  /\ mu \in Callers /\ call[mu].worker = w /\ Busy
           /\ \A v \in Workers : call[mu].worker = v => v = w
           /\ \A res \in Messages \cup {IOError, NoMessage} : Finish(w, res) => ~Busy'
  <1>1. mu # Nobody /\ call[mu].worker = w
    BY DEF IInv, OneReader
  <1>2. mu \in Callers
    BY <1>1 DEF IInv, TypeOK
  <1>3. ASSUME NEW res \in Messages \cup {IOError, NoMessage}, Finish(w, res)
        PROVE  ~Busy'
    <2>1. \A v \in Workers : io'[v].at \in {"write", "read"} => v # w /\ io'[v] = io[v]
      BY <1>3, FinishTypes
    <2>2. \A v \in Workers : io[v].at \in {"write", "read"} => v = w
      BY <1>1 DEF IInv, OneReader
    <2>3. \A v \in Workers : io'[v].at \notin {"write", "read"}
      BY <2>1, <2>2
    <2> QED  BY <2>3 DEF Busy
  <1> QED  BY <1>1, <1>2, <1>3 DEF Busy

\* What a goroutine has in done after it ended is what it read.
LEMMA FinishMsg ==
    ASSUME IInv, NEW w \in Workers, NEW res, Finish(w, res)
    PROVE  /\ io'[w].at \in {"free", "done"} /\ (io'[w].at = "done" => io'[w].msg = res)
           /\ \A v \in Workers \ {w} : io'[v] = io[v]
  BY DEF IInv, TypeOK, Finish, Resting

\* A goroutine that ends with an error on a closed connection.
LEMMA ClosedEndX ==
    ASSUME IInv, XInv, NEW w \in Workers, io[w].at \in {"write", "read"}, conn = "closed",
           Finish(w, IOError), UNCHANGED <<nextID, mu, conn, toServer, toClient, call, result, faults>>
    PROVE  XInv'
  <1>1. /\ ClosedInv /\ MineInv /\ PendingInv /\ mu \in Callers \cup {Nobody}
        /\ toClient = <<>> /\ toServer = <<>>
    BY DEF XInv, ClosedInv, IInv, TypeOK
  <1>2. Total' = 0
    BY SMTT(30), <1>1 DEF Total
  <1>3. /\ io'[w].at \in {"free", "done"} /\ (io'[w].at = "done" => io'[w].msg = IOError)
        /\ \A v \in Workers \ {w} : io'[v] = io[v]
    BY FinishMsg
  <1>4. MineInv'
    <2>1. io'[w].at = "done" => io'[w].msg.kind # "ok"
      BY SMTT(30), <1>3 DEF IOError
    <2> QED  BY SMTT(30), <1>1, <1>2, <1>3, <2>1 DEF MineInv
  <1> QED  BY SMTT(30), <1>1, <1>2, <1>4 DEF XInv, ClosedInv, AgeInv, PendingInv

\* Writing the request puts the newest id at the end of what is in transit.
LEMMA WriteX ==
    ASSUME IInv, XInv, NEW w \in Workers, Write(w)
    PROVE  XInv'
  <1>0. /\ toServer \in Seq(Messages) /\ toClient \in Seq(Messages) /\ io \in [Workers -> IOs]
        /\ nextID \in Xids /\ conn \in {"open", "closed"} /\ io[w].at = "write"
        /\ Total \in Nat /\ faults \in Nat /\ Len(toServer) \in Nat /\ Len(toClient) \in Nat
        /\ Total = Len(toClient) + Len(toServer)
        /\ AgeInv /\ MineInv /\ PendingInv
    BY FlightTypes DEF IInv, TypeOK, XInv, Write, Total
  <1>1. CASE conn = "closed"
    BY <1>0, <1>1, ClosedEndX DEF Write
  <1>2. CASE conn = "open"
    <2>1. /\ toServer' = Append(toServer, io[w].msg)
          /\ io' = [io EXCEPT ![w] = [at |-> "read", msg |-> NoMessage]]
          /\ UNCHANGED <<nextID, mu, conn, toClient, call, result, faults>>
      BY <1>2 DEF Write
    <2>2. mu \in Callers /\ mu # Nobody /\ call[mu].worker = w /\ Busy
      BY <1>0, <1>2, NobodyElse, WorkerIsMine
    <2>3. /\ nextID # 0 /\ io[w].msg.xid = nextID /\ io[w].msg.req = call[mu].req
          /\ \A k \in 1 .. Total : Flight(k).xid # nextID
      BY <1>0, <2>2 DEF MineInv
    <2>4. /\ Total' = Total + 1
          /\ \A k \in 1 .. Total + 1 :
                Flight(k)' = IF k = Total + 1 THEN io[w].msg ELSE Flight(k)
      <3>1. /\ Len(toServer') = Len(toServer) + 1 /\ Len(toClient') = Len(toClient)
            /\ toServer'[Len(toServer) + 1] = io[w].msg
            /\ \A k \in 1 .. Len(toServer) : toServer'[k] = toServer[k]
        BY SMTT(30), <1>0, <2>1
      <3>2. ASSUME NEW k \in 1 .. Total + 1
            PROVE  Flight(k)' = IF k = Total + 1 THEN io[w].msg ELSE Flight(k)
        <4>1. CASE k <= Len(toClient)
          BY SMTT(30), <1>0, <2>1, <3>1, <4>1 DEF Flight
        <4>2. CASE k > Len(toClient) /\ k <= Total
          <5>1. k - Len(toClient) \in 1 .. Len(toServer) /\ ~(k <= Len(toClient))
            BY SMTT(30), <1>0, <3>2, <4>2
          <5> QED  BY SMTT(30), <1>0, <2>1, <3>1, <4>2, <5>1 DEF Flight
        <4>3. CASE k = Total + 1
          <5>1. k - Len(toClient) = Len(toServer) + 1 /\ ~(k <= Len(toClient))
            BY SMTT(30), <1>0, <4>3
          <5> QED  BY <1>0, <2>1, <3>1, <4>3, <5>1 DEF Flight
        <4> QED  BY SMTT(30), <1>0, <3>2, <4>1, <4>2, <4>3
      <3> QED  BY SMTT(30), <1>0, <3>1, <3>2 DEF Total
    <2>5. nextID \in 1 .. XidMod - 1 /\ Age(nextID, nextID) = 0
      <3>1. nextID \in 1 .. XidMod - 1
        BY SMTT(30), <1>0, <2>3, XidModNat, MaxFaultsNat DEF Xids
      <3> QED  BY <1>0, <3>1, AgeGrows
    <2>6. Total <= faults
      <3>1. CASE Total > 0
        <4>1. /\ Total \in 1 .. Total /\ Flight(Total).xid \in 1 .. XidMod - 1
              /\ Flight(Total).xid # nextID
              /\ Age(nextID, Flight(Total).xid) + Total <= faults + 1
          BY SMTT(30), <1>0, <2>2, <2>3, <3>1 DEF AgeInv
        <4>2. Age(nextID, Flight(Total).xid) \in Nat /\ Age(nextID, Flight(Total).xid) > 0
          BY <1>0, <2>3, <4>1, AgeGrows
        <4> QED  BY SMTT(30), <1>0, <4>1, <4>2
      <3> QED  BY SMTT(30), <1>0, <3>1
    <2>7. io'[w].at = "read" /\ Busy'
      BY <1>0, <1>2, <2>1 DEF Busy
    <2>8. AgeInv'
      <3>1. ASSUME NEW k \in 1 .. Total + 1
            PROVE  /\ Flight(k)'.xid \in 1 .. XidMod - 1
                   /\ Age(nextID, Flight(k)'.xid) + k <= faults + 1
        <4>1. CASE k = Total + 1
          <5>1. Flight(k)' = io[w].msg
            BY <2>4, <4>1
          <5>2. Flight(k)'.xid = nextID
            BY <2>3, <5>1
          <5>3. 0 + k <= faults + 1
            BY SMTT(30), <1>0, <2>6, <4>1
          <5> QED  BY <2>5, <5>2, <5>3
        <4>2. CASE k # Total + 1
          <5>1. k \in 1 .. Total
            BY SMTT(30), <1>0, <4>2
          <5>2. Flight(k)' = Flight(k)
            BY <2>4, <4>2
          <5>3. Flight(k).xid \in 1 .. XidMod - 1 /\ Age(nextID, Flight(k).xid) + k <= faults + 1
            BY SMTT(30), <1>0, <2>2, <5>1 DEF AgeInv
          <5> QED  BY <5>2, <5>3
        <4> QED  BY <4>1, <4>2
      <3> QED  BY <2>1, <2>4, <2>7, <3>1 DEF AgeInv
    <2>9. MineInv'
      <3>1. \A k \in 1 .. Total + 1 : Flight(k)'.xid = nextID => Flight(k)'.req = call[mu].req
        BY SMTT(30), <1>0, <2>3, <2>4
      <3> QED  BY <1>0, <2>1, <2>2, <2>3, <2>4, <2>7, <3>1 DEF MineInv
    <2> QED  BY <1>0, <1>2, <2>1, <2>8, <2>9 DEF XInv, ClosedInv, PendingInv
  <1> QED  BY <1>0, <1>1, <1>2

\* A read that takes no record and fails is a fault, and leaves all in its place.
LEMMA FaultyReadX ==
    ASSUME IInv, XInv, NEW w \in Workers, io[w].at = "read", conn = "open",
           Finish(w, IOError), SameFlight, faults' = faults + 1,
           UNCHANGED <<nextID, mu, conn, call, result>>
    PROVE  XInv'
  <1>0. AgeInv /\ MineInv /\ PendingInv /\ Total \in Nat /\ faults \in Nat
    BY FlightTypes DEF XInv, IInv
  <1>1. Busy /\ ~Busy'
    BY WorkerIsMine
  <1>2. AgeInv'
    BY SMTT(30), <1>0, <1>1 DEF AgeInv, SameFlight
  <1>3. /\ io'[w].at \in {"free", "done"} /\ (io'[w].at = "done" => io'[w].msg = IOError)
        /\ \A v \in Workers \ {w} : io'[v] = io[v]
    BY FinishMsg
  <1>4. MineInv'
    <2>1. io'[w].at = "done" => io'[w].msg.kind # "ok"
      BY SMTT(30), <1>3 DEF IOError
    <2> QED  BY ZenonT(40), <1>0, <1>3, <2>1 DEF MineInv, SameFlight
  <1> QED  BY <1>0, <1>2, <1>4 DEF XInv, ClosedInv, PendingInv

\* A read takes the oldest record, with which the others move up.
LEMMA ReadX ==
    ASSUME IInv, XInv, NEW w \in Workers, Read(w)
    PROVE  XInv'
  <1>0. /\ toServer \in Seq(Messages) /\ toClient \in Seq(Messages) /\ io[w].at = "read"
        /\ conn \in {"open", "closed"}
        /\ Total \in Nat /\ faults \in Nat /\ Len(toServer) \in Nat /\ Len(toClient) \in Nat
        /\ Total = Len(toClient) + Len(toServer)
        /\ ClosedInv /\ AgeInv /\ MineInv /\ PendingInv
        /\ UNCHANGED <<nextID, mu, conn, toServer, call, result, faults>>
    BY FlightTypes DEF IInv, TypeOK, XInv, Read, Total
  <1>1. CASE conn = "closed" /\ Finish(w, IOError) /\ UNCHANGED toClient
    BY <1>0, <1>1, ClosedEndX
  <1>2. CASE toClient # <<>> /\ Finish(w, Head(toClient)) /\ toClient' = Tail(toClient)
    <2>1. conn = "open" /\ Head(toClient) \in Messages /\ Head(toClient) = toClient[1]
      BY SMTT(30), <1>0, <1>2, StreamTypes DEF ClosedInv
    <2>2. mu \in Callers /\ mu # Nobody /\ call[mu].worker = w /\ Busy /\ ~Busy'
      BY <1>0, <1>2, <2>1, NobodyElse, WorkerIsMine
    <2>3. /\ Total' = Total - 1 /\ Total > 0 /\ Flight(1) = Head(toClient)
          /\ \A k \in 1 .. Total - 1 : Flight(k)' = Flight(k + 1)
      <3>1. /\ Len(toClient') = Len(toClient) - 1 /\ Len(toClient) > 0
            /\ \A k \in 1 .. Len(toClient) - 1 : toClient'[k] = toClient[k + 1]
        BY SMTT(30), <1>0, <1>2
      <3>2. ASSUME NEW k \in 1 .. Total - 1
            PROVE  Flight(k)' = Flight(k + 1)
        <4>1. CASE k <= Len(toClient) - 1
          BY SMTT(30), <1>0, <3>1, <4>1 DEF Flight
        <4>2. CASE k > Len(toClient) - 1
          <5>1. k - (Len(toClient) - 1) = k + 1 - Len(toClient)
            BY SMTT(30), <1>0
          <5> QED  BY SMTT(30), <1>0, <3>1, <4>2, <5>1 DEF Flight
        <4> QED  BY SMTT(30), <1>0, <4>1, <4>2
      <3> QED  BY SMTT(30), <1>0, <2>1, <3>1, <3>2 DEF Total, Flight
    <2>4. AgeInv'
      <3>1. ASSUME NEW k \in 1 .. Total - 1
            PROVE  /\ Flight(k)'.xid \in 1 .. XidMod - 1
                   /\ Age(nextID, Flight(k)'.xid) + k <= faults
        <4>1. k + 1 \in 1 .. Total
          BY SMTT(30), <1>0, <3>1
        <4>2. /\ Flight(k + 1).xid \in 1 .. XidMod - 1
              /\ Age(nextID, Flight(k + 1).xid) + (k + 1) <= faults + 1
          BY <1>0, <2>2, <4>1 DEF AgeInv
        <4>3. Age(nextID, Flight(k + 1).xid) \in Nat
          BY <4>2, AgeGrows, FlightTypes DEF IInv
        <4>4. Age(nextID, Flight(k + 1).xid) + k <= faults
          BY <1>0, <4>2, <4>3, SMTT(30)
        <4> QED  BY <2>3, <4>2, <4>4
      <3> QED  BY SMTT(30), <1>0, <2>2, <2>3, <3>1 DEF AgeInv
    <2>5. MineInv'
      <3>1. /\ io'[w].at \in {"free", "done"} /\ (io'[w].at = "done" => io'[w].msg = Flight(1))
        BY <1>2, <2>3, FinishMsg
      <3>2. 1 \in 1 .. Total /\ \A k \in 1 .. Total - 1 : k + 1 \in 1 .. Total
        BY SMTT(30), <1>0, <2>3
      <3>3. \A k \in 1 .. Total - 1 : Flight(k)'.xid = nextID => Flight(k)'.req = call[mu].req
        BY <1>0, <2>2, <2>3, <3>2, SMTT(30) DEF MineInv
      <3> QED  BY <1>0, <2>2, <2>3, <3>1, <3>2, <3>3 DEF MineInv
    <2> QED  BY <1>0, <2>1, <2>4, <2>5 DEF XInv, ClosedInv, PendingInv
  <1> QED  BY <1>0, <1>1, <1>2 DEF Read

\* ReadRecord refuses a fragment, or its deadline passes.
LEMMA NoReadX ==
    ASSUME IInv, XInv, NEW w \in Workers, ReadOversized(w) \/ ReadTimesOut(w)
    PROVE  XInv'
  <1>1. CASE ReadTimesOut(w)
    BY <1>1, StillFlight, FaultyReadX DEF ReadTimesOut, stream
  <1>2. CASE ReadOversized(w)
    <2>1. /\ io[w].at = "read" /\ Finish(w, IOError) /\ faults' = faults + 1
          /\ toClient # <<>> /\ toClient' = [toClient EXCEPT ![1] = [toClient[1] EXCEPT !.kind = "debris"]]
          /\ UNCHANGED <<nextID, mu, conn, toServer, call, result>>
      BY <1>2 DEF ReadOversized
    <2>2. toClient \in Seq(Messages) /\ conn = "open"
      BY <2>1 DEF IInv, TypeOK, XInv, ClosedInv
    <2>3. /\ Len(toClient') = Len(toClient) /\ Len(toClient) \in Nat
          /\ \A k \in 1 .. Len(toClient) : /\ toClient'[k].xid = toClient[k].xid
                                           /\ toClient'[k].req = toClient[k].req
      BY SMTT(30), <2>1, <2>2 DEF Messages
    <2>4. SameFlight
      <3>1. Len(toServer) \in Nat
        BY FlightTypes DEF IInv
      <3> QED  BY SMTT(30), <2>1, <2>3, <3>1 DEF SameFlight, Total, Flight
    <2> QED  BY <2>1, <2>2, <2>4, FaultyReadX
  <1> QED  BY <1>1, <1>2
-----------------------------------------------------------------------------
\* NewClient: nothing is in transit.
LEMMA InitX == Init => XInv
  BY SMTT(30) DEF Init, XInv, ClosedInv, AgeInv, MineInv, PendingInv, Total, NoCall

\* Every step keeps what is in transit apart from the newest id.
LEMMA StepX == IInv /\ XInv /\ [Next]_vars => XInv'
  <1> SUFFICES ASSUME IInv, XInv, [Next]_vars
               PROVE  XInv'
    OBVIOUS
  <1>0. TypeOK /\ ClosedInv /\ MineInv /\ PendingInv
    BY DEF IInv, XInv
  <1>1. CASE Close
    <2>1. CloseConn /\ UNCHANGED <<nextID, mu, call, io, result, faults>>
      BY <1>1 DEF Close
    <2>2. ClosedInv' /\ AgeInv' /\ Total' = 0
      BY <2>1, ClosedX
    <2>3. MineInv'
      BY SMTT(30), <1>0, <2>1, <2>2 DEF MineInv
    <2> QED  BY <1>0, <2>1, <2>2, <2>3 DEF XInv, PendingInv
  <1>2. ASSUME NEW kind \in ReplyKinds, Respond(kind) PROVE XInv'
    <2>1. SameFlight
      BY <1>0, <1>2, RespondFlight
    <2>2. toServer # <<>> /\ UNCHANGED <<nextID, mu, conn, call, io, result, faults>>
      BY <1>2 DEF Respond
    <2>3. AgeInv' /\ MineInv'
      BY <1>0, <2>1, <2>2, StillX
    <2> QED  BY <1>0, <2>2, <2>3 DEF XInv, ClosedInv, PendingInv
  <1>3. CASE UNCHANGED vars
    <2>1. UNCHANGED <<nextID, mu, conn, toServer, toClient, call, io, result, faults>>
      BY <1>3 DEF vars
    <2>2. AgeInv' /\ MineInv'
      BY <1>0, <2>1, StillFlight, StillX
    <2> QED  BY <1>0, <2>1, <2>2 DEF XInv, ClosedInv, PendingInv
  <1> QED  BY <1>1, <1>2, <1>3, QuietX, StartX, EncodeFailsX, SelectX, WriteX, ReadX, NoReadX DEF Next

(***************************************************************************)
(* A Call that succeeds decoded the reply to its own request, however many *)
(* replies that earlier calls gave up on are still in the stream, as long  *)
(* as they are fewer than the transaction ids: decodeReply's comparison of *)
(* the ids tells them apart.                                               *)
(***************************************************************************)
THEOREM OwnReplyThm == Spec => OwnReply
  <1>1. ASSUME IInv, XInv, [Next]_vars, NEW t \in Callers,
               call[t].at = "select", result'[t] \in Requests
        PROVE  result'[t] = call[t].req
    <2>1. /\ result[t] \notin Requests /\ "error" \notin Requests /\ "cancelled" \notin Requests
          /\ mu = t /\ t # Nobody /\ call[t].xid = nextID
          /\ result \in [Callers -> Requests \cup {"cancelled", "error", Nobody}]
      <3>1. TypeOK /\ LockInv /\ PendingInv /\ MineInv
        BY <1>1 DEF IInv, XInv
      <3>2. mu = t /\ t # Nobody
        BY <1>1, <3>1, NobodyElse DEF LockInv
      <3>3. call[t].xid = nextID
        BY <3>1, <3>2 DEF MineInv
      <3>4. result[t] = Nobody
        BY <1>1, <3>1 DEF PendingInv
      <3> QED  BY <3>1, <3>2, <3>3, <3>4, NobodyElse, RequestsNamed DEF TypeOK
    <2>2. SelectDone(t)
      <3>1. ASSUME NEW u \in Callers, \/ \E r \in Requests : Call(u, r)
                                      \/ CallDone(u) \/ EncodeFails(u)
            PROVE  call[u].at # "select" /\ \A v \in Callers \ {u} : result'[v] = result[v]
        BY <2>1, <3>1 DEF Call, CallDone, EncodeFails
      <3>2. ASSUME NEW u \in Callers, SelectContext(u)
            PROVE  \A v \in Callers : result'[v] \in {result[v], "cancelled"}
        BY <2>1, <3>2 DEF SelectContext, Return
      <3>3. ASSUME NEW u \in Callers, SelectDone(u)
            PROVE  \A v \in Callers \ {u} : result'[v] = result[v]
        BY <2>1, <3>3 DEF SelectDone, Return
      <3>4. ASSUME NEW u \in Callers, ContextEnds(u) \/ \E w \in Workers : Start(u, w)
            PROVE  result' = result
        BY <3>4 DEF ContextEnds, Start
      <3>5. ASSUME NEW w \in Workers, Write(w) \/ Read(w) \/ ReadOversized(w) \/ ReadTimesOut(w)
            PROVE  result' = result
        BY <3>5 DEF Write, Read, ReadOversized, ReadTimesOut
      <3>6. Close \/ (\E kind \in ReplyKinds \ {"debris"} : Respond(kind)) \/ UNCHANGED vars
            => result' = result
        BY DEF Close, Respond, vars
      <3>7. result' # result
        BY <1>1, <2>1
      <3> QED  BY <1>1, <2>1, <3>1, <3>2, <3>3, <3>4, <3>5, <3>6, <3>7, ZenonT(30) DEF Next
    <2>3. call[t].worker \in Workers
      BY <1>1, <2>2 DEF IInv, TypeOK, LockInv, Calls, SelectDone
    <2>4. result'[t] = decodeReply(call[t].xid, io[call[t].worker].msg) /\ io[call[t].worker].at = "done"
      BY <2>1, <2>2 DEF SelectDone, Return
    <2> QED  BY <1>1, <2>1, <2>3, <2>4 DEF XInv, MineInv, decodeReply
  <1>2. IInv /\ XInv /\ [Next]_vars =>
           [\A t \in Callers : call[t].at = "select" /\ result'[t] \in Requests
               => result'[t] = call[t].req]_vars
    BY <1>1
  <1> QED  BY <1>2, InitIInv, StepIInv, InitX, StepX, PTL DEF Spec, OwnReply
=============================================================================
