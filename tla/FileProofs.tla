----------------------------- MODULE FileProofs -----------------------------
(***************************************************************************)
(* Proofs about File for any number of goroutines, any sizes of transfers  *)
(* and files, and any flags.                                               *)
(***************************************************************************)
EXTENDS File, TLAPS

\* Zenon proves the leaves that name no other prover.
USE Zenon

Ops == Transfers \cup Plain \cup {"none", "Truncate", "Seek", "Close"}

Errors == {"nil", "closed", "invalid", "EOF", "short", "status", "lost"}

CallRecords == [op : Ops, step : {"none", "size", "io"}, off : Int, len : Int, n : Int,
                moved : SUBSET (Int \X Int)]

Shape ==
    /\ call \in [Goroutines -> CallRecords]
    /\ size \in Int /\ offset \in Int
    /\ closed \in BOOLEAN /\ closes \in Int

\* f.mu is held by the goroutine whose Read, Write or Seek is under way.
LockInv == \A g \in Goroutines : call[g].op \in Locked => mu = g

\* Write asks for the size only to append, and Close does not ask for it.
AppendInv ==
    \A g \in Goroutines :
        call[g].step = "size" => call[g].op # "Close" /\ (call[g].op = "Write" => flag.append)

\* Before OpenFile has returned the handle nobody uses it.
UnusedInv == opening # "ready" => \A g \in Goroutines : call[g] = Idle

\* A CLOSE was sent exactly if the handle is marked closed, which OpenFile does
\* only when its Truncate fails.
CloseInv ==
    /\ (closed /\ closes = 1) \/ (~closed /\ closes = 0)
    /\ opening \in {"resolve", "open", "confirm", "truncate"} => ~closed

\* What the server holds in each phase of OpenFile, and that OpenFile goes on only
\* if Conn.Open did not fail.
OpenInv ==
    /\ opening \in {"resolve", "open"} => open = "none"
    /\ opening = "close" => closed
    /\ opening # "failed" => mishap # "open"
    /\ NoOpenLeft

IInv ==
    /\ Shape /\ LockInv /\ AppendInv /\ UnusedInv /\ CloseInv /\ OpenInv
    /\ OffsetOwned /\ QuietOnceClosed

\* An idle goroutine holds no lock.
LEMMA IdleFacts ==
    Idle \in CallRecords /\ Idle.op \notin Locked /\ Idle.op # "Close" /\ Idle.step = "none"
  BY SMTT(30) DEF Idle, CallRecords, Ops, Locked

\* A new call is a call.
LEMMA NewCallType ==
    ASSUME NEW op \in Ops, NEW off \in Int, NEW len \in Int
    PROVE  /\ NewCall(op, off, len) \in CallRecords
           /\ NewCall(op, off, len).op = op
           /\ NewCall(op, off, len).off = off
  <1>1. ASSUME NEW c \in CallRecords
        PROVE  /\ [c EXCEPT !.op = op, !.off = off, !.len = len] \in CallRecords
               /\ [c EXCEPT !.op = op, !.off = off, !.len = len].op = op
               /\ [c EXCEPT !.op = op, !.off = off, !.len = len].off = off
    BY DEF CallRecords
  <1> QED  BY <1>1, IdleFacts DEF NewCall

\* The first state of OpenFile.
LEMMA InitIInv == Init => IInv
  <1> SUFFICES ASSUME Init
               PROVE  IInv
    OBVIOUS
  <1>1. Shape
    <2>1. call \in [Goroutines -> CallRecords]
      BY IdleFacts DEF Init
    <2>2. size \in Int /\ offset \in Int /\ closes \in Int
      BY SMTT(30), SizeFits DEF Init, Absent
    <2>3. closed \in BOOLEAN
      BY DEF Init
    <2> QED  BY <2>1, <2>2, <2>3 DEF Shape
  <1>2. LockInv /\ AppendInv /\ UnusedInv /\ OffsetOwned /\ QuietOnceClosed
    BY IdleFacts DEF Init, LockInv, AppendInv, UnusedInv, OffsetOwned, QuietOnceClosed, Locked
  <1>3. CloseInv /\ OpenInv
    BY DEF Init, CloseInv, OpenInv, NoOpenLeft, OpenLeft
  <1> QED  BY <1>1, <1>2, <1>3 DEF IInv

-----------------------------------------------------------------------------
(***************************************************************************)
(* What a step of g does to the handle, whichever it is: g's call becomes  *)
(* c, the others stay, f.mu follows, and the offset moves only under f.mu. *)
(***************************************************************************)
HandleStep(g, c) ==
    /\ call' = [call EXCEPT ![g] = c]
    /\ c.op \in Locked => mu \in {Nobody, g} /\ mu' = g
    /\ c.op \notin Locked => mu' = mu \/ mu = g
    /\ c.op = "Read" => c.off = offset'
    /\ c.op = "Write" /\ ~flag.append => c.off = offset'
    /\ c.step = "size" => c.op # "Close" /\ (c.op = "Write" => flag.append)
    /\ offset' # offset => mu \in {Nobody, g}
    /\ closed' # closed => mu = Nobody
    /\ closed' => c.op \notin Locked
    /\ opening = "ready" /\ flag' = flag /\ opening' = opening

\* Such a step preserves what is said of the lock, the offset and Close.
LEMMA HandleStepInv ==
    ASSUME IInv, NEW g \in Goroutines, NEW c \in CallRecords, HandleStep(g, c)
    PROVE  LockInv' /\ AppendInv' /\ UnusedInv' /\ OffsetOwned' /\ QuietOnceClosed'
  <1>1. /\ call'[g] = c
        /\ \A h \in Goroutines \ {g} : call'[h] = call[h]
    BY DEF HandleStep, IInv, Shape
  <1>2. \A h \in Goroutines \ {g} : call[h].op \in Locked => mu = h /\ mu # g /\ mu # Nobody
    BY NobodyElse DEF IInv, LockInv
  <1>3. LockInv'
    BY SMTT(30), <1>1, <1>2 DEF HandleStep, LockInv
  <1>4. OffsetOwned'
    <2> SUFFICES ASSUME NEW h \in Goroutines,
                        call'[h].op = "Read" \/ (call'[h].op = "Write" /\ ~flag'.append)
                 PROVE  call'[h].off = offset'
      BY DEF OffsetOwned
    <2>1. CASE h = g
      BY <1>1, <2>1 DEF HandleStep
    <2>2. CASE h # g
      <3>1. call[h].op \in Locked /\ call'[h] = call[h]
        BY <1>1, <2>2 DEF Locked
      <3>2. offset' = offset
        BY SMTT(30), <1>2, <2>2, <3>1 DEF HandleStep
      <3> QED  BY <2>2, <3>1, <3>2 DEF IInv, OffsetOwned, HandleStep
    <2> QED  BY <2>1, <2>2
  <1>5. QuietOnceClosed'
    BY <1>1, <1>2 DEF HandleStep, QuietOnceClosed, IInv
  <1>6. UnusedInv'
    BY DEF HandleStep, UnusedInv
  <1>7. AppendInv'
    BY <1>1 DEF HandleStep, AppendInv, IInv
  <1> QED  BY <1>3, <1>4, <1>5, <1>6, <1>7

\* A call that returns, and one that sends a request, are such steps.
LEMMA ReturnsStep ==
    ASSUME IInv, NEW g \in Goroutines, NEW c, NEW err, Returns(g, c, err),
           opening = "ready", flag' = flag, opening' = opening,
           offset' # offset => mu \in {Nobody, g},
           closed' # closed => mu = Nobody
    PROVE  HandleStep(g, Idle)
  BY IdleFacts DEF Returns, HandleStep, Idle, Locked

\* A call sends its request.
LEMMA SendsStep ==
    ASSUME IInv, NEW g \in Goroutines, NEW c \in CallRecords, NEW step \in {"size", "io"},
           Sends(g, c, step),
           c.op \in Locked => mu \in {Nobody, g} /\ ~closed',
           c.op = "Read" => c.off = offset',
           c.op = "Write" /\ ~flag.append => c.off = offset',
           step = "size" => c.op # "Close" /\ (c.op = "Write" => flag.append),
           opening = "ready", flag' = flag, opening' = opening,
           offset' = offset,
           closed' # closed => mu = Nobody
    PROVE  /\ [c EXCEPT !.step = step] \in CallRecords
           /\ HandleStep(g, [c EXCEPT !.step = step])
           /\ [c EXCEPT !.step = step].op = c.op
  <1>1. /\ [c EXCEPT !.step = step] \in CallRecords
        /\ [c EXCEPT !.step = step].op = c.op
        /\ [c EXCEPT !.step = step].off = c.off
        /\ [c EXCEPT !.step = step].step = step
    BY DEF CallRecords
  <1> QED  BY <1>1 DEF Sends, HandleStep
-----------------------------------------------------------------------------
\* The other conjuncts of the invariant, for a step of a goroutine.
LEMMA HandleInv ==
    ASSUME IInv, NEW g \in Goroutines, NEW c \in CallRecords, HandleStep(g, c),
           size' \in Int, offset' \in Int, open' = open \/ open' = "closed",
           \/ UNCHANGED <<closed, closes>>
           \/ ~closed /\ closed' = TRUE /\ closes' = closes + 1 /\ c.op = "Close",
           mishap' \in {mishap, "close"},
           call[g].op = "Close" /\ c.op # "Close" => open' = "closed" \/ mishap' = "close"
    PROVE  IInv'
  <1>1. LockInv' /\ AppendInv' /\ UnusedInv' /\ OffsetOwned' /\ QuietOnceClosed'
    BY HandleStepInv
  <1>2. call' \in [Goroutines -> CallRecords]
    BY DEF HandleStep, IInv, Shape
  <1>3. closed' \in BOOLEAN /\ closes' \in Int /\ CloseInv'
    <2>1. CASE UNCHANGED <<closed, closes>>
      BY <2>1 DEF IInv, Shape, CloseInv, HandleStep
    <2>2. CASE ~closed /\ closed' = TRUE /\ closes' = closes + 1
      BY SMTT(30), <2>2 DEF IInv, CloseInv, HandleStep
    <2> QED  BY <2>1, <2>2
  <1>4. OpenInv'
    <2>1. opening = "ready" /\ opening' = "ready" /\ mishap # "open" /\ mishap' # "open"
      BY DEF HandleStep, IInv, OpenInv
    <2>2. /\ call'[g] = c
          /\ \A h \in Goroutines \ {g} : call'[h] = call[h]
      BY DEF HandleStep, IInv, Shape
    <2>3. ASSUME OpenLeft'
          PROVE  mishap' = "close" /\ closes' = 1
      <3>1. closed' /\ c.op # "Close" /\ open' = open /\ open' # "closed"
        BY <2>1, <2>2, <2>3 DEF OpenLeft
      <3>2. closed /\ closes' = 1
        BY <1>3, <3>1 DEF CloseInv
      <3>3. CASE call[g].op = "Close"
        BY <3>1, <3>2, <3>3
      <3>4. CASE call[g].op # "Close"
        <4>1. \A h \in Goroutines : call[h].op # "Close"
          BY <2>1, <2>2, <2>3, <3>4 DEF OpenLeft
        <4>2. OpenLeft
          BY <2>1, <2>3, <3>1, <3>2, <4>1 DEF OpenLeft
        <4> QED  BY <2>1, <3>2, <4>2 DEF IInv, OpenInv, NoOpenLeft
      <3> QED  BY <3>3, <3>4
    <2> QED  BY <2>1, <2>3 DEF OpenInv, NoOpenLeft
  <1> QED  BY <1>1, <1>2, <1>3, <1>4 DEF IInv, Shape

\* ReadAt, WriteAt, Truncate, Stat and Sync begin.
LEMMA UnlockedStep ==
    ASSUME IInv, NEW g \in Goroutines, NEW op \in Ops \ Locked, NEW off \in Int, NEW len \in Int,
           Unlocked(g, op, off, len)
    PROVE  IInv'
  <1> DEFINE c == NewCall(op, off, len)
  <1>1. c \in CallRecords /\ c.op = op
    BY NewCallType
  <1> HIDE DEF c
  <1>2. Ready(g) /\ UNCHANGED <<flag, opening, size, open, offset, closed, closes, mishap>>
    BY DEF Unlocked
  <1>3. (\E err \in Errors : Returns(g, c, err)) \/ Sends(g, c, "io")
    BY DEF Unlocked, Errors, c
  <1>4. CASE \E err \in Errors : Returns(g, c, err)
    BY <1>2, <1>4, ReturnsStep, HandleInv, IdleFacts DEF Ready, IInv, Shape
  <1>5. CASE Sends(g, c, "io")
    <2>1. c.op \notin Locked /\ c.op # "Read" /\ c.op # "Write"
      BY <1>1 DEF Locked
    <2>2. [c EXCEPT !.step = "io"] \in CallRecords /\ HandleStep(g, [c EXCEPT !.step = "io"])
      BY <1>1, <1>2, <1>5, <2>1, SendsStep DEF Ready
    <2>3. call[g].op # "Close"
      BY <1>2, IdleFacts DEF Ready
    <2> QED  BY <1>2, <2>2, <2>3, HandleInv DEF IInv, Shape
  <1> QED  BY <1>3, <1>4, <1>5

\* Read and Write begin: with the lock, at the handle's offset.
LEMMA SequentialStep ==
    ASSUME IInv, NEW g \in Goroutines, Read(g) \/ Write(g)
    PROVE  IInv'
  <1>1. PICK op \in {"Read", "Write"}, len \in 0 .. MaxLen, step \in {"size", "io"} :
            \/ \E err \in Errors : Returns(g, NewCall(op, offset, len), err)
            \/ ~closed /\ Sends(g, NewCall(op, offset, len), step)
               /\ (step = "size" => op = "Write" /\ flag.append)
    BY DEF Read, Write, Errors
  <1> DEFINE c == NewCall(op, offset, len)
  <1>2. Ready(g) /\ UNCHANGED <<flag, opening, size, open, offset, closed, closes, mishap>>
    BY DEF Read, Write
  <1>3. c \in CallRecords /\ c.op = op /\ c.off = offset
    <2>1. op \in Ops
      BY DEF Ops, Transfers
    <2>2. offset \in Int /\ len \in Int
      BY SMTT(30), MaxLenNat DEF IInv, Shape
    <2> QED  BY SMTT(30), <2>1, <2>2, NewCallType
  <1> HIDE DEF c
  <1>4. CASE \E err \in Errors : Returns(g, c, err)
    BY <1>2, <1>4, ReturnsStep, HandleInv, IdleFacts DEF Ready, IInv, Shape
  <1>5. CASE ~closed /\ Sends(g, c, step) /\ (step = "size" => op = "Write" /\ flag.append)
    <2>1. [c EXCEPT !.step = step] \in CallRecords /\ HandleStep(g, [c EXCEPT !.step = step])
      BY <1>2, <1>3, <1>5, SendsStep DEF Ready
    <2>2. call[g].op # "Close"
      BY <1>2, IdleFacts DEF Ready
    <2> QED  BY <1>2, <2>1, <2>2, HandleInv DEF IInv, Shape
  <1> QED  BY <1>1, <1>4, <1>5 DEF c

\* The new position is an integer, and g's call returns.
LEMMA SeekToFacts ==
    ASSUME NEW g, NEW c \in CallRecords, NEW base \in Int, offset \in Int, SeekTo(g, c, base)
    PROVE  offset' \in Int /\ \E err \in Errors : Returns(g, c, err)
  <1>1. Add64(base, c.off) \in Int
    BY SMTT(30), SizeFits DEF Add64, CallRecords
  <1> QED  BY <1>1 DEF SeekTo, Errors

\* File.Seek.
LEMMA SeekStep ==
    ASSUME IInv, NEW g \in Goroutines, Seek(g)
    PROVE  IInv'
  <1>1. PICK off \in {-1, 1, MaxInt} :
            LET c == NewCall("Seek", off, 0) IN
            \/ closed /\ Returns(g, c, "closed") /\ UNCHANGED offset
            \/ ~closed /\ \E base \in {0, offset} : SeekTo(g, c, base)
            \/ ~closed /\ Sends(g, c, "size") /\ UNCHANGED offset
            \/ ~closed /\ Returns(g, c, "invalid") /\ UNCHANGED offset
    BY DEF Seek
  <1> DEFINE c == NewCall("Seek", off, 0)
  <1>2. Ready(g) /\ UNCHANGED <<flag, opening, size, open, closed, closes, mishap>>
    BY DEF Seek
  <1>3. c \in CallRecords /\ c.op = "Seek"
    BY SMTT(30), NewCallType, SizeFits DEF Ops
  <1>4. offset \in Int
    BY DEF IInv, Shape
  <1> HIDE DEF c
  <1>5. \/ offset' \in Int /\ \E err \in Errors : Returns(g, c, err)
        \/ ~closed /\ Sends(g, c, "size") /\ UNCHANGED offset
    BY SMTT(30), <1>1, <1>3, <1>4, SeekToFacts DEF c, Errors
  <1>6. CASE offset' \in Int /\ \E err \in Errors : Returns(g, c, err)
    BY <1>2, <1>6, ReturnsStep, HandleInv, IdleFacts DEF Ready, IInv, Shape
  <1>7. CASE ~closed /\ Sends(g, c, "size") /\ UNCHANGED offset
    <2>1. [c EXCEPT !.step = "size"] \in CallRecords /\ HandleStep(g, [c EXCEPT !.step = "size"])
      BY <1>2, <1>3, <1>7, SendsStep DEF Ready
    <2>2. call[g].op # "Close"
      BY <1>2, IdleFacts DEF Ready
    <2> QED  BY <1>2, <1>4, <1>7, <2>1, <2>2, HandleInv DEF IInv, Shape
  <1> QED  BY <1>5, <1>6, <1>7

\* File.Close.
LEMMA CloseStep ==
    ASSUME IInv, NEW g \in Goroutines, Close(g)
    PROVE  IInv'
  <1> DEFINE c == NewCall("Close", 0, 0)
  <1>1. c \in CallRecords /\ c.op = "Close"
    BY SMTT(30), NewCallType DEF Ops
  <1>2. Ready(g) /\ closed' = TRUE /\ UNCHANGED <<flag, opening, size, open, offset, mishap>>
    BY DEF Close
  <1> HIDE DEF c
  <1>3. \/ closed /\ Returns(g, c, "closed") /\ UNCHANGED closes
        \/ ~closed /\ Sends(g, c, "io") /\ closes' = closes + 1
    BY DEF Close, c
  <1>4. CASE closed /\ Returns(g, c, "closed") /\ UNCHANGED closes
    <2>1. closed' = closed
      BY <1>2, <1>4 DEF IInv, Shape
    <2> QED  BY <1>2, <1>4, <2>1, ReturnsStep, HandleInv, IdleFacts DEF Ready, IInv, Shape
  <1>5. CASE ~closed /\ Sends(g, c, "io") /\ closes' = closes + 1
    <2>1. c.op \notin Locked /\ c.op # "Read" /\ c.op # "Write"
      BY <1>1 DEF Locked
    <2>2. /\ [c EXCEPT !.step = "io"] \in CallRecords
          /\ HandleStep(g, [c EXCEPT !.step = "io"])
          /\ [c EXCEPT !.step = "io"].op = "Close"
      BY <1>1, <1>2, <1>5, <2>1, SendsStep DEF Ready
    <2> QED  BY <1>1, <1>2, <1>5, <2>2, HandleInv DEF IInv, Shape
  <1> QED  BY <1>3, <1>4, <1>5
-----------------------------------------------------------------------------
(* Round trips.                                                            *)

\* A call under way: OpenFile has returned, and a locked call holds f.mu.
LEMMA UnderWay ==
    ASSUME IInv, NEW g \in Goroutines, call[g].step # "none"
    PROVE  /\ opening = "ready" /\ call[g] \in CallRecords
           /\ call[g].op \in Locked => mu = g /\ ~closed
           /\ call[g].op = "Read" => call[g].off = offset
           /\ call[g].op = "Write" /\ ~flag.append => call[g].off = offset
  <1>1. opening = "ready" /\ call[g] \in CallRecords
    BY IdleFacts DEF IInv, UnusedInv, Shape
  <1>2. call[g].op \in Locked => mu = g /\ ~closed
    BY DEF IInv, LockInv, QuietOnceClosed
  <1>3. /\ call[g].op = "Read" => call[g].off = offset
        /\ call[g].op = "Write" /\ ~flag.append => call[g].off = offset
    BY DEF IInv, OffsetOwned
  <1> QED  BY <1>1, <1>2, <1>3

\* The answer ends the call, with d transferred.
LEMMA RepliedStep ==
    ASSUME IInv, NEW g \in Goroutines, call[g].step # "none",
           NEW d, NEW err, Returns(g, d, err),
           size' \in Int, offset' \in Int, open' = open \/ open' = "closed",
           offset' # offset => call[g].op \in Locked,
           UNCHANGED <<flag, opening, closed, closes>>, mishap' \in {mishap, "close"},
           call[g].op = "Close" => open' = "closed" \/ mishap' = "close"
    PROVE  IInv'
  <1>1. HandleStep(g, Idle)
    BY UnderWay, ReturnsStep
  <1> QED  BY <1>1, IdleFacts, HandleInv

\* The loop goes round: the call sends its next request.
LEMMA ResentStep ==
    ASSUME IInv, NEW g \in Goroutines, call[g].step # "none",
           NEW d \in CallRecords, Sends(g, d, "io"), d.op = call[g].op,
           (flag.append /\ d.op = "Write") \/ d.off = call[g].off,
           size' \in Int, UNCHANGED <<flag, opening, open, offset, closed, closes, mishap>>
    PROVE  IInv'
  <1>1. /\ opening = "ready"
        /\ d.op \in Locked => mu \in {Nobody, g} /\ ~closed'
        /\ d.op = "Read" => d.off = offset'
        /\ d.op = "Write" /\ ~flag.append => d.off = offset'
    BY UnderWay
  <1>2. [d EXCEPT !.step = "io"] \in CallRecords /\ HandleStep(g, [d EXCEPT !.step = "io"])
    BY <1>1, SendsStep
  <1>3. offset' \in Int
    BY DEF IInv, Shape
  <1>4. [d EXCEPT !.step = "io"].op = call[g].op
    BY DEF CallRecords
  <1> QED  BY <1>2, <1>3, <1>4, HandleInv

\* What a transfer leaves of a call is a call.
LEMMA AdvanceType ==
    ASSUME NEW c \in CallRecords, NEW k \in Int
    PROVE  /\ Advance(c, k) \in CallRecords
           /\ Advance(c, k).op = c.op /\ Advance(c, k).off = c.off
  <1> DEFINE more == {<<c.n + i, NextOffset(c) + i - c.off>> : i \in 0 .. k - 1}
  <1>1. c.n \in Int /\ c.off \in Int /\ c.moved \in SUBSET (Int \X Int)
    BY DEF CallRecords
  <1>2. more \in SUBSET (Int \X Int)
    <2>1. ASSUME NEW i \in 0 .. k - 1
          PROVE  <<c.n + i, NextOffset(c) + i - c.off>> \in Int \X Int
      <3>1. c.n + i \in Int /\ NextOffset(c) + i - c.off \in Int
        BY SMTT(30), <1>1 DEF NextOffset
      <3> QED  BY <3>1
    <2> QED  BY <2>1
  <1> DEFINE count == c.n + k
             all == c.moved \cup more
  <1>3. Advance(c, k) = [c EXCEPT !.n = count, !.moved = all]
    BY DEF Advance, CallRecords
  <1>4. count \in Int /\ all \in SUBSET (Int \X Int)
    BY SMTT(30), <1>1, <1>2
  <1> HIDE DEF count, all
  <1> QED  BY <1>3, <1>4 DEF CallRecords

\* Only Read and Write move the offset.
LEMMA MoveOffsetFacts ==
    ASSUME NEW c \in CallRecords, NEW err, offset \in Int, MoveOffset(c, err)
    PROVE  offset' \in Int /\ (offset' # offset => c.op \in Locked)
  <1>1. Add64(c.off, c.n) \in Int
    BY SMTT(30), SizeFits DEF Add64, CallRecords
  <1> QED  BY <1>1 DEF MoveOffset, Locked

\* The GETATTR of an append.
LEMMA SizeStep ==
    ASSUME IInv, NEW g \in Goroutines, SizeReply(g) \/ SizeFails(g)
    PROVE  IInv'
  <1> DEFINE c == call[g]
             d == [c EXCEPT !.off = size]
  <1>1. c.step = "size" /\ UNCHANGED <<flag, opening, size, open, closed, closes, mishap>>
    BY DEF SizeReply, SizeFails
  <1>2. c \in CallRecords /\ size \in Int /\ offset \in Int /\ c.op # "Close"
    BY <1>1 DEF IInv, Shape, AppendInv
  <1>3. d \in CallRecords /\ d.op = c.op
    <2>1. ASSUME NEW e \in CallRecords, NEW s \in Int
          PROVE  [e EXCEPT !.off = s] \in CallRecords /\ [e EXCEPT !.off = s].op = e.op
      BY DEF CallRecords
    <2> QED  BY <1>2, <2>1
  <1>4. \/ SizeFails(g)
        \/ c.op = "Seek" /\ SeekTo(g, c, size)
        \/ c.op = "Write" /\ Sends(g, d, "io") /\ UNCHANGED offset
        \/ c.op = "Write" /\ Returns(g, d, "nil") /\ offset' = size
    BY DEF SizeReply
  <1> HIDE DEF d
  <1>5. CASE SizeFails(g)
    BY <1>1, <1>2, <1>5, RepliedStep DEF SizeFails
  <1>6. CASE c.op = "Seek" /\ SeekTo(g, c, size)
    <2>1. offset' \in Int /\ \E err \in Errors : Returns(g, c, err)
      BY <1>2, <1>6, SeekToFacts
    <2>2. c.op \in Locked
      BY <1>6 DEF Locked
    <2> QED  BY <1>1, <1>2, <2>1, <2>2, RepliedStep
  <1>7. CASE c.op = "Write" /\ Sends(g, d, "io") /\ UNCHANGED offset
    <2>1. flag.append
      BY <1>1, <1>7 DEF IInv, AppendInv
    <2>2. size' \in Int
      BY <1>1, <1>2
    <2> QED  BY <1>1, <1>2, <1>3, <1>7, <2>1, <2>2, ResentStep
  <1>8. CASE c.op = "Write" /\ Returns(g, d, "nil") /\ offset' = size
    <2>1. c.op \in Locked
      BY <1>8 DEF Locked
    <2> QED  BY <1>1, <1>2, <1>8, <2>1, RepliedStep
  <1> QED  BY <1>4, <1>5, <1>6, <1>7, <1>8

\* The answer to a READ.
LEMMA ReadReplyStep ==
    ASSUME IInv, NEW g \in Goroutines, ReadReply(g)
    PROVE  IInv'
  <1> DEFINE c == call[g]
  <1>1. c.step = "io" /\ UNCHANGED <<flag, opening, size, open, closed, closes, mishap>>
    BY DEF ReadReply
  <1>2. c \in CallRecords /\ size' \in Int /\ offset \in Int /\ c.op # "Close"
    BY <1>1 DEF IInv, Shape, ReadReply
  <1>3. PICK k \in 0 .. c.len - c.n :
            /\ \/ \E err \in Errors : Returns(g, Advance(c, k), err)
               \/ c.op = "ReadAt" /\ Sends(g, Advance(c, k), "io")
            /\ MoveOffset(Advance(c, k), "nil")
    BY DEF ReadReply, Errors
  <1> DEFINE d == Advance(c, k)
  <1>4. d \in CallRecords /\ d.op = c.op /\ d.off = c.off
    BY SMTT(30), <1>2, AdvanceType
  <1> HIDE DEF d
  <1>5. offset' \in Int /\ (offset' # offset => c.op \in Locked)
    BY <1>2, <1>3, <1>4, MoveOffsetFacts DEF d
  <1>6. CASE \E err \in Errors : Returns(g, d, err)
    BY <1>1, <1>2, <1>5, <1>6, RepliedStep
  <1>7. CASE c.op = "ReadAt" /\ Sends(g, d, "io")
    <2>1. offset' = offset
      BY <1>5, <1>7 DEF Locked
    <2> QED  BY <1>1, <1>2, <1>4, <1>7, <2>1, ResentStep
  <1> QED  BY <1>3, <1>6, <1>7 DEF d

\* What the server's file becomes.
LEMMA StoredType ==
    ASSUME NEW c \in CallRecords, NEW k \in Int, size \in Int
    PROVE  Stored(NextOffset(c), k) \in Int
  BY SMTT(30) DEF Stored, NextOffset, CallRecords

\* The answer to a WRITE.
LEMMA WriteReplyStep ==
    ASSUME IInv, NEW g \in Goroutines, WriteReply(g)
    PROVE  IInv'
  <1> DEFINE c == call[g]
  <1>1. c.step = "io" /\ UNCHANGED <<flag, opening, open, closed, closes, mishap>>
    BY DEF WriteReply
  <1>2. c \in CallRecords /\ size \in Int /\ offset \in Int /\ c.op # "Close"
    BY <1>1 DEF IInv, Shape, WriteReply
  <1>3. PICK k \in 0 .. c.len - c.n :
            /\ size' = Stored(NextOffset(c), k)
            /\ WroteSome(g, Advance(c, k), k)
            /\ IF call'[g] = Idle THEN MoveOffset(Advance(c, k), "nil") ELSE UNCHANGED offset
    BY DEF WriteReply
  <1> DEFINE d == Advance(c, k)
  <1>4. d \in CallRecords /\ d.op = c.op /\ d.off = c.off
    BY SMTT(30), <1>2, AdvanceType
  <1>5. size' \in Int
    BY SMTT(30), <1>2, <1>3, StoredType
  <1> HIDE DEF d
  <1>6. (\E err \in Errors : Returns(g, d, err)) \/ Sends(g, d, "io")
    BY <1>3 DEF WroteSome, Errors, d
  <1>7. CASE \E err \in Errors : Returns(g, d, err)
    <2>1. offset' \in Int /\ (offset' # offset => c.op \in Locked)
      BY <1>2, <1>3, <1>4, MoveOffsetFacts DEF d
    <2> QED  BY <1>1, <1>2, <1>5, <1>7, <2>1, RepliedStep
  <1>8. CASE Sends(g, d, "io")
    <2>1. call'[g] = [d EXCEPT !.step = "io"]
      BY <1>8 DEF Sends, IInv, Shape
    <2>2. [d EXCEPT !.step = "io"].step = "io"
      BY <1>4 DEF CallRecords
    <2>3. offset' = offset
      BY <1>3, <2>1, <2>2, IdleFacts
    <2> QED  BY <1>1, <1>2, <1>4, <1>5, <1>8, <2>3, ResentStep
  <1> QED  BY <1>6, <1>7, <1>8

\* SETATTR, GETATTR, COMMIT and CLOSE, refusals and lost answers.
LEMMA OtherStep ==
    ASSUME IInv, NEW g \in Goroutines, OtherReply(g) \/ Fails(g) \/ ReplyLost(g)
    PROVE  IInv'
  <1> DEFINE c == call[g]
  <1>1. c.step = "io" /\ UNCHANGED <<flag, opening, closed, closes>>
    BY DEF OtherReply, Fails, ReplyLost
  <1>2. c \in CallRecords /\ size \in Int /\ offset \in Int
    BY DEF IInv, Shape
  <1>3. /\ mishap' \in {mishap, "close"}
        /\ c.op = "Close" => open' = "closed" \/ mishap' = "close"
    BY DEF OtherReply, Fails, ReplyLost, Plain
  <1>4. open' = open \/ open' = "closed"
    BY DEF OtherReply, Fails, ReplyLost
  <1>5. \E d, err : Returns(g, d, err)
    BY DEF OtherReply, Fails, ReplyLost
  <1>6. size' \in Int
    <2>1. c.len \in Int /\ c.n \in Int
      BY <1>2 DEF CallRecords
    <2>2. \A k \in Int : Stored(NextOffset(c), k) \in Int
      BY <1>2, StoredType
    <2>3. size' \in {size, c.len} \/ \E k \in 1 .. c.len - c.n : size' = Stored(NextOffset(c), k)
      BY DEF OtherReply, Fails, ReplyLost
    <2> QED  BY SMTT(30), <1>2, <2>1, <2>2, <2>3
  <1>7. offset' \in Int /\ (offset' # offset => c.op \in Locked)
    BY <1>2, MoveOffsetFacts DEF OtherReply, Fails, ReplyLost
  <1> QED  BY <1>1, <1>3, <1>4, <1>5, <1>6, <1>7, RepliedStep
-----------------------------------------------------------------------------
(* OpenFile.                                                               *)

\* No goroutine has the handle yet: what is said of calls stays true.
LEMMA OpeningKeeps ==
    ASSUME IInv, opening # "ready", UNCHANGED <<flag, mu, offset, call>>
    PROVE  /\ call' \in [Goroutines -> CallRecords] /\ offset' \in Int
           /\ LockInv' /\ AppendInv' /\ UnusedInv' /\ OffsetOwned' /\ QuietOnceClosed'
  <1>1. \A g \in Goroutines : call'[g] = Idle
    BY DEF IInv, UnusedInv
  <1>2. LockInv' /\ AppendInv' /\ UnusedInv' /\ OffsetOwned' /\ QuietOnceClosed'
    BY <1>1, IdleFacts DEF LockInv, AppendInv, UnusedInv, OffsetOwned, QuietOnceClosed, Locked
  <1> QED  BY <1>2 DEF IInv, Shape

\* The phases up to the CLOSE of a failed OpenFile.
LEMMA OpenStep ==
    ASSUME IInv, Resolve \/ Open \/ openConfirm \/ OpenTruncate \/ OpenClose
    PROVE  IInv'
  <1>1. opening # "ready" /\ UNCHANGED <<flag, mu, offset, call>>
    BY DEF Resolve, Open, openConfirm, OpenTruncate, OpenClose, handleVars
  <1>2. /\ call' \in [Goroutines -> CallRecords] /\ offset' \in Int
        /\ LockInv' /\ AppendInv' /\ UnusedInv' /\ OffsetOwned' /\ QuietOnceClosed'
    BY <1>1, OpeningKeeps
  <1>3. size' \in Int
    <2>1. size' \in {size, 0}
      BY DEF Resolve, Open, openConfirm, OpenTruncate, OpenClose
    <2> QED  BY SMTT(30), <2>1 DEF IInv, Shape
  <1>4. closed' \in BOOLEAN /\ closes' \in Int /\ CloseInv'
    <2>1. CASE Resolve \/ Open \/ openConfirm \/ OpenClose
      <3>1. UNCHANGED <<closed, closes>>
        BY <2>1 DEF Resolve, Open, openConfirm, OpenClose, handleVars
      <3>2. \/ opening' = "failed" \/ opening' = "ready"
            \/ opening \in {"resolve", "open", "confirm", "truncate"}
        BY <2>1 DEF Resolve, Open, openConfirm, OpenClose, OpenFails
      <3> QED  BY <3>1, <3>2 DEF IInv, Shape, CloseInv
    <2>2. CASE OpenTruncate
      <3>1. opening = "truncate"
        BY <2>2 DEF OpenTruncate
      <3>2. ~closed /\ closes = 0
        BY <3>1 DEF IInv, CloseInv
      <3>3. \/ opening' = "ready" /\ UNCHANGED <<closed, closes>>
            \/ opening' = "close" /\ closed' = TRUE /\ closes' = closes + 1
        BY <2>2 DEF OpenTruncate, OpenTruncateFails
      <3>4. CASE opening' = "ready" /\ UNCHANGED <<closed, closes>>
        BY <3>2, <3>4 DEF IInv, Shape, CloseInv
      <3>5. CASE opening' = "close" /\ closed' = TRUE /\ closes' = closes + 1
        BY SMTT(30), <3>2, <3>5 DEF CloseInv
      <3> QED  BY <3>3, <3>4, <3>5
    <2> QED  BY <2>1, <2>2
  <1>5. OpenInv'
    <2>1. CASE Resolve
      BY <2>1 DEF Resolve, OpenFails, IInv, OpenInv, NoOpenLeft, OpenLeft
    <2>2. CASE Open \/ openConfirm
      <3>1. /\ opening \in {"open", "confirm"} /\ opening # "failed"
            /\ UNCHANGED <<closed, closes>>
        BY <2>2 DEF Open, openConfirm, handleVars
      <3>2. ~closed /\ ~closed' /\ closes' = 0 /\ mishap # "open"
        BY <3>1 DEF IInv, CloseInv, OpenInv
      <3>3. \/ opening' \in {"confirm", "truncate", "ready"} /\ mishap' = mishap
            \/ opening' = "failed" /\ mishap' = "open"
            \/ opening' = "failed" /\ open' = "none"
        BY <2>2 DEF Open, openConfirm, Opened, OpenFails, IInv, OpenInv
      <3> QED  BY <3>2, <3>3 DEF OpenInv, NoOpenLeft, OpenLeft
    <2>3. CASE OpenTruncate
      <3>1. opening = "truncate" /\ ~closed /\ mishap' = mishap /\ mishap # "open"
        BY <2>3 DEF OpenTruncate, IInv, CloseInv, OpenInv
      <3>2. (opening' = "ready" /\ ~closed') \/ (opening' = "close" /\ closed')
        BY <2>3, <3>1 DEF OpenTruncate, OpenTruncateFails
      <3> QED  BY <3>1, <3>2 DEF OpenInv, NoOpenLeft, OpenLeft
    <2>4. CASE OpenClose
      <3>1. closes' = 1 /\ opening' = "failed" /\ (open' = "closed" \/ mishap' = "close")
        BY <2>4 DEF OpenClose, OpenFails, IInv, CloseInv, OpenInv
      <3> QED  BY <3>1 DEF OpenInv, NoOpenLeft, OpenLeft
    <2> QED  BY <2>1, <2>2, <2>3, <2>4
  <1> QED  BY <1>2, <1>3, <1>4, <1>5 DEF IInv, Shape

\* Another client's change touches only the size.
LEMMA ForeignStep ==
    ASSUME IInv, Foreign
    PROVE  IInv'
  <1>1. size' \in Int
    BY SMTT(30) DEF Foreign, IInv, Shape
  <1>2. UNCHANGED <<flag, opening, open, mu, offset, closed, call, closes, mishap>>
    BY DEF Foreign, handleVars
  <1> QED  BY <1>1, <1>2 DEF IInv, Shape, LockInv, AppendInv, UnusedInv, CloseInv, OpenInv,
                            NoOpenLeft, OpenLeft, OffsetOwned, QuietOnceClosed

\* Nothing happens.
LEMMA StutterStep ==
    ASSUME IInv, UNCHANGED vars
    PROVE  IInv'
  BY DEF vars, handleVars, IInv, Shape, LockInv, AppendInv, UnusedInv, CloseInv, OpenInv,
         NoOpenLeft, OpenLeft, OffsetOwned, QuietOnceClosed
-----------------------------------------------------------------------------
\* Every step preserves the invariant.
LEMMA StepIInv == IInv /\ [Next]_vars => IInv'
  <1> SUFFICES ASSUME IInv, [Next]_vars
               PROVE  IInv'
    OBVIOUS
  <1>1. CASE Resolve \/ Open \/ openConfirm \/ OpenTruncate \/ OpenClose
    BY <1>1, OpenStep
  <1>2. CASE Foreign
    BY <1>2, ForeignStep
  <1>3. ASSUME NEW g \in Goroutines,
               ReadAt(g) \/ WriteAt(g) \/ Truncate(g) \/ Stat(g) \/ Sync(g)
        PROVE  IInv'
    <2>1. PICK op \in {"ReadAt", "WriteAt", "Truncate", "Stat", "Sync"}, off \in Int, len \in Int :
              Unlocked(g, op, off, len)
      BY SMTT(30), <1>3, OffsetsInt, MaxLenNat DEF ReadAt, WriteAt, Truncate, Stat, Sync
    <2>2. op \in Ops \ Locked
      BY DEF Ops, Locked, Transfers, Plain
    <2> QED  BY <2>1, <2>2, UnlockedStep
  <1>4. ASSUME NEW g \in Goroutines, Read(g) \/ Write(g) \/ Seek(g) \/ Close(g)
        PROVE  IInv'
    BY <1>4, SequentialStep, SeekStep, CloseStep
  <1>5. ASSUME NEW g \in Goroutines, RoundTrip(g)
        PROVE  IInv'
    BY <1>5, SizeStep, ReadReplyStep, WriteReplyStep, OtherStep DEF RoundTrip
  <1>6. CASE Failed \/ UNCHANGED vars
    BY <1>6, StutterStep DEF Failed
  <1> QED  BY <1>1, <1>2, <1>3, <1>4, <1>5, <1>6 DEF Next

\* File.offset under f.mu: a sequential Read or Write answers at the position it
\* was sent for, for any number of goroutines.
THEOREM OffsetOwnedThm == Spec => []OffsetOwned
  <1>1. IInv => OffsetOwned
    BY DEF IInv
  <1> QED  BY <1>1, InitIInv, StepIInv, PTL DEF Spec

\* File.Close against Read, Write and Seek: none is under way once it is marked.
THEOREM QuietOnceClosedThm == Spec => []QuietOnceClosed
  <1>1. IInv => QuietOnceClosed
    BY DEF IInv
  <1> QED  BY <1>1, InitIInv, StepIInv, PTL DEF Spec

\* File.Close and OpenFile's cleanup together send at most one CLOSE.
THEOREM OneCloseThm == Spec => []OneClose
  <1>1. IInv => OneClose
    BY SMTT(30) DEF IInv, CloseInv, OneClose
  <1> QED  BY <1>1, InitIInv, StepIInv, PTL DEF Spec

\* OpenFile and Close leave no open behind at the server, unless Conn.Open failed
\* after the OPEN or the CLOSE failed.
THEOREM NoOpenLeftThm == Spec => []NoOpenLeft
  <1>1. IInv => NoOpenLeft
    BY DEF IInv, OpenInv
  <1> QED  BY <1>1, InitIInv, StepIInv, PTL DEF Spec
-----------------------------------------------------------------------------
(***************************************************************************)
(* The bytes of a transfer.  While the call is under way exactly the first *)
(* n bytes of p are in their places, and n does not pass len(p).           *)
(***************************************************************************)
Exact(c) == c.op \in Transfers => c.n \in 0 .. c.len /\ c.moved = Placed(c.n)

MInv == MovedInPlace /\ \A g \in Goroutines : Exact(call[g])

\* Fewer bytes take fewer places.
LEMMA PlacedWithin ==
    ASSUME NEW n \in Nat, NEW m \in Nat, n <= m
    PROVE  Placed(n) \subseteq Placed(m)
  BY SMTT(30) DEF Placed

\* A further transfer of k bytes keeps the call exact.
LEMMA AdvanceExact ==
    ASSUME NEW c \in CallRecords, c.op \in Transfers, Exact(c), NEW k \in 0 .. c.len - c.n
    PROVE  /\ Exact(Advance(c, k)) /\ Advance(c, k).moved = Placed(c.n + k)
           /\ c.n \in Nat /\ c.n + k \in 0 .. c.len
  <1> DEFINE more == {<<c.n + i, NextOffset(c) + i - c.off>> : i \in 0 .. k - 1}
  <1>1. c.n \in Nat /\ c.len \in Int /\ c.off \in Int /\ c.moved = Placed(c.n) /\ k \in Nat
    BY SMTT(30) DEF Exact, CallRecords
  <1>2. c.n + k \in 0 .. c.len
    BY SMTT(30), <1>1
  <1>3. Placed(c.n) \cup more = Placed(c.n + k)
    <2>1. more = {<<c.n + i, c.n + i>> : i \in 0 .. k - 1}
      BY SMTT(30), <1>1 DEF NextOffset
    <2>2. ASSUME NEW j \in 0 .. c.n + k - 1, ~(j \in 0 .. c.n - 1)
          PROVE  j - c.n \in 0 .. k - 1 /\ j = c.n + (j - c.n)
      BY SMTT(30), <1>1, <2>2
    <2>3. Placed(c.n + k) \subseteq Placed(c.n) \cup more
      BY SMTT(30), <1>1, <2>1, <2>2 DEF Placed
    <2>4. Placed(c.n) \cup more \subseteq Placed(c.n + k)
      BY SMTT(30), <1>1, <2>1 DEF Placed
    <2> QED  BY <2>3, <2>4
  <1>4. /\ Advance(c, k).n = c.n + k /\ Advance(c, k).len = c.len
        /\ Advance(c, k).moved = c.moved \cup more
    BY DEF Advance, CallRecords
  <1> QED  BY <1>1, <1>2, <1>3, <1>4 DEF Exact

\* An exact call may return or go on.
LEMMA ReturnsExact ==
    ASSUME IInv, MInv, NEW g \in Goroutines, NEW d \in CallRecords, Exact(d), NEW err,
           Returns(g, d, err)
    PROVE  MInv'
  <1>1. \A h \in Goroutines : Exact(call[h])'
    BY DEF Returns, MInv, IInv, Shape, Exact, Idle, Transfers
  <1>2. MovedInPlace'
    <2>1. CASE d.op \in Transfers
      <3>1. /\ ret'.n = d.n /\ ret'.len = d.len /\ ret'.moved = d.moved
        BY <2>1 DEF Returns
      <3>2. Placed(d.n) \subseteq Placed(d.len) /\ d.moved = Placed(d.n)
        BY SMTT(30), <2>1, PlacedWithin DEF Exact, CallRecords
      <3> QED  BY <3>1, <3>2 DEF MovedInPlace
    <2>2. CASE d.op \notin Transfers
      BY <2>2 DEF Returns, MovedInPlace, NoResult, Transfers
    <2> QED  BY <2>1, <2>2
  <1> QED  BY <1>1, <1>2 DEF MInv

\* A call that sends has moved the first n bytes.
LEMMA SendsExact ==
    ASSUME IInv, MInv, NEW g \in Goroutines, NEW d \in CallRecords, Exact(d),
           NEW step \in {"size", "io"}, Sends(g, d, step)
    PROVE  MInv'
  <1> DEFINE e == [d EXCEPT !.step = step]
  <1>1. e.op = d.op /\ e.n = d.n /\ e.len = d.len /\ e.moved = d.moved
    BY DEF CallRecords
  <1>2. call' = [call EXCEPT ![g] = e] /\ ret' = NoResult
    BY DEF Sends
  <1> HIDE DEF e
  <1>3. Exact(e)
    BY <1>1 DEF Exact
  <1>4. \A h \in Goroutines : Exact(call[h])'
    BY <1>2, <1>3 DEF MInv, IInv, Shape, Exact
  <1>5. MovedInPlace'
    BY <1>2 DEF MovedInPlace, NoResult, Transfers
  <1> QED  BY <1>4, <1>5 DEF MInv

\* A new call has transferred nothing.
LEMMA NewCallExact ==
    ASSUME NEW op \in Ops, NEW off \in Int, NEW len \in Int, op \in Transfers => len \in Nat
    PROVE  Exact(NewCall(op, off, len))
  <1> DEFINE c == NewCall(op, off, len)
  <1>1. c.op = op /\ c.len = len /\ c.n = 0 /\ c.moved = {}
    BY DEF NewCall, Idle
  <1>2. Placed(0) = {}
    BY SMTT(30) DEF Placed
  <1> QED  BY SMTT(30), <1>1, <1>2 DEF Exact

\* A call begins: its first step returns or sends it as it was made.
LEMMA BeginExact ==
    ASSUME IInv, MInv, NEW g \in Goroutines,
           \/ ReadAt(g) \/ WriteAt(g) \/ Truncate(g) \/ Stat(g) \/ Sync(g)
           \/ Read(g) \/ Write(g) \/ Close(g)
    PROVE  MInv'
  <1>1. PICK op \in Ops, off \in Int, len \in Int, step \in {"size", "io"} :
            /\ op \in Transfers => len \in Nat
            /\ \/ \E err \in Errors : Returns(g, NewCall(op, off, len), err)
               \/ Sends(g, NewCall(op, off, len), step)
    <2>1. "ReadAt" \in Ops /\ "WriteAt" \in Ops /\ "Truncate" \in Ops /\ "Stat" \in Ops
          /\ "Sync" \in Ops /\ "Read" \in Ops /\ "Write" \in Ops /\ "Close" \in Ops
      BY DEF Ops, Transfers, Plain
    <2>2. \A len \in 0 .. MaxLen : len \in Int /\ len \in Nat
      BY SMTT(30), MaxLenNat
    <2>3. offset \in Int
      BY DEF IInv, Shape
    <2>4. ASSUME NEW op \in Ops, NEW off \in Int, NEW len \in Int, Unlocked(g, op, off, len)
          PROVE  \/ \E err \in Errors : Returns(g, NewCall(op, off, len), err)
                 \/ Sends(g, NewCall(op, off, len), "io")
      BY <2>4 DEF Unlocked, Errors
    <2>5. CASE ReadAt(g) \/ WriteAt(g)
      BY SMTT(30), <2>1, <2>2, <2>4, <2>5, OffsetsInt DEF ReadAt, WriteAt
    <2>6. CASE Truncate(g) \/ Stat(g) \/ Sync(g)
      <3>1. PICK op \in {"Truncate", "Stat", "Sync"}, len \in Int : Unlocked(g, op, 0, len)
        BY SMTT(30), <2>6, OffsetsInt DEF Truncate, Stat, Sync
      <3>2. op \in Ops /\ op \notin Transfers
        BY DEF Ops, Transfers, Plain
      <3> QED  BY SMTT(30), <3>1, <3>2, <2>4
    <2>7. CASE Read(g)
      BY <2>1, <2>2, <2>3, <2>7 DEF Read, Errors
    <2>8. CASE Write(g)
      BY <2>1, <2>2, <2>3, <2>8 DEF Write, Errors
    <2>9. CASE Close(g)
      BY SMTT(30), <2>1, <2>9 DEF Close, Errors, Transfers
    <2> QED  BY <2>5, <2>6, <2>7, <2>8, <2>9
  <1>2. NewCall(op, off, len) \in CallRecords /\ Exact(NewCall(op, off, len))
    BY <1>1, NewCallType, NewCallExact
  <1> QED  BY <1>1, <1>2, ReturnsExact, SendsExact

\* A call that transfers nothing is exact, whatever its numbers.
LEMMA SeekExact ==
    ASSUME IInv, MInv, NEW g \in Goroutines, Seek(g)
    PROVE  MInv'
  <1>1. PICK off \in {-1, 1, MaxInt} :
            \/ \E err \in Errors : Returns(g, NewCall("Seek", off, 0), err)
            \/ Sends(g, NewCall("Seek", off, 0), "size")
    BY DEF Seek, SeekTo, Errors
  <1>2. off \in Int /\ "Seek" \in Ops
    BY SMTT(30), SizeFits DEF Ops
  <1>3. NewCall("Seek", off, 0) \in CallRecords /\ Exact(NewCall("Seek", off, 0))
    BY SMTT(30), <1>2, NewCallType, NewCallExact DEF Transfers
  <1> QED  BY <1>1, <1>3, ReturnsExact, SendsExact

\* The round trips.
LEMMA TripExact ==
    ASSUME IInv, MInv, NEW g \in Goroutines, RoundTrip(g)
    PROVE  MInv'
  <1> DEFINE c == call[g]
             d == [c EXCEPT !.off = size]
  <1>1. c \in CallRecords /\ Exact(c) /\ size \in Int
    BY DEF IInv, Shape, MInv
  <1>2. CASE SizeReply(g)
    <2>1. d \in CallRecords /\ Exact(d)
      <3>1. ASSUME NEW e \in CallRecords, NEW s \in Int
            PROVE  /\ [e EXCEPT !.off = s] \in CallRecords
                   /\ [e EXCEPT !.off = s].op = e.op /\ [e EXCEPT !.off = s].n = e.n
                   /\ [e EXCEPT !.off = s].len = e.len /\ [e EXCEPT !.off = s].moved = e.moved
        BY DEF CallRecords
      <3> QED  BY <1>1, <3>1 DEF Exact
    <2>2. (\E e \in {c, d}, err \in Errors : Returns(g, e, err)) \/ Sends(g, d, "io")
      BY <1>2 DEF SizeReply, SeekTo, Errors
    <2> HIDE DEF d
    <2> QED  BY <1>1, <2>1, <2>2, ReturnsExact, SendsExact
  <1>3. CASE SizeFails(g) \/ OtherReply(g) \/ Fails(g)
    BY <1>1, <1>3, ReturnsExact, SMTT(30) DEF SizeFails, OtherReply, Fails
  <1>4. CASE ReadReply(g) \/ WriteReply(g)
    <2>1. PICK k \in 0 .. c.len - c.n :
              (\E err \in Errors : Returns(g, Advance(c, k), err)) \/ Sends(g, Advance(c, k), "io")
      BY <1>4 DEF ReadReply, WriteReply, WroteSome, Errors
    <2>2. c.op \in Transfers
      BY <1>4 DEF ReadReply, WriteReply, Transfers
    <2>3. Advance(c, k) \in CallRecords /\ Exact(Advance(c, k))
      BY SMTT(30), <1>1, <2>2, AdvanceType, AdvanceExact
    <2> QED  BY <2>1, <2>3, ReturnsExact, SendsExact, SMTT(30)
  <1>5. CASE ReplyLost(g)
    <2>1. CASE Returns(g, c, "lost")
      BY <1>1, <2>1, ReturnsExact
    <2>2. ASSUME c.op \in Transfers, NEW k \in 1 .. c.len - c.n,
                 Returns(g, [c EXCEPT !.moved = Advance(c, k).moved], "lost")
          PROVE  MInv'
      <3> DEFINE m == Advance(c, k).moved
                 e == [c EXCEPT !.moved = m]
      <3>1. k \in 0 .. c.len - c.n
        BY SMTT(30), <2>2
      <3>2. m = Placed(c.n + k) /\ c.n \in Nat /\ c.n + k \in 0 .. c.len
        BY <1>1, <2>2, <3>1, AdvanceExact
      <3>3. Placed(c.n) \subseteq m /\ m \subseteq Placed(c.len)
        BY SMTT(30), <1>1, <3>1, <3>2, PlacedWithin DEF CallRecords
      <3> HIDE DEF m
      <3>4. e.op = c.op /\ e.n = c.n /\ e.len = c.len /\ e.moved = m
        BY <1>1 DEF CallRecords
      <3>5. ret' = [op |-> e.op, len |-> e.len, n |-> e.n, moved |-> e.moved, err |-> "lost"]
        BY <2>2, <3>4 DEF Returns, m
      <3>6. MovedInPlace'
        BY <3>3, <3>4, <3>5 DEF MovedInPlace
      <3>7. \A h \in Goroutines : Exact(call[h])'
        BY <2>2 DEF Returns, MInv, IInv, Shape, Exact, Idle, Transfers
      <3> QED  BY <3>6, <3>7 DEF MInv
    <2> QED  BY <1>5, <2>1, <2>2 DEF ReplyLost, Transfers
  <1> QED  BY <1>2, <1>3, <1>4, <1>5 DEF RoundTrip

\* Every action keeps MInv.
LEMMA StepMInv == IInv /\ MInv /\ [Next]_vars => MInv'
  <1> SUFFICES ASSUME IInv, MInv, [Next]_vars
               PROVE  MInv'
    OBVIOUS
  <1>1. CASE UNCHANGED call /\ ret' \in {ret, NoResult}
    <2>1. MovedInPlace'
      BY SMTT(30), <1>1 DEF MInv, MovedInPlace, NoResult, Transfers
    <2>2. \A g \in Goroutines : Exact(call[g])'
      BY <1>1 DEF MInv, Exact
    <2> QED  BY <2>1, <2>2 DEF MInv
  <1>2. ASSUME NEW g \in Goroutines,
               \/ ReadAt(g) \/ WriteAt(g) \/ Truncate(g) \/ Stat(g) \/ Sync(g)
               \/ Read(g) \/ Write(g) \/ Close(g)
        PROVE  MInv'
    BY <1>2, BeginExact
  <1>3. ASSUME NEW g \in Goroutines, Seek(g)
        PROVE  MInv'
    BY <1>3, SeekExact
  <1>4. ASSUME NEW g \in Goroutines, RoundTrip(g)
        PROVE  MInv'
    BY <1>4, TripExact
  <1>5. Resolve \/ Open \/ openConfirm \/ OpenTruncate \/ OpenClose \/ Foreign \/ Failed
        \/ UNCHANGED vars => UNCHANGED call /\ ret' \in {ret, NoResult}
    BY DEF Resolve, Open, openConfirm, OpenTruncate, OpenClose, Foreign, Failed, vars, handleVars
  <1> QED  BY <1>1, <1>2, <1>3, <1>4, <1>5 DEF Next

\* ReadAt, Read and the loop of writeAt: byte k of p goes to or comes from
\* position off + k, for every length, size and split of the transfer.
THEOREM MovedInPlaceThm == Spec => []MovedInPlace
  <1>1. Init => MInv
    BY SMTT(30) DEF Init, MInv, MovedInPlace, NoResult, Transfers, Exact, Idle
  <1>2. MInv => MovedInPlace
    BY DEF MInv
  <1> QED  BY <1>1, <1>2, InitIInv, StepIInv, StepMInv, PTL DEF Spec
=============================================================================
