-------------------------------- MODULE File --------------------------------
(***************************************************************************)
(* RWFS.OpenFile and the File handle (client/file.go) used by several      *)
(* goroutines, over the operations of nfs4.Conn, against a server file     *)
(* that other clients change too.                                          *)
(*                                                                         *)
(* Of the file only its size is kept, and of a transfer which byte of p    *)
(* went to, or came from, which position: <<k, position - off>>.  A round  *)
(* trip is one step.  A goroutine that waits for f.mu has not begun its    *)
(* call.                                                                   *)
(***************************************************************************)
EXTENDS Integers

CONSTANTS
    Goroutines,
    Nobody,      \* f.mu is free
    Flags,       \* the flags OpenFile is called with
    MaxSize,     \* the server's limit on the size of a file
    MaxLen,      \* bound: len(p)
    Offsets,     \* the offsets and sizes that calls are made with
    MaxInt       \* the largest int64

ASSUME FlagsKnown ==
    Flags \subseteq [access : {"r", "w", "rw"}, create : BOOLEAN, excl : BOOLEAN,
                     trunc : BOOLEAN, append : BOOLEAN]
ASSUME MaxLenNat == MaxLen \in Nat
ASSUME OffsetsInt == Offsets \subseteq Int
ASSUME SizeFits == MaxSize \in Nat /\ MaxInt \in Nat /\ MaxSize <= MaxInt
ASSUME NobodyElse == Nobody \notin Goroutines

VARIABLES
    flag,     \* File.flag
    opening,  \* where OpenFile is, "ready" or "failed" once it has returned
    size,     \* of the server's file, Absent if there is none
    open,     \* the server's open state: "none", "unconfirmed", "open", "closed"
    mu,       \* the goroutine that holds f.mu across a round trip
    offset,   \* File.offset
    closed,   \* File.closed
    call,     \* the call of each goroutine
    ret,      \* the result, in a state in which a call has just returned
    closes,   \* CLOSEs sent
    mishap    \* "open": Conn.Open failed although the server had granted the OPEN;
              \* "close": the CLOSE failed; else "none"

handleVars == <<mu, offset, closed>>
vars == <<flag, opening, size, open, handleVars, call, ret, closes, mishap>>

Absent == -1
Idle == [op |-> "none", step |-> "none", off |-> 0, len |-> 0, n |-> 0, moved |-> {}]
NoResult == [op |-> "none", len |-> 0, n |-> 0, moved |-> {}, err |-> "nil"]
Transfers == {"ReadAt", "Read", "WriteAt", "Write"}
Locked == {"Read", "Write", "Seek"}
Plain == {"Stat", "Sync"}

\* int64 addition of a number that is not negative and any other.
Add64(a, b) == IF a + b > MaxInt THEN a + b - 2 * (MaxInt + 1) ELSE a + b

\* The first n bytes of p, each in its place.
Placed(n) == {<<k, k>> : k \in 0 .. n - 1}

Init ==
    /\ flag \in Flags
    /\ opening = "resolve"
    /\ size \in {Absent} \cup 0 .. MaxSize
    /\ open = "none"
    /\ mu = Nobody /\ offset = 0 /\ closed = FALSE
    /\ call = [g \in Goroutines |-> Idle]
    /\ ret = NoResult
    /\ closes = 0 /\ mishap = "none"
-----------------------------------------------------------------------------
(* OpenFile: the parent is looked up, OPEN (and OPEN_CONFIRM when the      *)
(* server asks for it), then Truncate(0), and Close should that fail.      *)

\* An error that OpenFile returns.
OpenFails(why) == opening' = "failed" /\ mishap' = why

Resolve ==
    /\ opening = "resolve"
    /\ \/ opening' = "open" /\ UNCHANGED mishap
       \/ OpenFails("none")
    /\ UNCHANGED <<flag, size, open, handleVars, call, ret, closes>>

Opened == IF flag.trunc /\ flag.access # "r" THEN "truncate" ELSE "ready"

\* The server's OPEN: GUARDED refuses an existing file, NOCREATE an absent one.
OpenGranted == IF size = Absent THEN flag.create ELSE ~(flag.create /\ flag.excl)

\* Conn.Open: PUTFH, OPEN and GETFH.  It returns the error of a granted OPEN whose
\* answer is lost or whose GETFH is refused, and sends no CLOSE.
Open ==
    /\ opening = "open"
    /\ \/ /\ OpenGranted
          /\ size' = IF size = Absent THEN 0 ELSE size
          /\ \/ open' = "open" /\ opening' = Opened /\ UNCHANGED mishap
             \/ open' = "unconfirmed" /\ opening' = "confirm" /\ UNCHANGED mishap
             \/ open' \in {"open", "unconfirmed"} /\ OpenFails("open")
       \/ OpenFails("none") /\ UNCHANGED <<size, open>>
    /\ UNCHANGED <<flag, handleVars, call, ret, closes>>

openConfirm ==
    /\ opening = "confirm"
    /\ \/ open' = "open" /\ opening' = Opened /\ UNCHANGED mishap
       \/ open' \in {"open", open} /\ OpenFails("open")
    /\ UNCHANGED <<flag, size, handleVars, call, ret, closes>>

\* Truncate(0) failed: OpenFile forgets the handle without closing it.
BugOpenTruncateFails ==
    opening' = "failed" /\ UNCHANGED <<closed, closes>>

OpenTruncateFails ==
    opening' = "close" /\ closed' = TRUE /\ closes' = closes + 1

OpenTruncate ==
    /\ opening = "truncate"
    /\ \/ size' = 0 /\ opening' = "ready" /\ UNCHANGED <<closed, closes>>
       \/ OpenTruncateFails /\ size' \in {size, 0}
    /\ UNCHANGED <<flag, open, mu, offset, call, ret, mishap>>

OpenClose ==
    /\ opening = "close"
    /\ \/ open' = "closed" /\ OpenFails("none")
       \/ open' \in {open, "closed"} /\ OpenFails("close")
    /\ UNCHANGED <<flag, size, handleVars, call, ret, closes>>
-----------------------------------------------------------------------------
(* The calls.  Each begins with the lock and the check of f.closed; Read,  *)
(* Write and Seek keep the lock until they return.                         *)

Ready(g) == opening = "ready" /\ call[g] = Idle /\ mu = Nobody

\* The call c of g returns; a locked one releases f.mu.
Returns(g, c, err) ==
    /\ ret' = IF c.op \in Transfers
              THEN [op |-> c.op, len |-> c.len, n |-> c.n, moved |-> c.moved, err |-> err]
              ELSE NoResult
    /\ call' = [call EXCEPT ![g] = Idle]
    /\ mu' = IF mu = g THEN Nobody ELSE mu

Sends(g, c, step) ==
    /\ call' = [call EXCEPT ![g] = [c EXCEPT !.step = step]]
    /\ mu' = IF c.op \in Locked THEN g ELSE mu
    /\ ret' = NoResult

NewCall(op, off, len) == [Idle EXCEPT !.op = op, !.off = off, !.len = len]

\* ReadAt, WriteAt, Truncate, Stat and Sync let go of the lock after the check.
Unlocked(g, op, off, len) ==
    LET c == NewCall(op, off, len) IN
    /\ Ready(g)
    /\ \/ closed /\ Returns(g, c, "closed")
       \/ ~closed /\ (off < 0 \/ len < 0) /\ Returns(g, c, "invalid")
       \/ ~closed /\ off >= 0 /\ op \in Transfers /\ len = 0 /\ Returns(g, c, "nil")
       \/ ~closed /\ off >= 0 /\ (IF op \in Transfers THEN len > 0 ELSE len >= 0)
             /\ Sends(g, c, "io")
    /\ UNCHANGED <<flag, opening, size, open, offset, closed, closes, mishap>>

ReadAt(g) == \E off \in Offsets, len \in 0 .. MaxLen : Unlocked(g, "ReadAt", off, len)
WriteAt(g) == \E off \in Offsets, len \in 0 .. MaxLen : Unlocked(g, "WriteAt", off, len)
Truncate(g) == \E sz \in Offsets : Unlocked(g, "Truncate", 0, sz)
Stat(g) == Unlocked(g, "Stat", 0, 0)
Sync(g) == Unlocked(g, "Sync", 0, 0)

Read(g) ==
    /\ Ready(g)
    /\ \E len \in 0 .. MaxLen :
          LET c == NewCall("Read", offset, len) IN
          \/ closed /\ Returns(g, c, "closed")
          \/ ~closed /\ len = 0 /\ Returns(g, c, "nil")
          \/ ~closed /\ len > 0 /\ Sends(g, c, "io")
    /\ UNCHANGED <<flag, opening, size, open, offset, closed, closes, mishap>>

\* Write does not keep f.mu during its round trips.
BugWrite(g) ==
    /\ Ready(g)
    /\ \E len \in 0 .. MaxLen :
          LET c == NewCall("Write", offset, len) IN
          \/ closed /\ Returns(g, c, "closed")
          \/ ~closed /\ call' = [call EXCEPT ![g] = [c EXCEPT !.step = "io"]]
                /\ ret' = NoResult /\ UNCHANGED mu
    /\ UNCHANGED <<flag, opening, size, open, offset, closed, closes, mishap>>

Write(g) ==
    /\ Ready(g)
    /\ \E len \in 0 .. MaxLen :
          LET c == NewCall("Write", offset, len) IN
          \/ closed /\ Returns(g, c, "closed")
          \/ ~closed /\ flag.append /\ Sends(g, c, "size")
          \/ ~closed /\ ~flag.append /\ len = 0 /\ Returns(g, c, "nil")
          \/ ~closed /\ ~flag.append /\ len > 0 /\ Sends(g, c, "io")
    /\ UNCHANGED <<flag, opening, size, open, offset, closed, closes, mishap>>

\* The end of Seek: the new position, unless it is negative.
SeekTo(g, c, base) ==
    LET abs == Add64(base, c.off) IN
    \/ abs < 0 /\ Returns(g, c, "invalid") /\ UNCHANGED offset
    \/ abs >= 0 /\ offset' = abs /\ Returns(g, c, "nil")

\* A Seek that does not wait for the lock.
BugSeek(g) ==
    /\ opening = "ready" /\ call[g] = Idle /\ ~closed
    /\ offset' = 0
    /\ UNCHANGED <<flag, opening, size, open, mu, closed, call, ret, closes, mishap>>

Seek(g) ==
    /\ Ready(g)
    /\ \E off \in {-1, 1, MaxInt} :
          LET c == NewCall("Seek", off, 0) IN
          \/ closed /\ Returns(g, c, "closed") /\ UNCHANGED offset
          \/ ~closed /\ \E base \in {0, offset} : SeekTo(g, c, base)
          \/ ~closed /\ Sends(g, c, "size") /\ UNCHANGED offset
          \/ ~closed /\ Returns(g, c, "invalid") /\ UNCHANGED offset
    /\ UNCHANGED <<flag, opening, size, open, closed, closes, mishap>>

\* Close marks the handle closed only when the server has answered.
BugClose(g) ==
    /\ Ready(g)
    /\ ~closed
    /\ Sends(g, NewCall("Close", 0, 0), "io")
    /\ closes' = closes + 1
    /\ UNCHANGED <<flag, opening, size, open, offset, closed, mishap>>

Close(g) ==
    /\ Ready(g)
    /\ closed' = TRUE
    /\ \/ closed /\ Returns(g, NewCall("Close", 0, 0), "closed") /\ UNCHANGED closes
       \/ ~closed /\ Sends(g, NewCall("Close", 0, 0), "io") /\ closes' = closes + 1
    /\ UNCHANGED <<flag, opening, size, open, offset, mishap>>
-----------------------------------------------------------------------------
(* The round trips.                                                        *)

\* size(): GETATTR, for an append and for Seek from the end.
SizeReply(g) ==
    LET c == call[g] IN
    /\ c.step = "size"
    /\ \/ c.op = "Seek" /\ SeekTo(g, c, size)
       \/ /\ c.op = "Write"
          /\ \/ c.len > 0 /\ Sends(g, [c EXCEPT !.off = size], "io") /\ UNCHANGED offset
             \/ /\ c.len = 0
                /\ Returns(g, [c EXCEPT !.off = size], "nil")
                /\ offset' = size
    /\ UNCHANGED <<flag, opening, size, open, closed, closes, mishap>>

SizeFails(g) ==
    /\ call[g].step = "size"
    /\ Returns(g, call[g], "status")
    /\ UNCHANGED <<flag, opening, size, open, offset, closed, closes, mishap>>

\* Where the next READ or WRITE of the call c starts.
BugNextOffset(c) == c.off

NextOffset(c) == c.off + c.n

\* The call after k more bytes have been transferred.
Advance(c, k) ==
    [c EXCEPT !.n = @ + k,
              !.moved = @ \cup {<<c.n + i, NextOffset(c) + i - c.off>> : i \in 0 .. k - 1}]

\* Read and Write move the offset, Write also when it fails.
MoveOffset(c, err) ==
    offset' = IF c.op = "Write" \/ (c.op = "Read" /\ err = "nil")
              THEN Add64(c.off, c.n) ELSE offset

ReadReply(g) ==
    LET c == call[g]
        left == size - NextOffset(c)
    IN
    /\ c.step = "io" /\ c.op \in {"ReadAt", "Read"}
    /\ \E k \in 0 .. c.len - c.n, eof \in BOOLEAN :
          LET d == Advance(c, k) IN
          /\ k = 0 \/ k <= left
          /\ k = 0 => left <= 0
          /\ eof => k >= left
          /\ \/ c.op = "ReadAt" /\ (eof \/ k = 0) /\ Returns(g, d, "EOF")
             \/ c.op = "ReadAt" /\ ~eof /\ k > 0 /\ d.n = c.len /\ Returns(g, d, "nil")
             \/ c.op = "ReadAt" /\ ~eof /\ k > 0 /\ d.n < c.len /\ Sends(g, d, "io")
             \/ c.op = "Read" /\ k = 0 /\ Returns(g, d, "EOF")
             \/ c.op = "Read" /\ k > 0 /\ Returns(g, d, "nil")
          /\ MoveOffset(d, "nil")
    /\ UNCHANGED <<flag, opening, size, open, closed, closes, mishap>>

\* The server takes WRITEs and size changes of an open that allows them.
Writable == open = "open" /\ flag.access # "r"

Stored(pos, k) == IF k > 0 /\ pos + k > size THEN pos + k ELSE size

\* writeAt asks again when the server has stored nothing.
BugWroteSome(g, d, k) ==
    IF d.n = d.len THEN Returns(g, d, "nil") ELSE Sends(g, d, "io")

\* The loop of writeAt after a WRITE that stored k bytes.
WroteSome(g, d, k) ==
    \/ k = 0 /\ Returns(g, d, "short")
    \/ k > 0 /\ d.n = d.len /\ Returns(g, d, "nil")
    \/ k > 0 /\ d.n < d.len /\ Sends(g, d, "io")

WriteReply(g) ==
    LET c == call[g] IN
    /\ c.step = "io" /\ c.op \in {"WriteAt", "Write"} /\ Writable
    /\ \E k \in 0 .. c.len - c.n :
          LET d == Advance(c, k) IN
          /\ NextOffset(c) + k <= MaxSize
          /\ size' = Stored(NextOffset(c), k)
          /\ WroteSome(g, d, k)
          /\ IF call'[g] = Idle THEN MoveOffset(d, "nil") ELSE UNCHANGED offset
    /\ UNCHANGED <<flag, opening, open, closed, closes, mishap>>

\* SETATTR, GETATTR, COMMIT and CLOSE.
OtherReply(g) ==
    LET c == call[g] IN
    /\ c.step = "io"
    /\ \/ c.op = "Truncate" /\ Writable /\ size' = c.len /\ UNCHANGED open
       \/ c.op \in Plain /\ UNCHANGED <<size, open>>
       \/ c.op = "Close" /\ open' = "closed" /\ UNCHANGED size
    /\ Returns(g, c, "nil")
    /\ UNCHANGED <<flag, opening, offset, closed, closes, mishap>>

\* The server refuses, or the request never reaches it.
Fails(g) ==
    LET c == call[g] IN
    /\ c.step = "io"
    /\ mishap' = IF c.op = "Close" THEN "close" ELSE mishap
    /\ Returns(g, c, "status")
    /\ MoveOffset(c, "status")
    /\ UNCHANGED <<flag, opening, size, open, closed, closes>>

\* The server has acted but its answer is lost.
ReplyLost(g) ==
    LET c == call[g] IN
    /\ c.step = "io"
    /\ \/ /\ c.op \in {"WriteAt", "Write"} /\ Writable
          /\ \E k \in 1 .. c.len - c.n :
                /\ NextOffset(c) + k <= MaxSize
                /\ size' = Stored(NextOffset(c), k)
                /\ Returns(g, [c EXCEPT !.moved = Advance(c, k).moved], "lost")
          /\ UNCHANGED open
       \/ c.op = "Truncate" /\ Writable /\ size' = c.len /\ Returns(g, c, "lost") /\ UNCHANGED open
       \/ c.op = "Close" /\ open' = "closed" /\ Returns(g, c, "lost") /\ UNCHANGED size
    /\ MoveOffset(c, "lost")
    /\ UNCHANGED <<flag, opening, closed, closes, mishap>>

\* Another client appends to the file or truncates it (external).
Foreign ==
    /\ size # Absent
    /\ \/ size < MaxSize /\ size' = size + 1
       \/ size > 0 /\ size' = 0
    /\ ret' = NoResult
    /\ UNCHANGED <<flag, opening, open, handleVars, call, closes, mishap>>

\* OpenFile has failed and nothing is left to do.
Failed == opening = "failed" /\ UNCHANGED vars

RoundTrip(g) ==
    \/ SizeReply(g) \/ SizeFails(g) \/ ReadReply(g) \/ WriteReply(g)
    \/ OtherReply(g) \/ Fails(g) \/ ReplyLost(g)

Next ==
    \/ Resolve \/ Open \/ openConfirm \/ OpenTruncate \/ OpenClose \/ Foreign \/ Failed
    \/ \E g \in Goroutines :
          \/ ReadAt(g) \/ WriteAt(g) \/ Truncate(g) \/ Stat(g) \/ Sync(g)
          \/ Read(g) \/ Write(g) \/ Seek(g) \/ Close(g)
          \/ RoundTrip(g)

Spec == Init /\ [][Next]_vars

\* Fairness: round trips end, because the context of the File bounds them.
FairSpec == Spec /\ \A g \in Goroutines : WF_vars(RoundTrip(g))
-----------------------------------------------------------------------------
\* File.writeAt, ReadAt: byte k of p is transferred to or from position off + k
\* and no other, through any number of short READs and WRITEs; and the count
\* returned is exact unless an answer was lost, when it may be too small.
MovedInPlace ==
    ret.op \in Transfers =>
        /\ Placed(ret.n) \subseteq ret.moved
        /\ ret.moved \subseteq Placed(ret.len)
        /\ ret.err # "lost" => ret.moved = Placed(ret.n)

\* f.mu: the offset at which a Read or Write was sent is still the handle's when
\* the answer arrives, so sequential calls of several goroutines follow one
\* another without gap or overlap.
OffsetOwned ==
    \A g \in Goroutines :
        \/ call[g].op = "Read"
        \/ call[g].op = "Write" /\ ~flag.append
        => call[g].off = offset

\* f.mu: Close waits for the Read, Write or Seek in progress, and none begins
\* after it.
QuietOnceClosed == closed => \A g \in Goroutines : call[g].op \notin Locked

\* Close: whoever calls it, and however often, one CLOSE is sent.
OneClose == closes <= 1

\* The server has an open that nobody can close any more: OpenFile has failed, or
\* the handle is marked closed and no Close is under way.
OpenLeft ==
    /\ open \in {"unconfirmed", "open"}
    /\ \/ opening = "failed"
       \/ opening = "ready" /\ closed /\ \A g \in Goroutines : call[g].op # "Close"

\* OpenFile, Close: an open stays behind at the server only if Conn.Open itself
\* failed after the OPEN, so that nobody was given its stateid, or if the one
\* CLOSE was sent and failed: no other error, and no race of two Closes, loses it.
NoOpenLeft ==
    OpenLeft => \/ mishap = "open" /\ closes = 0
                \/ mishap = "close" /\ closes = 1

\* ReadAt, writeAt: the loops end however little the server transfers at a time.
CallsReturn == \A g \in Goroutines : call[g] # Idle ~> call[g] = Idle
=============================================================================
