# Verification of go-nfs-client

TLA+ models of the NFSv4 client in `src/`, model-checked with TLC on small
instances and, for eight components, proved with TLAPS for every value of the
constants. Paths below are relative to `src/`.

## The system

A call of the file API goes down through these layers:

    client.FS, client.RWFS, client.File     client/fs.go, file.go, client.go
    client.LeaseManager (beside it)         client/lease.go
    nfs4.Conn                               nfs4/conn.go, conn_write.go
    retryCaller                             nfs4/retry.go
    sessionCaller, Session (v4.1 only)      nfs4/session.go
    RPCCaller                               nfs4/transport.go, compound.go
    rpc.Client                              rpc/client.go
    record marking, messages, XDR           rpc/record.go, message.go, xdr/

| Part | State | Operations | What is hard |
| --- | --- | --- | --- |
| `Session` | slot table, tokens, `highest` | `AcquireSlot`, `Done`, `Retry` | tokens and `inUse` bits change in different critical sections |
| `sessionCaller` | leases, the server's slots | `CallCompound` | which failures advance the sequence id; replays |
| `retryCaller` | attempt, delay, context | `CallCompound` | limits, cancellation anywhere |
| `rpc.Client` | mutex, xid, one stream | `Call`, `Close`, `SetDeadline` | an I/O goroutine that outlives its call; late replies |
| `LeaseManager` | timer, stop channel, stateids | `Start`, `Stop`, `WithRetry`, table | time; Stop against a RENEW in flight; concurrent recoveries |
| `Conn` | client id, confirm, session, caller chain | `Mount`, `Close`, operations | fields read back after another mount stored its own |
| `Conn` stateful operations | open-owner seqid | `Open`, `openConfirm`, `CloseFile` | seqids taken before the call is ordered |
| `File` | offset, closed | `Read`, `Write`, `Seek`, `Close`, ... | checks before an unlock, append in two round trips |
| `FS` | directory position | `Open`, `ReadDir`, ... | paging |
| codecs | sticky errors, lengths | encode, decode | limits, padding, truncated results |

Correctness of the whole: a caller gets the results of its own request or an
error; no resource (slot, token, goroutine) is lost or handed out twice; client
and server agree on slots, client ids and leases; calls end when their contexts
do; and what the server lost is established again.

## Modules

| Module | Models | Kind |
| --- | --- | --- |
| `SessionSlots` | the slot table | component |
| `SlotAllocator` | what the slot table promises | abstract specification |
| `SessionCall` | `sessionCaller.CallCompound` over `SessionSlots`, a connection and the server | composition |
| `RpcClient` | `rpc.Client` with its goroutines, the stream and the server | component |
| `RetryCaller` | `retryCaller` | component |
| `Wire` | XDR, records, RPC headers, COMPOUND, every argument and result | operators |
| `Attrs` | attribute bitmaps, decoding and encoding | operators |
| `Nfs4x` | the protocol's XDR descriptions and a server's replies (external) | reference |
| `Operations` | every method of `Conn`, through `RetryCaller`, `Wire` and `Attrs`, against `Nfs4x` | composition |
| `OpenOwner` | the seqid of the open-owner | component |
| `ConnMount` | `Dial`, `DialAuto`, `Mount`, `Close`, `WithRetry` and the loop's recoveries, the server's client ids | composition |
| `LeaseManager` | the renewal loop, `Stop`, the stateid table, time | component |
| `File` | `OpenFile` and the file handle, used by several goroutines | component |
| `FS` | the read-only `io/fs` view, directories and files that change | component |
| `SessionProofs` | theorems about `SessionSlots` and `SessionCall` | proofs |
| `RpcClientProofs`, `FileProofs`, `FSProofs` | theorems about `RpcClient`, `File` and `FS` | proofs |
| `LoopProofs` | theorems about `RetryCaller` and `LeaseManager` | proofs |
| `ConnMountProofs`, `MountStepProofs`, `MountProofs` | theorems about `ConnMount`, each extending the one before | proofs |
| `MCSessionCall`, `MCOperations`, `MCFile` | symmetry and constants for TLC | |

Definitions named `Bug...` are deliberate faults. No specification uses them;
each shows that a property below can fail.

### SessionSlots

`slots`, `highest` and `free` are the fields of `Session` (the channel is the
number of its tokens); `lease` and `pc` say for each goroutine which lease it
has and where it is. A step is what happens between two points at which another
goroutine can be seen: receiving the token (`TakeToken`), the scan under `s.mu`
(`Scan`), `release` up to `Unlock` (`Release`) and the send (`ReturnToken`).
The branch of `AcquireSlot` that the code calls unreachable is modelled and
shown not to be taken. `SeqMod` stands for 2^32.

`SlotAllocator` has no tokens and no gaps: a free slot gets an owner in one
step, and the owner gives it back in one. A slot's owner is mapped to the
caller that holds an unreleased lease on it.

### SessionCall

Adds to the slot table what a call is about: the compound (`req`), what the
base caller returned (`reply`), the connection, and the server's slots. A round
trip is one step, because `rpc.Client` makes one at a time; if it is cut short
the connection is closed and never reopened, as in `Client.Call`. The server
executes a compound whose sequence id is the next one, answers the last one
from its cache and refuses others. `Faults` selects the answers that occur
besides these: `seqfail` (SEQUENCE refused without using the slot), `noresop` (a
compound status without results), `undecodable` (executed, but the client
cannot decode the results; also a record that `ReadRecord` refuses). `upset`
is a history variable: the slots that met one of these.

### RetryCaller

One call, with every configuration a user may write (`user`) and the one in
force after `withDefaults` (`cfg`). `last` is the outcome of the last attempt,
`slept` and `calls` count what happened. Its specification is `RetrySpec`, from
`RetryInit` and `RetryNext`, so that `Operations` can extend the module.

### RpcClient

`call[t]` is the frame of `Client.Call` in goroutine t, `io[w]` an I/O
goroutine, the two sequences are the directions of the stream. Locking,
`allocXID`, encoding and starting the goroutine are one step: none of them can
be observed before the goroutine writes. A record is one element of a sequence;
a record over the limit leaves debris, because `ReadRecord` consumes its header
only. `SetDeadline` shows as a read that times out with its reply still to come.

### LeaseManager

Time is a number of ticks. Local steps take none; a RENEW takes up to `MaxRTT`
and arrives at the server at any moment of that. `age` is the server's view of
the lease. `Tick` waits for steps that are due. Faults are restarts, failed
calls and a server that hangs, which blocks the loop for good because RENEW has
`context.Background()`.

### ConnMount

The application dials, v4.0, v4.1 or by `DialAuto`, a server that does both versions
or refuses v4.1 in one of three ways; `rpcs` counts the RPC clients that are
open. After that the loop and the users run `Mount` on one `Conn`. `c.mu` is
held for single accesses only, so storing the results of SETCLIENTID or
EXCHANGE_ID and reading them back are separate steps. `conn.chain` is the chain
of `sessionCaller`s that `createSession` builds; the server accepts a compound
with at most one SEQUENCE, of a session it has. It keeps one confirmed and one
unconfirmed client id and forgets both when the lease runs out or it restarts
(`Forget`). All calls share one connection: `up` says that it stands. A round
trip that fails (`TripFails`) may leave it so, when the server or the RPC layer
answered with an error, or end it, when the call was cancelled and `Client.Call`
closed it (rpc/client.go:160-165) or the transport failed; a restart of the
server may end it too. Only `Dial` sets `up`: neither `Conn` nor `LeaseManager`
dials again, and without a connection every round trip fails. `Close` sends its two
compounds one after the other and drops their errors (`TearDown`); `cut` is a
history variable that says one of them failed, before or after the server acted
on it. A refusal with a
status and no resop leaves the results of `exchangeID`, `createSession` and
`reclaimComplete` at their zero values, whose status is NFS4_OK; these calls do
not look at the status of the compound, and only `fetchRootFH` notices.
Client ids are reused once nobody remembers them, which keeps the loop's
endless renewals finite; `IDsEnough` says that there are more than a first mount
can meet. `alone` is a history variable: nothing disturbed this recovery.

### Operations, Wire, Attrs, Nfs4x

A message is a sequence of 32-bit words, as XDR pads everything to whole words;
contents are arbitrary small words, while statuses, discriminants, flags,
counts and lengths mean what they say. `Wire` has one operator for each
`DecodeRes` and `EncodeArg`: a decoder is the words left, the words kept in the
result and the sticky error. What is decoded and dropped in the code is skipped.

`Nfs4x` is written from the protocol's XDR and not from the client: for each
operation the fields of its arguments and, tagged with whether the client keeps
them, those of every arm of its result. It produces the replies that a server
may send to a compound: all operations succeed, in any arm, or one fails and
the compound ends there.

A behaviour of `Operations` is one call of one method (`m`, described by a
record: its compound, the checks it makes of the answer, the results it
returns). The steps of the retry loop are those of `RetryCaller`; an attempt
receives a whole reply in one or two fragments, one that is cut anywhere, a
refusal by the RPC layer, or the refusal of the minor version. `results`
outlives the attempts, as the result variables of the methods do; `applied`
counts how often the server carried out the change. `destroySession` and
`destroyClientID` go beneath the retry loop and with a context that never ends
(`beneath`), so their first answer is their last. An `Open` that must confirm
goes on with `openConfirm`.

### OpenOwner

`nextSeqid` when the arguments are built, the wait for the `rpc.Client`, and the
server, which takes the successor of the last seqid, answers the last one again
and refuses others. `reached` is the history of what it saw.

### File

`opening` is where `OpenFile` is; once it is "ready", goroutines call the
methods of the handle. Taking `f.mu` and the check of `f.closed` begin a call
and are one step with whatever follows locally. `Read`, `Write` and `Seek` keep
`mu` until they return, the others do not. A round trip is one step; the server
transfers any part of what it is asked for, refuses, or acts without its answer
arriving. `Conn.Open` may fail although the server has granted the OPEN: its
answer is lost, GETFH is refused in the same compound, or OPEN_CONFIRM fails. It
then sends no CLOSE and the open stays at the server; `mishap` is a history
variable for that and for a CLOSE that failed. Of the data the model keeps which
byte of `p` met which position of the file, relative to the call's offset; `ret`
holds the result in the state right after a return. `MaxInt` stands for the
largest int64. An append aims at the size that GETATTR returned, so that another
client's append in between is overwritten, although O_APPEND "directs writes to
end-of-file" (client/file.go:107). `ReadAt`, `WriteAt`, `Truncate` and `Sync`
check `closed` and unlock, so they may send after a CLOSE; the code allows it,
the server refuses the closed stateid of WRITE and SETATTR, and
`QuietOnceClosed` is about `Read`, `Write` and `Seek`.

### FS

One goroutine calls the methods of the file system and of the handle that
`Open` returned last. Each `LOOKUP`, `GETATTR`, `READDIR`, `READLINK` and `READ`
is a step and may fail; between them other clients create and remove entries
and resize the file. The directory maps cookies to names; the server cuts its
pages where it likes and sends EOF with the last entry or after it, and may send
a page without entries. A page is the increasing sequence of the cookies it holds
(`Ordered`), and what is appended to the listing is the increasing sequence of
those that are not dots (`Kept`). `stable` and `seen` are history variables: the names that
were there all through the listing, and those that were there at some time.

## Runs

| Run | Shows | Bounds |
| --- | --- | --- |
| `slots` | `SlotExclusive`, `TokenAccounting`, `AcquireReturns` (nobody waits for ever), refinement of `SlotAllocator` | 3 callers on 2 slots, sequence ids modulo 2 |
| `call` | `InSync`: both sides agree on the sequence id of each slot that met no fault; `OwnResults`; `UsesSession`: calls keep to the specification of `SessionSlots` | 2 callers, 2 slots, 2 compounds, modulo 3, all faults |
| `rpc` | `OneReader`, `OwnReply`, `CallReturns`, `WorkersEnd` | 2 callers, 2 goroutines, 2 requests, ids modulo 4, 1 fault |
| `ops` | `AnswerIsOwn`: a success is what the server said to the last attempt; `WholeIsTaken`, `CutIsSeen`: whole replies are taken and cut ones noticed; `RequestIsRead`; `AppliedOnce`: a retry repeats no change; `AttrsRead`; `NoSilentDelay`, `StopsWhenDone` | every method, both minor versions, every arm, every cut, 3 attempts; delays -1 to 5 and 0 to 4 attempts with one of the methods |
| `lease` | `LeaseKept`, `QuietAfterStop`, `ForgottenStays`, `LeaseRegained`, `LoopEnds` | period 12, RENEWs up to 2 (the limit of the headroom), 2 faults, 2 handles |
| `mount` | `Negotiated`, `ClientsClosed`, `ConfirmPaired`, `RetryWorks`, `CloseCleans`, `Settles` | the loop and 1 user with 2 calls, v4.0, v4.1 and `DialAuto`, 4 kinds of server, the server forgets once, 1 failed round trip |
| `file` | `MovedInPlace`, `OffsetOwned`, `QuietOnceClosed`, `OneClose`, `NoOpenLeft`, `CallsReturn` | 2 goroutines, a file of up to 2 bytes, transfers of up to 2, 3 sets of flags |
| `fs` | `ListedOnce`, `ChunksAddUp`, `EofIsFinal`, `CallsEnd` | 2 names and the dots, 4 cookies, files of up to 2 bytes in blocks of 2, 3 changes by others |

The type invariants of `SessionSlots`, `RpcClient`, `RetryCaller` and
`LeaseManager` are proved and not checked again.

Why the bounds are enough. The slot table has one more caller than slots, so
that someone waits while others are in both gaps. Sequence and transaction ids
wrap several times. `XidMod` exceeds the number of replies that faults can
leave in the stream plus the call in progress (`XidModNat`); with 2^32 this is
no restriction. Lists in replies have up to two elements and strings all
lengths modulo 4, so that a decoder that takes a word too many or too few is
out of step with what follows. The limits of `Wire` are above every message:
what they refuse is `RpcClient`'s oversized record. The configurations of the
retry loop do not meet the method's data, so one method has them all. Two
mounts at once are what it takes to overwrite each other's client id, and a
third adds no new kind of step. In `LeaseManager` the tick is the unit in which
the headroom is just used up. In `File` two bytes are what it takes for a
transfer to be continued, and everything else is finite by itself: lost answers
and other clients' changes are not bounded. In `FS` a page of dots only, an empty page, and
an entry removed and created again behind or before the cookie all occur.
`Operations` and `OpenOwner` stop when their calls are over, so their runs do
not look for deadlock.

Fairness. Runnable goroutines run. Strong fairness is assumed for a waiting
goroutine where the Go runtime queues the waiters: receivers of `s.free` and
waiters for `c.mu` (a mutex in starvation mode hands over in order). In
`SessionSlots` a holder releases its lease, because `CallCompound` defers the
release and round trips end. In `RpcClient` contexts end and the server need
not answer. In `LeaseManager` and `ConnMount` time passes and a server that
does not hang answers. In `File` and `FS` round trips end with the context.
`Settles` needs the number of users' calls and of the times the server forgets
to be finite: two recoveries may overwrite each other as often as they run
together. It is also restricted to a connection that stands: once that is lost
the `Conn` can recover nothing. `LeaseRegained` has the same limit. It takes
`Renew` and `Recover` as functions that reach the server again after a failed
call, which over a broken connection they would do only by dialing. `CallsEnd`
needs the changes of others to be finite, since a directory that grows
faster than it is read has no end.

### Where the code and its comments disagree

These runs end in a counterexample.

| Run | Property | What happens |
| --- | --- | --- |
| `call_wedge` | `NotWedged` | A SEQUENCE that the server refuses without using the slot (DELAY, for one) advances the client only; the slot is out of step for good, though the code advances "to avoid wedging the slot" (nfs4/session.go:211-213). |
| `lease_session` | `LeaseRegained` | BADSESSION is "handled by higher layers" (nfs4/session.go:211-212), but `isClientStateLost` does not know it. |
| `owner_order` | `AdvanceByOne` | Seqids are to "advance by one on each OPEN/CLOSE" (nfs4/conn_write.go:24-25); two goroutines take theirs in one order and reach the server in the other, and the seqid of a compound that fails before its OPEN is skipped. |
| `settimes` | `TimesSettable` | `EncodeFattr` sends times to set under the numbers of the read-only TIME_ACCESS and TIME_MODIFY; they are among "the attributes a client may set" (nfs4/attr/encode.go:30-31). |

Not runs of their own, but visible in the models, which follow the code:

- `SessionSlots`: a lease carries the highest slot ever used; the comment says
  "the highest in-use slot id" (nfs4/session.go:84-87).
- `SessionCall`: after an error the used (slot, seq) goes to the next call, with
  another compound; "the same request can be safely re-sent"
  (nfs4/session.go:73-75). `OwnResults` therefore leaves out slots in `upset`.
- `RetryCaller`: `MaxAttempts` below one becomes the default of ten ("A value < 1
  is treated as 1", nfs4/retry.go:40-41), and an `Initial` above `Max` is slept
  in full ("Max caps the backoff delay", nfs4/retry.go:38), which is why
  `BackoffBounded` says "Initial or at most Max".
- `ConnMount`: a second v4.1 `Mount` sends EXCHANGE_ID through the old session
  and stacks a second `sessionCaller`, though these compounds "must not carry
  SEQUENCE" (nfs4/conn.go:181-184). Hence `RetryWorks` is about v4.0 recoveries
  and first mounts. Of first mounts it leaves out those that cannot work
  (`Hopeless`): a v4.1 `Dial` of a server without v4.1, and OP_ILLEGAL, below.
- `ConnMount`: a server that answers EXCHANGE_ID with OP_ILLEGAL is meant to
  make `DialAuto` fall back (nfs4/transport.go:54-58), but the resop then has
  another opnum, `DecodeCompound` fails, and its error has no status.
- `ConnMount`, `SessionCall`: a cancelled call closes the connection, which "is no
  longer reusable" (rpc/client.go:162-163), for the lease loop and all other
  users of the `Conn` as well, and nothing dials again. `LeaseManager` promises
  "transparent recovery" (client/lease.go:55-57); with `Conn.Mount` for `Recover`,
  as its configuration suggests, there is none after that.
- `ConnMount`: a v4.1 `Dial` that fails after CREATE_SESSION closes the
  connection and leaves its session at the server until the lease runs out.
- `Wire`: OPEN_DELEGATE_NONE_EXT of v4.1 has a body that `OpenRes` does not
  read; `Nfs4x` does not send it, as servers do so only when the client has
  stated its wishes about delegations, which this one does not.
- `File`: `Conn.Open` returns the error of a refused GETFH or OPEN_CONFIRM and
  sends no CLOSE for the OPEN that was granted (nfs4/conn_write.go:81-98), so
  `NoOpenLeft` excepts it.
- `File`: `WriteAt` "returns a short write error if the server reports fewer
  bytes written than requested" (client/file.go:272-274); it goes on writing
  instead, and only a WRITE of no bytes is that error.
- `FS`: entries come in the server's order, while `fs.ReadDirFS` asks for them
  sorted by name. `Stat` does not follow symbolic links and is the same as
  `Lstat`. A page with neither entries nor EOF ends the listing (fs.go:219).
- `client.Mount` looks the export up and drops its handle, so the file system
  is rooted at the pseudo-root and not "at the export" (client/client.go:77).

`AppliedOnce` rests on a fact about the compounds, not on the retry loop: in
none of them does an operation that may answer DELAY follow the change. An
OPEN that was answered DELAY is sent again with the seqid it had.

## Proofs

Each theorem has the form `Spec => []P` (or `Spec =>` an action property or
specification) and is proved from an inductive invariant `IInv`: it holds
initially, every action keeps it, and it implies `P`. All constants are
arbitrary but for the `ASSUME`s of the module, which say that bounds are numbers,
that sets are disjoint where the code tells their elements apart, and what is
mentioned below.

### SessionProofs

`SlotsSpec`, the specification of the slot table, for any finite set of callers,
any slot count and any modulus above one:
`TypeCorrect`, `SlotsAreExclusive`, `TokensAccounted`, `FallbackUnreachable`,
`ReleaseNeverBlocks`, `LeasesAreFresh` and `Refinement`. The invariant is the
conjunction of the type invariant, exclusiveness, the accounting and freshness.
`TokenAccounting` carries the argument: it counts free slots, tokens and the
callers in the two gaps, so its step is a fact about the cardinalities of sets of
callers (`MoveCounts`). That the fallback is not taken and the send does not block
follow from it: a scanning caller means a free slot, a returning one means a
missing token. Under the refinement mapping `Lease` is `Acquire`, `Release` is
`GiveBack`, all else is a stutter.

`SessionIsUsed` shows that the calls keep to that specification, step by step, so
all of this holds of them too. `SlotsInSync` and `ResultsAreOwn` build on it.
`InSync` needs two facts about the session, that the holder of a slot is the only
one to move it and that its lease has the slot's id, and two about the call: it
has a reply only while it holds the lease (`CallInv`), and a reply that makes
`Finish` advance an id the server did not use has put the slot into `upset`
(`FaultInv`). `OwnResults` follows: the server answers from its cache only what
is out of step. `OnlyFaultsWedge` is the other side of the run `call_wedge`: with
no `Faults`, `NotWedged` holds, whatever connections are lost and calls cancelled.

### RpcClientProofs

For any callers, goroutines and requests: `TypeOKThm`, `OneReaderThm` and
`OwnReplyThm`. `OneReader` needs `LockInv`: a call waits for its goroutine exactly
while it holds `c.mu`. A call that gives `c.mu` up before its goroutine is done
has closed the connection, and `OneReader` asks nothing of a closed one.
`OwnReply` is about ids that come round. `AgeInv` gives each record in transit, in
the order in which they will be read, an age: how many ids were given out since
its own. The age of the record at place k is at most the number of faults so far
less k, and one more while a call is busy, because only a fault leaves a record
behind. `XidModNat` makes the ids outnumber the faults, so a record with the
newest id is the newest (`MineInv`): `decodeReply`, which compares ids, accepts no
other.

### LoopProofs

`RetryCaller`, for any configurations and positive defaults: its type
(`RetryTypeCorrect`), bounds on attempts
and delays (`RetriesBounded`, `SleepsBounded`, `DelaysGrow`), what is resent
(`ResendsOnlyRetriable`), what is returned (`DelaySurfaces`), and that at most one
base call begins after the context has ended (`ContextIsHonored`). The invariant
ties `calls` and `slept` to the loop variable and the delay to `Initial` and `Max`.
The run `ops` checks two of these properties on `Operations`, whose calls add to
the loop what an attempt receives and what the server does; the theorems are
about `RetrySpec`, the loop by itself with any outcome of an attempt.

`LeaseManager`, for any period and any `MaxRTT` within the headroom
(`renewInterval + 2 * MaxRTT <= Lease`): `LeaseIsKept`, `OneRenewAfterStop`,
`StopIsQuiet`, `ForgottenForGood`. `LeaseKept` is not inductive; `Timing` bounds
the age by the timer while the loop waits, by the RENEW's own age while it is
on its way, and by that alone once it has arrived. The factor two is the worst
case: one RENEW that arrives at once and the next that arrives at its end.

### ConnMountProofs, MountStepProofs, MountProofs

For any number of users, calls, faults and times the server forgets. `ConfirmPairedThm`,
`NegotiatedThm`, `ClientsClosedThm`: `PairInv` says that the two values are stored
and read together, in the `Conn` as in a mount that holds them. `DialInv` says
that until the first mount has succeeded one goroutine dials alone and nobody
closes, which is why a failed mount may drop the `Conn` and its RPC client.
`NegInv` follows a v4.1 attempt against a server that refuses it: only the refusal
without resops gets past EXCHANGE_ID, and it never gets past `fetchRootFH`.

`RetryWorksThm` and `CloseCleansThm` rest on these and on `Mount41`. Its part
`RetryInv` says of a mount that nothing disturbs that nobody else is mounting and,
at each of its steps (`SoundAt`), that what it holds is what the server has: the
id it stores and reads back is the unconfirmed one, the session it installs is
the server's, and the second call of fn names the confirmed id. So no step of it
is refused. `CleanInv` follows the only v4.1 mount in the same way (`CleanAt`) and
then Close (`CleanUp`): the server has the client id and session of the `Conn`, or
has forgotten both, until DESTROY_SESSION and then DESTROY_CLIENTID
take them away. That the first mount gets a session at all needs a fresh id
(`FreshId`, from `IDsEnough`): at most three are in use.

Each action is a lemma. What a mount's step, a failing one, a step of an
operation and one in which no goroutine moves have to leave alone is defined once
(`MountKeeps`, `GivesUp`, `OperationKeeps`, `QuietKeeps`), with a lemma that such a
step keeps `Mount41`.

### FileProofs

For any goroutines, flags, offsets and lengths: `OffsetOwnedThm`,
`QuietOnceClosedThm`, `OneCloseThm`, `NoOpenLeftThm`, `MovedInPlaceThm`. The
first two rest on `LockInv` (a goroutine in `Read`, `Write` or `Seek` holds
`f.mu`), the next two on what is closed and open in each phase of `OpenFile`
(`CloseInv`, `OpenInv`). `NoOpenLeft` names the two ways in which an open can
stay behind, and `OpenInv` shows that there is no third: wherever `OpenFile`
goes on after an OPEN it ends in a handle or in a CLOSE. `MovedInPlace` speaks
of calls that have returned; `MInv` adds the same of calls under way (`Exact`):
the bytes moved so far are the first n.

### FSProofs

For any names, cookies, lengths and counts, any cutting of the pages and any
changes by others: `ListedOnceThm`, `ChunksAddUpThm`, `EofIsFinalThm`.
`ListedOnce` speaks of a listing that has been returned; `ListInv` says of one
under way that an entry that stayed is in it exactly once if its cookie is at or
below the loop's, and not at all otherwise. A page has every entry between its
first cookie and `NextCookie` and no other (`PageEnds`), so the step from one cookie
to the next lists each of them once. `HandleInv` says where a handle stands: the
entries delivered are the first `pos` of the listing, and a file at EOF says so.
No protocol status becomes io.EOF (`StatusesKnown`).

### Only model-checked

- The liveness properties (`AcquireReturns`, `CallReturns`, `WorkersEnd`,
  `LeaseRegained`, `LoopEnds`, `Settles`, `CallsReturn`, `CallsEnd`): fairness and
  `ENABLED` are out of the prover's reach.
- `AnswerIsOwn`, `WholeIsTaken`, `CutIsSeen`, `RequestIsRead`, `AppliedOnce` and
  `AttrsRead` of `Operations`. They say what the decoders and encoders of `Wire` and
  `Attrs` compute; these recurse over the data, and what a recursive operator
  computes for every input takes an induction that the prover cannot do.
- `OpenOwner`, of which there is only a counterexample.

## Not modelled

- The `io/fs` view of decoded attributes (`FileMode`, `FileInfo`) and the block
  arithmetic of `Statvfs`: conversions of one value into another without state
  or control.
- The values of credentials, client names and owner ids, which are arbitrary
  words here; `String` methods and the wording of errors.
- Opening the TCP connection (`rpc.Dial`), apart from whether it succeeds.
- RESTOREFH and the `Union` helpers of `xdr`, which no method uses.
- The server, of which `SessionCall`, `ConnMount`, `OpenOwner`, `File`, `FS` and
  `Nfs4x` have what the client can tell.
