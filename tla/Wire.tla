-------------------------------- MODULE Wire --------------------------------
(***************************************************************************)
(* The wire format: XDR (xdr/), record marking and RPC replies (rpc/), and *)
(* the COMPOUND results and arguments (nfs4/compound.go, ops.go,           *)
(* writeops.go, sessionops.go).  A message is a sequence of 32-bit words;  *)
(* XDR pads everything to whole words.  Contents are arbitrary words, but  *)
(* statuses, discriminants, flags, counts and lengths mean what they say.  *)
(***************************************************************************)
EXTENDS Integers, Sequences, SequencesExt

CONSTANTS
    MaxLen,       \* Decoder.MaxLen, in bytes
    MaxFragment,  \* maxFragmentSize, in words
    MaxMessage,   \* maxMessageSize, in words
    LastFragment  \* lastFragmentFlag: more than any size

ASSUME Limits ==
    /\ MaxLen \in Nat /\ MaxFragment \in Nat /\ MaxMessage \in Nat
    /\ LastFragment > MaxFragment + 1

\* pad4: the bytes that round n up to whole words.
pad4(n) == IF n % 4 = 0 THEN 0 ELSE 4 - (n % 4)
-----------------------------------------------------------------------------
(* xdr.Decoder: the words not yet read, the words kept in the result that  *)
(* is being decoded, and the sticky error.                                 *)

Decoder(w) == [in |-> w, out |-> <<>>, err |-> FALSE]

\* What Uint32 returns: zero after an error.
Peek(d) == IF d.err \/ d.in = <<>> THEN 0 ELSE Head(d.in)

\* read: n words into a field.
Read(d, n) ==
    IF d.err \/ n > Len(d.in) THEN [d EXCEPT !.err = TRUE]
    ELSE [d EXCEPT !.in = SubSeq(@, n + 1, Len(@)), !.out = @ \o SubSeq(d.in, 1, n)]

\* The same for fields that are decoded and dropped.
Skip(d, n) == [Read(d, n) EXCEPT !.out = d.out]

\* The bytes that came are taken for the value.
BugOpaque(d) ==
    LET n == Peek(d)
        s == Read(d, 1)
        k == (n + pad4(n)) \div 4
    IN IF s.err \/ n > MaxLen THEN [s EXCEPT !.err = TRUE]
       ELSE Read(s, IF k > Len(s.in) THEN Len(s.in) ELSE k)

Opaque(d) ==
    LET n == Peek(d)
        s == Read(d, 1)
    IN IF s.err \/ n > MaxLen THEN [s EXCEPT !.err = TRUE] ELSE Read(s, (n + pad4(n)) \div 4)

SkipOpaque(d) == [Opaque(d) EXCEPT !.out = d.out]

\* A counted loop of decoding steps.
Repeat(Step(_), d, n) == FoldLeft(LAMBDA s, i : Step(s), d, [i \in 1 .. n |-> i])

DecodeBitmap(d) == Repeat(LAMBDA s : Read(s, 1), Read(d, 1), Peek(d))
DecodeStateid(d) == Read(d, 4)
-----------------------------------------------------------------------------
(* DecodeRes of every result.  NFS4_OK is 0.                               *)

NFS4_OK == 0
NFS4ERR_CLID_INUSE == 10017

\* A status and, if it is NFS4_OK, a body.
IfOK(d, Body(_)) == IF Peek(d) = NFS4_OK THEN Body(Read(d, 1)) ELSE Read(d, 1)

StatusRes(d) == Read(d, 1)
GetfhRes(d) == IfOK(d, Opaque)
GetattrRes(d) == IfOK(d, LAMBDA s : Opaque(DecodeBitmap(s)))

SetclientidRes(d) ==
    CASE Peek(d) = NFS4_OK -> Read(d, 1 + 4)
      [] Peek(d) = NFS4ERR_CLID_INUSE -> Opaque(Opaque(Read(d, 1)))
      [] OTHER -> Read(d, 1)

ReadRes(d) == IfOK(d, LAMBDA s : Opaque(Read(s, 1)))

\* entry4
DirEntry(d) == Opaque(DecodeBitmap(Opaque(Read(d, 2))))

\* dirlist4: a "value-follows" flag precedes each entry.  Peek is 0, which
\* ends the list, after an error too.
RECURSIVE DirList(_)
DirList(d) == IF Peek(d) = 0 THEN Skip(d, 1) ELSE DirList(DirEntry(Skip(d, 1)))

ReaddirRes(d) == IfOK(d, LAMBDA s : Read(DirList(Read(s, 2)), 1))

ReadlinkRes(d) == IfOK(d, Opaque)

decodeNfsace4(d) == SkipOpaque(Skip(d, 3))

\* The blocks of a space limit are taken for one word.
BugDecodeSpaceLimit(d) ==
    CASE Peek(d) = 1 -> Skip(d, 1 + 2) [] Peek(d) = 2 -> Skip(d, 1 + 1) [] OTHER -> Skip(d, 1)

\* nfs_space_limit4: a size, or blocks.
decodeSpaceLimit(d) ==
    CASE Peek(d) = 1 -> Skip(d, 1 + 2) [] Peek(d) = 2 -> Skip(d, 1 + 2) [] OTHER -> Skip(d, 1)

\* open_delegation4: a stateid, the recall flag and, for WRITE, a space limit.
Delegation(d) ==
    CASE Peek(d) = 1 -> decodeNfsace4(Skip(d, 1 + 4 + 1))
      [] Peek(d) = 2 -> decodeNfsace4(decodeSpaceLimit(Skip(d, 1 + 4 + 1)))
      [] OTHER -> Skip(d, 1)

\* change_info4 is dropped: a flag and two numbers.
ChangeInfo(d) == Skip(d, 1 + 2 + 2)

OpenRes(d) ==
    IfOK(d, LAMBDA s : Delegation(DecodeBitmap(Read(ChangeInfo(DecodeStateid(s)), 1))))

OpenConfirmRes(d) == IfOK(d, DecodeStateid)
WriteRes(d) == IfOK(d, LAMBDA s : Read(s, 1 + 1 + 2))
CommitRes(d) == IfOK(d, LAMBDA s : Read(s, 2))
CloseRes(d) == IfOK(d, DecodeStateid)
CreateRes(d) == IfOK(d, LAMBDA s : DecodeBitmap(ChangeInfo(s)))
RemoveRes(d) == IfOK(d, ChangeInfo)
RenameRes(d) == IfOK(d, LAMBDA s : ChangeInfo(ChangeInfo(s)))
LinkRes(d) == IfOK(d, ChangeInfo)
SetattrRes(d) == DecodeBitmap(Read(d, 1))

\* nfs_impl_id4: two strings and a time.
ImplID(d) == Skip(SkipOpaque(SkipOpaque(d)), 2 + 1)

ExchangeIDRes(d) ==
    IfOK(d, LAMBDA s :
        LET owner == SkipOpaque(SkipOpaque(Skip(Read(s, 2 + 1 + 1), 1 + 2)))
        IN Repeat(ImplID, Skip(owner, 1), Peek(owner)))

decodeChannelAttrs(d) ==
    LET c == Read(d, 6) IN Repeat(LAMBDA s : Skip(s, 1), Skip(c, 1), Peek(c))

CreateSessionRes(d) ==
    IfOK(d, LAMBDA s : decodeChannelAttrs(decodeChannelAttrs(Read(s, 4 + 1 + 1))))

DestroySessionRes(d) == Read(d, 1)
DestroyClientIDRes(d) == Read(d, 1)
ReclaimCompleteRes(d) == Read(d, 1)
SequenceRes(d) == IfOK(d, LAMBDA s : Read(s, 4 + 5))
-----------------------------------------------------------------------------
(* xdr.Encoder.  A uint32 is a number and a uint64 its two words; bytes    *)
(* are packed four to a word, in base 16 to keep the words small.          *)

U32(v) == <<v>>

Pack(b) == FoldLeft(LAMBDA w, x : 16 * w + x, 0, b)

FixedOpaque(p) ==
    LET q == p \o [i \in 1 .. pad4(Len(p)) |-> 0]
    IN [i \in 1 .. Len(q) \div 4 |-> Pack(SubSeq(q, 4 * i - 3, 4 * i))]

OpaqueOut(p) == U32(Len(p)) \o FixedOpaque(p)
BitmapOut(b) == U32(Len(b)) \o b

\* Attribute values, which their encoder has already put into words.
AttrValsOut(w) == U32(4 * Len(w)) \o w
StateidOut(s) == U32(s.seqid) \o FixedOpaque(s.other)
-----------------------------------------------------------------------------
(* EncodeArg of every argument, without the opnum that EncodeArg, below,   *)
(* puts in front.  The operations without arguments are in Void.           *)

PutfhArgs(a) == OpaqueOut(a.fh)
LookupArgs(a) == OpaqueOut(a.name)
GetattrArgs(a) == BitmapOut(a.mask)
SetclientidArgs(a) ==
    FixedOpaque(a.verifier) \o OpaqueOut(a.id) \o U32(a.prog) \o OpaqueOut(a.netid)
        \o OpaqueOut(a.addr) \o U32(a.ident)
SetclientidConfirmArgs(a) == a.clientid \o FixedOpaque(a.verifier)
ReadArgs(a) == StateidOut(a.stateid) \o a.offset \o U32(a.count)
ReaddirArgs(a) ==
    a.cookie \o FixedOpaque(a.verifier) \o U32(a.dircount) \o U32(a.maxcount) \o BitmapOut(a.mask)
RenewArgs(a) == a.clientid

Open4Create == 1
CreateExclusive == 2
ClaimNull == 0

\* openflag4 without its createmode.
BugOpenFlag(a) ==
    IF a.opentype # Open4Create THEN U32(a.opentype)
    ELSE U32(a.opentype) \o BitmapOut(a.mask) \o AttrValsOut(a.vals)

\* openflag4 and, inside it, createhow4.
OpenFlag(a) ==
    IF a.opentype # Open4Create THEN U32(a.opentype)
    ELSE U32(a.opentype) \o U32(a.mode)
            \o (IF a.mode = CreateExclusive THEN FixedOpaque(a.verifier)
                ELSE BitmapOut(a.mask) \o AttrValsOut(a.vals))

OpenArgs(a) ==
    U32(a.seqid) \o U32(a.access) \o U32(a.deny) \o a.clientid \o OpaqueOut(a.owner)
        \o OpenFlag(a) \o U32(ClaimNull) \o OpaqueOut(a.name)
OpenConfirmArgs(a) == StateidOut(a.stateid) \o U32(a.seqid)
WriteArgs(a) == StateidOut(a.stateid) \o a.offset \o U32(a.stable) \o OpaqueOut(a.data)
CommitArgs(a) == a.offset \o U32(a.count)
CloseArgs(a) == U32(a.seqid) \o StateidOut(a.stateid)

\* createtype4: a symbolic link has its target, a device its numbers.
CreateArgs(a) ==
    U32(a.type)
        \o (CASE a.type = 5 -> OpaqueOut(a.link) [] a.type \in {3, 4} -> <<0, 0>> [] OTHER -> <<>>)
        \o OpaqueOut(a.name) \o BitmapOut(a.mask) \o AttrValsOut(a.vals)
RemoveArgs(a) == OpaqueOut(a.name)
RenameArgs(a) == OpaqueOut(a.old) \o OpaqueOut(a.new)
LinkArgs(a) == OpaqueOut(a.new)
SetattrArgs(a) == StateidOut(a.stateid) \o BitmapOut(a.mask) \o AttrValsOut(a.vals)

ExchangeIDArgs(a) == FixedOpaque(a.verifier) \o OpaqueOut(a.owner) \o U32(a.flags) \o <<0, 0>>

\* ChannelAttrs.encode: six numbers, and no ca_rdma_ird.
Channel(c) == c \o <<0>>
CreateSessionArgs(a) ==
    a.clientid \o U32(a.seqid) \o U32(a.flags) \o Channel(a.fore) \o Channel(a.back)
        \o U32(a.cbprog) \o <<0>>
DestroySessionArgs(a) == FixedOpaque(a.session)
DestroyClientIDArgs(a) == a.clientid
ReclaimCompleteArgs(a) == U32(a.onefs)
SequenceArgs(a) ==
    FixedOpaque(a.session) \o U32(a.seqid) \o U32(a.slot) \o U32(a.highest) \o U32(a.cache)
-----------------------------------------------------------------------------
(* COMPOUND (nfs4/compound.go)                                             *)

Opnum ==
    [CLOSE |-> 4, COMMIT |-> 5, CREATE |-> 6, GETATTR |-> 9, GETFH |-> 10, LINK |-> 11,
     LOOKUP |-> 15, OPEN |-> 18, OPEN_CONFIRM |-> 20, PUTFH |-> 22, PUTROOTFH |-> 24,
     READ |-> 25, READDIR |-> 26, READLINK |-> 27, REMOVE |-> 28, RENAME |-> 29, RENEW |-> 30,
     SAVEFH |-> 32, SETATTR |-> 34, SETCLIENTID |-> 35, SETCLIENTID_CONFIRM |-> 36,
     WRITE |-> 38, EXCHANGE_ID |-> 42, CREATE_SESSION |-> 43, DESTROY_SESSION |-> 44,
     SEQUENCE |-> 53, DESTROY_CLIENTID |-> 57, RECLAIM_COMPLETE |-> 58]

\* PUTROOTFH, GETFH, READLINK and SAVEFH have no arguments.
Void == {"PUTROOTFH", "GETFH", "READLINK", "SAVEFH"}

EncodeArg(a) ==
    U32(Opnum[a.op]) \o
    (CASE a.op \in Void -> <<>>
       [] a.op = "PUTFH" -> PutfhArgs(a)
       [] a.op = "LOOKUP" -> LookupArgs(a)
       [] a.op = "GETATTR" -> GetattrArgs(a)
       [] a.op = "SETCLIENTID" -> SetclientidArgs(a)
       [] a.op = "SETCLIENTID_CONFIRM" -> SetclientidConfirmArgs(a)
       [] a.op = "READ" -> ReadArgs(a)
       [] a.op = "READDIR" -> ReaddirArgs(a)
       [] a.op = "RENEW" -> RenewArgs(a)
       [] a.op = "OPEN" -> OpenArgs(a)
       [] a.op = "OPEN_CONFIRM" -> OpenConfirmArgs(a)
       [] a.op = "WRITE" -> WriteArgs(a)
       [] a.op = "COMMIT" -> CommitArgs(a)
       [] a.op = "CLOSE" -> CloseArgs(a)
       [] a.op = "CREATE" -> CreateArgs(a)
       [] a.op = "REMOVE" -> RemoveArgs(a)
       [] a.op = "RENAME" -> RenameArgs(a)
       [] a.op = "LINK" -> LinkArgs(a)
       [] a.op = "SETATTR" -> SetattrArgs(a)
       [] a.op = "EXCHANGE_ID" -> ExchangeIDArgs(a)
       [] a.op = "CREATE_SESSION" -> CreateSessionArgs(a)
       [] a.op = "DESTROY_SESSION" -> DestroySessionArgs(a)
       [] a.op = "DESTROY_CLIENTID" -> DestroyClientIDArgs(a)
       [] a.op = "RECLAIM_COMPLETE" -> ReclaimCompleteArgs(a)
       [] a.op = "SEQUENCE" -> SequenceArgs(a))

\* Compound.Encode; the tag is empty.
Encode(minor, args) ==
    OpaqueOut(<<>>) \o U32(minor) \o U32(Len(args))
        \o FlattenSeq([i \in 1 .. Len(args) |-> EncodeArg(args[i])])

\* The operations whose result is a StatusRes, which has no Op method.
StatusOnly == {"PUTFH", "PUTROOTFH", "LOOKUP", "SAVEFH", "SETCLIENTID_CONFIRM", "RENEW"}

DecodeRes(op, d) ==
    CASE op \in StatusOnly -> StatusRes(d)
      [] op = "GETFH" -> GetfhRes(d)
      [] op = "GETATTR" -> GetattrRes(d)
      [] op = "SETCLIENTID" -> SetclientidRes(d)
      [] op = "READ" -> ReadRes(d)
      [] op = "READDIR" -> ReaddirRes(d)
      [] op = "READLINK" -> ReadlinkRes(d)
      [] op = "OPEN" -> OpenRes(d)
      [] op = "OPEN_CONFIRM" -> OpenConfirmRes(d)
      [] op = "WRITE" -> WriteRes(d)
      [] op = "COMMIT" -> CommitRes(d)
      [] op = "CLOSE" -> CloseRes(d)
      [] op = "CREATE" -> CreateRes(d)
      [] op = "REMOVE" -> RemoveRes(d)
      [] op = "RENAME" -> RenameRes(d)
      [] op = "LINK" -> LinkRes(d)
      [] op = "SETATTR" -> SetattrRes(d)
      [] op = "EXCHANGE_ID" -> ExchangeIDRes(d)
      [] op = "CREATE_SESSION" -> CreateSessionRes(d)
      [] op = "DESTROY_SESSION" -> DestroySessionRes(d)
      [] op = "DESTROY_CLIENTID" -> DestroyClientIDRes(d)
      [] op = "RECLAIM_COMPLETE" -> ReclaimCompleteRes(d)
      [] op = "SEQUENCE" -> SequenceRes(d)

\* What a result holds after DecodeRes read "new" into it: a body is written
\* only with the status that brings one, and READDIR appends its entries.
Entries(r) == IF Len(r) < 4 THEN <<>> ELSE SubSeq(r, 4, Len(r) - 1)
Stored(op, old, new) ==
    IF Len(new) = 1 THEN new \o Tail(old)
    ELSE IF op = "READDIR" THEN SubSeq(new, 1, 3) \o Entries(old) \o SubSeq(new, 4, Len(new))
    ELSE new

\* expectedOp and its check.
OpMatches(op, num) == op \in StatusOnly \/ num = Opnum[op]

\* r is the decoder after the i-th result.
Advance(results, i, op, r) ==
    [d |-> r, results |-> IF r.err THEN results ELSE [results EXCEPT ![i] = Stored(op, @, r.out)]]

\* The i-th resop.  s holds the decoder and the results; an error ends the loop.
Resop(s, i, op) ==
    LET n == Skip(s.d, 1)
    IN IF n.err \/ ~OpMatches(op, Peek(s.d))
       THEN [s EXCEPT !.d.err = TRUE]
       ELSE Advance(s.results, i, op, DecodeRes(op, [n EXCEPT !.out = <<>>]))

\* The resops that came: results of operations that the server did not reach are
\* left as they were.
Resops(d, count, ops, results) ==
    IF d.err \/ count > Len(ops) THEN [d |-> [d EXCEPT !.err = TRUE], results |-> results]
    ELSE FoldLeft(LAMBDA s, i : Resop(s, i, ops[i]), [d |-> d, results |-> results],
                  [i \in 1 .. count |-> i])

Decoded(status, s) == [err |-> s.d.err, status |-> status, results |-> s.results]

\* Status, tag and resops.
DecodeCompound(d, ops, results) ==
    LET h == SkipOpaque(Skip(d, 1))
    IN Decoded(Peek(d), Resops(Skip(h, 1), Peek(h), ops, results))
-----------------------------------------------------------------------------
(* RPC headers (rpc/message.go, rpc/auth.go) and records (rpc/record.go)   *)

\* AuthSys.body, in bytes that are words here, inside an opaque_auth.
AuthSys(c) ==
    U32(c.stamp) \o OpaqueOut(c.machine) \o U32(c.uid) \o U32(c.gid) \o BitmapOut(c.gids)
AuthNull == <<0, 0>>

\* CallHeader.Encode: AUTH_SYS is flavor 1; its length is in bytes.
CallHeader(xid, cred) ==
    <<xid, 0, 2, 100003, 4, 1>> \o U32(1) \o U32(4 * Len(cred)) \o cred \o AuthNull

\* DecodeReplyHeader and ReplyHeader.Error: err is set for a header that cannot
\* be read or is of no known kind, and for every reply but an accepted SUCCESS.
ReplyHeader(d, xid) ==
    LET stat == Skip(d, 2)
        accept == SkipOpaque(Skip(stat, 2))
    IN IF stat.err \/ d.in[1] # xid \/ d.in[2] # 1 \/ Peek(stat) # 0 \/ Peek(accept) # 0
       THEN [d EXCEPT !.err = TRUE]
       ELSE Skip(accept, 1)

WriteRecord(p) == U32(LastFragment + Len(p)) \o p

\* ReadRecord: fragments up to the last one.
RECURSIVE ReadRecord(_)
ReadRecord(d) ==
    LET s == Skip(d, 1)
        size == Peek(d) % LastFragment
        f == Read(s, size)
    IN IF s.err \/ size > MaxFragment \/ Len(d.out) + size > MaxMessage
       THEN [s EXCEPT !.err = TRUE]
       ELSE IF f.err \/ Peek(d) >= LastFragment THEN f ELSE ReadRecord(f)

\* Client.Call and RPCCaller.CallCompound, from the bytes that arrive.
Receive(stream, xid, ops, results) ==
    LET rec == ReadRecord(Decoder(stream))
        h == ReplyHeader(Decoder(rec.out), xid)
    IN IF rec.err \/ h.err THEN [err |-> TRUE, status |-> NFS4_OK, results |-> results]
       ELSE DecodeCompound(h, ops, results)
=============================================================================
