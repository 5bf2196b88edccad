------------------------------- MODULE Nfs4x --------------------------------
(***************************************************************************)
(* The other side of the wire: what the XDR descriptions (RFC 5531, 7531   *)
(* and 5662) say a server reads in a request and may put into a reply.     *)
(* None of it is code of the client; the modules that check the client's   *)
(* encoders and decoders compare them with these tables.                   *)
(***************************************************************************)
EXTENDS Integers, Sequences, SequencesExt, FiniteSets

(* Attributes: the words of a value of each, by number.  The settable ones *)
(* have the numbers of SIZE, MODE, TIME_ACCESS_SET and TIME_MODIFY_SET.    *)

AttrWords ==
    (1 :> <<2>>) @@ (4 :> <<0, 101>>) @@ (8 :> <<102, 103, 104, 105>>) @@ (20 :> <<106, 107>>)
    @@ (21 :> <<108, 109>>) @@ (22 :> <<110, 111>>) @@ (23 :> <<112, 113>>) @@ (30 :> <<255>>)
    @@ (33 :> <<420>>) @@ (35 :> <<1>>) @@ (36 :> <<5, 114, 115>>) @@ (37 :> <<3, 116>>)
    @@ (41 :> <<117, 118>>) @@ (42 :> <<119, 120>>) @@ (43 :> <<121, 122>>)
    @@ (44 :> <<123, 124>>) @@ (45 :> <<125, 126>>) @@ (47 :> <<127, 128, 129>>)
    @@ (52 :> <<130, 131, 132>>) @@ (53 :> <<133, 134, 135>>)

Standard == {1, 4, 8, 20, 33, 35, 36, 37, 41, 45, 47, 52, 53}
Statvfs == {8, 21, 22, 23, 30, 42, 43, 44}

InOrder(S, W(_)) ==
    LET q == SelectSeq([i \in 1 .. 64 |-> i - 1], LAMBDA n : n \in S) IN FlattenSeq([i \in 1 .. Len(q) |-> W(q[i])])

RECURSIVE Bits(_)
Bits(S) == IF S = {} THEN 0 ELSE LET n == CHOOSE x \in S : TRUE IN 2 ^ n + Bits(S \ {n})

Bitmap4(S) ==
    LET low == Bits({n \in S : n < 32})
        high == Bits({n - 32 : n \in {x \in S : x >= 32}})
    IN IF high = 0 THEN <<1, low>> ELSE <<2, low, high>>

SettableNum == [Size |-> 4, Mode |-> 33, TimeAccess |-> 48, TimeModify |-> 54]

\* fattr4 of the attributes in s.
SettableWords(s) ==
    LET name(n) == CHOOSE f \in DOMAIN s : SettableNum[f] = n
        value(n) == CASE n = 4 -> s.Size [] n = 33 -> <<s.Mode>> [] OTHER -> <<1>> \o s[name(n)]
        vals == InOrder({SettableNum[f] : f \in DOMAIN s}, value)
    IN Bitmap4({SettableNum[f] : f \in DOMAIN s}) \o <<4 * Len(vals)>> \o vals
-----------------------------------------------------------------------------
(* Requests.  Each argument is a list of fields <<type, name>>.            *)

\* The XDR of a value: "u" a word, "h" a hyper, "o" an opaque or a string, "f" a
\* fixed opaque, "b" an array, "m" a bitmap, "a" settable attributes, "s" a
\* stateid, "c" channel attributes.
RECURSIVE XdrBytes(_)
XdrBytes(p) ==
    IF p = <<>> THEN <<>>
    ELSE LET at(i) == IF i <= Len(p) THEN p[i] ELSE 0
         IN <<at(1) * 4096 + at(2) * 256 + at(3) * 16 + at(4)>> \o XdrBytes(SubSeq(p, 5, Len(p)))

Xdr(type, v) ==
    CASE type = "u" -> <<v>>
      [] type = "h" -> v
      [] type = "f" -> XdrBytes(v)
      [] type = "o" -> <<Len(v)>> \o XdrBytes(v)
      [] type = "b" -> <<Len(v)>> \o v
      [] type = "m" -> Bitmap4(v)
      [] type = "a" -> SettableWords(v)
      [] type = "s" -> <<v.seqid>> \o XdrBytes(v.other)
      [] type = "c" -> v \o <<0>>

U(n) == <<"u", n>>
H(n) == <<"h", n>>
O(n) == <<"o", n>>
X(n) == <<"f", n>>
Fattr == << <<"a", "set">> >>
Sid == <<"s", "stateid">>
Claim == << U("claim"), O("name") >>

OpenHow(a) ==
    CASE a.opentype = 0 -> << U("opentype") >>
      [] a.opentype = 1 /\ a.mode = 2 -> << U("opentype"), U("mode"), X("verifier") >>
      [] OTHER -> << U("opentype"), U("mode") >> \o Fattr

ArgFields(a) ==
    CASE a.op \in {"PUTROOTFH", "GETFH", "READLINK", "SAVEFH"} -> <<>>
      [] a.op = "PUTFH" -> << O("fh") >>
      [] a.op \in {"LOOKUP", "REMOVE"} -> << O("name") >>
      [] a.op = "GETATTR" -> << <<"m", "want">> >>
      [] a.op = "SETCLIENTID" ->
            << X("verifier"), O("id"), U("prog"), O("netid"), O("addr"), U("ident") >>
      [] a.op = "SETCLIENTID_CONFIRM" -> << H("clientid"), X("verifier") >>
      [] a.op = "READ" -> << Sid, H("offset"), U("count") >>
      [] a.op = "READDIR" ->
            << H("cookie"), X("verifier"), U("dircount"), U("maxcount"), <<"m", "want">> >>
      [] a.op \in {"RENEW", "DESTROY_CLIENTID"} -> << H("clientid") >>
      [] a.op = "OPEN" ->
            << U("seqid"), U("access"), U("deny"), H("clientid"), O("owner") >> \o OpenHow(a) \o Claim
      [] a.op = "OPEN_CONFIRM" -> << Sid, U("seqid") >>
      [] a.op = "WRITE" -> << Sid, H("offset"), U("stable"), O("data") >>
      [] a.op = "COMMIT" -> << H("offset"), U("count") >>
      [] a.op = "CLOSE" -> << U("seqid"), Sid >>
      [] a.op = "CREATE" -> << U("type") >> \o (IF a.type = 5 THEN << O("link") >> ELSE <<>>)
                                \o << O("name") >> \o Fattr
      [] a.op = "RENAME" -> << O("old"), O("new") >>
      [] a.op = "LINK" -> << O("new") >>
      [] a.op = "SETATTR" -> << Sid >> \o Fattr
      [] a.op = "EXCHANGE_ID" ->
            << X("verifier"), O("owner"), U("flags"), U("protect"), U("impls") >>
      [] a.op = "CREATE_SESSION" ->
            << H("clientid"), U("seqid"), U("flags"), <<"c", "fore">>, <<"c", "back">>, U("cbprog"),
               U("secparms") >>
      [] a.op = "DESTROY_SESSION" -> << X("session") >>
      [] a.op = "RECLAIM_COMPLETE" -> << U("onefs") >>
      [] a.op = "SEQUENCE" ->
            << X("session"), U("seqid"), U("slot"), U("highest"), U("cache") >>

\* Fields the client does not choose: CLAIM_NULL, SP4_NONE and empty arrays are 0.
Field(a, n) == IF n \in DOMAIN a THEN a[n] ELSE 0

ArgWords(num, a) ==
    <<num>> \o FlattenSeq([i \in 1 .. Len(ArgFields(a)) |->
                               Xdr(ArgFields(a)[i][1], Field(a, ArgFields(a)[i][2]))])

\* call_body with AUTH_SYS, then COMPOUND4args: an empty tag, the minor version
\* and the operations.
RequestWords(xid, c, minor, nums, args) ==
    LET body == <<c.stamp>> \o Xdr("o", c.machine) \o <<c.uid, c.gid>> \o Xdr("b", c.gids)
    IN <<xid, 0, 2, 100003, 4, 1>> \o <<1, 4 * Len(body)>> \o body \o <<0, 0>>
           \o <<0, minor, Len(args)>>
           \o FlattenSeq([i \in 1 .. Len(args) |-> ArgWords(nums[i], args[i])])
-----------------------------------------------------------------------------
(* Replies.  The body that follows NFS4_OK is a list of pieces; k says     *)
(* that the client keeps the piece.  The words are arbitrary and differ.   *)

K(w) == [w |-> w, k |-> TRUE]
D(w) == [w |-> w, k |-> FALSE]

Bytes5 == <<5, 81, 82>>       \* five bytes in two words
Mask2 == <<2, 83, 84>>
StateidWords == <<21, 22, 23, 24>>
ChangeInfoWords == <<1, 31, 32, 33, 34>>
Ace == <<41, 42, 43>> \o Bytes5
Impl == Bytes5 \o <<3, 44>> \o <<45, 46, 47>>
DirEntryWords(c) == <<0, c>> \o Bytes5 \o Mask2 \o Bytes5

\* READDIR: n entries, each after a "value follows".
DirWords(n, eof) ==
    <<K(<<61, 62>>)>>
        \o FlattenSeq([i \in 1 .. n |-> <<D(<<1>>), K(DirEntryWords(i))>>])
        \o <<D(<<0>>), K(<<eof>>)>>

Delegations ==
    { <<0>>,
      <<1>> \o StateidWords \o <<0>> \o Ace,
      <<2>> \o StateidWords \o <<1>> \o <<1, 51, 52>> \o Ace,
      <<2>> \o StateidWords \o <<0>> \o <<2, 53, 54>> \o Ace }

ChannelWords(ird) == <<K(<<71, 72, 73, 74, 75, 76>>), D(<<Len(ird)>> \o ird)>>

\* The bodies an operation may answer with.
OKBodies(op) ==
    CASE op = "GETFH" -> { <<K(Bytes5)>>, <<K(<<4, 85>>)>> }
      [] op = "SETCLIENTID" -> { <<K(<<11, 12, 13, 14>>)>> }
      [] op = "READ" -> { <<K(<<0>>), K(Bytes5)>>, <<K(<<1>>), K(<<0>>)>> }
      [] op = "READDIR" -> { DirWords(0, 1), DirWords(2, 0) }
      [] op = "READLINK" -> { <<K(<<4, 63>>)>> }
      [] op = "OPEN" -> { <<K(StateidWords), D(ChangeInfoWords), K(<<flags>>), K(Mask2), D(g)>> :
                              flags \in {0, 2}, g \in Delegations }
      [] op \in {"OPEN_CONFIRM", "CLOSE"} -> { <<K(StateidWords)>> }
      [] op = "WRITE" -> { <<K(<<5, 2, 64, 65>>)>> }
      [] op = "COMMIT" -> { <<K(<<64, 65>>)>> }
      [] op = "CREATE" -> { <<D(ChangeInfoWords), K(Mask2)>> }
      [] op \in {"REMOVE", "LINK"} -> { <<D(ChangeInfoWords)>> }
      [] op = "RENAME" -> { <<D(ChangeInfoWords), D(ChangeInfoWords)>> }
      [] op = "SETATTR" -> { <<K(<<1, 66>>)>> }
      [] op = "EXCHANGE_ID" ->
            { <<K(<<11, 12, 15, 16>>), D(<<0>> \o <<17, 18>> \o Bytes5 \o Bytes5), D(impl)>> :
                  impl \in { <<0>>, <<1>> \o Impl } }
      [] op = "CREATE_SESSION" ->
            { <<K(<<91, 92, 93, 94, 15, 1>>)>> \o ChannelWords(ird) \o ChannelWords(<<>>) :
                  ird \in { <<>>, <<77>> } }
      [] op = "SEQUENCE" -> { <<K(<<91, 92, 93, 94, 1, 0, 0, 0, 0>>)>> }
      [] OTHER -> { <<>> }

\* A failed operation has no body, but for these two.
ErrorBody(op, status) ==
    CASE op = "SETATTR" -> <<K(<<0>>)>>
      [] op = "SETCLIENTID" /\ status = 10017 -> <<K(<<3, 67>>), K(Bytes5)>>
      [] OTHER -> <<>>

Whole(body) == FlattenSeq([i \in 1 .. Len(body) |-> body[i].w])
Kept(body) == FlattenSeq([i \in 1 .. Len(body) |-> IF body[i].k THEN body[i].w ELSE <<>>])

\* The statuses an operation may fail with: DELAY (the operations that only
\* touch the current filehandle never ask for one), another error, and
\* the ones the client treats in a way of their own.
FailStatuses(op) ==
    {5} \cup (IF op \in {"GETFH", "SAVEFH"} THEN {} ELSE {10008})
        \cup (IF op = "OPEN" THEN {10013} ELSE {})
        \cup (IF op = "SETCLIENTID" THEN {10017} ELSE {})
        \cup (IF op = "RECLAIM_COMPLETE" THEN {10054} ELSE {})

\* GETATTR answers with the attributes of those asked for that the object has:
\* none or one of them, or all or all but one.
AttrSubsets(want) ==
    LET few == {{a} : a \in want} \cup {{}} IN few \cup {want \ S : S \in few}

Successes(a) ==
    IF a.op # "GETATTR" THEN {[status |-> 0, body |-> b, has |-> {}] : b \in OKBodies(a.op)}
    ELSE {LET vals == InOrder(S, LAMBDA n : AttrWords[n])
          IN [status |-> 0, body |-> <<K(Bitmap4(S)), K(<<4 * Len(vals)>> \o vals)>>, has |-> S] :
              S \in AttrSubsets(a.want)}

Failures(a) == {[status |-> s, body |-> ErrorBody(a.op, s), has |-> {}] : s \in FailStatuses(a.op)}

\* Replies to a list of operations: all succeed, or all before the one that
\* fails.  A reply is the list of what the executed operations answered.
Replies(args) ==
    LET first(j) == CHOOSE r \in Successes(args[j]) : TRUE
        ok(i) == {[j \in 1 .. Len(args) |-> IF j = i THEN r ELSE first(j)] : r \in Successes(args[i])}
        failed(i) == {Append([j \in 1 .. i - 1 |-> first(j)], r) : r \in Failures(args[i])}
    IN UNION {ok(i) \cup failed(i) : i \in 1 .. Len(args)}

ReplyStatus(r) == r[Len(r)].status

\* COMPOUND4res of a reply, with an empty tag.
ReplyWords(status, nums, r) ==
    <<status, 0, Len(r)>>
        \o FlattenSeq([i \in 1 .. Len(r) |-> <<nums[i], r[i].status>> \o Whole(r[i].body)])

\* rpc_msg headers: an accepted call, with a verifier of AUTH_NONE or of another
\* flavor, and those that refuse the call.
Plain(xid) == <<xid, 1, 0, 0, 0, 0>>
Accepted(xid) == { Plain(xid), <<xid, 1, 0, 2>> \o Bytes5 \o <<0>> }
Refused(xid) == { <<xid, 1, 0, 0, 0, 2, 3, 4>>, <<xid, 1, 0, 0, 0, 5>>, <<xid, 1, 1, 1, 13>>,
                  <<xid, 1, 1, 0, 2, 2>> }
=============================================================================
