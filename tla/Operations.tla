----------------------------- MODULE Operations -----------------------------
(***************************************************************************)
(* The operations of nfs4.Conn (conn.go, conn_write.go): one call of one   *)
(* method, from its arguments through the retry loop (RetryCaller) and the *)
(* wire (Wire) to what it returns.  The server (Nfs4x) answers each        *)
(* attempt as the protocol allows; its reply may be cut short, split into  *)
(* fragments or lost.  The results of a method are decoded into by every   *)
(* attempt (retry.go:120), so they outlive the attempt that filled them.   *)
(***************************************************************************)
EXTENDS RetryCaller, Attrs

Server == INSTANCE Nfs4x

CONSTANT Called  \* the names of the methods that are called

VARIABLES
    m,        \* the method that is called, with its name
    minor,    \* the minor version of the Conn
    results,  \* the Res values of the method, as decoded so far
    reply,    \* what the server sent to the last attempt: [how, ops]
    applied   \* how often the server carried out the change the method asks for

opVars == <<m, minor, results, reply, applied>>
-----------------------------------------------------------------------------
(* Arguments, of all lengths modulo 4.                                     *)

FH == <<1, 2, 3, 4, 5>>
Dir == <<6, 7>>
Name == <<8, 9, 1>>
Other == <<2, 3, 4, 5, 6, 7, 8>>
Verifier == <<1, 3, 5, 7, 9, 2, 4, 6>>
ID == <<17, 18>>
SID == [seqid |-> 3, other |-> <<1, 2, 3, 4, 5, 6, 7, 8, 9, 8, 7, 6>>]
AnonStateid == [seqid |-> 0, other |-> [i \in 1 .. 12 |-> 0]]
SessionID == [i \in 1 .. 16 |-> i % 8]
Offset == <<0, 19>>
Chan == <<0, 20, 20, 18, 16, 64>>
Xid == 29
Cred == [stamp |-> 0, machine |-> Name, uid |-> 30, gid |-> 31, gids |-> <<32, 33>>]

\* The attributes a method sets, and the words EncodeFattr makes of them.
WithAttrs(a, s) == [set |-> s, mask |-> EncodeFattr(s).mask, vals |-> EncodeFattr(s).vals] @@ a

Op(o) == [op |-> o]
Put(fh) == [op |-> "PUTFH", fh |-> fh]
GetAttrs(mask, want) == [op |-> "GETATTR", mask |-> mask, want |-> want]
-----------------------------------------------------------------------------
(***************************************************************************)
(* A method: its compound; the minor versions that use it; whether a       *)
(* session adds SEQUENCE; whether it looks at the status of the compound   *)
(* (r.Err()); the results whose own status it looks at, those it returns,  *)
(* and the one that reports the change it asks for (0: none); whether it   *)
(* is sent beneath the retryCaller.                                        *)
(***************************************************************************)
Method(args, errs, own, vals, change) ==
    [args |-> args, errs |-> errs, own |-> own, vals |-> vals, change |-> change,
     minors |-> {0, 1}, session |-> TRUE, beneath |-> FALSE, accepts |-> {NFS4_OK}]

\* The calls that set up a client, of one minor version and outside a session.
Bootstrap(v, args) ==
    [Method(args, FALSE, {1}, {1}, 0) EXCEPT !.minors = {v}, !.session = FALSE]

exchangeID ==
    Bootstrap(1, <<[op |-> "EXCHANGE_ID", verifier |-> Verifier, owner |-> Name, flags |-> 65536]>>)

createSession ==
    Bootstrap(1, <<[op |-> "CREATE_SESSION", clientid |-> ID, seqid |-> 4, flags |-> 0,
                    fore |-> Chan, back |-> Chan, cbprog |-> 0]>>)

NFS4ERR_COMPLETE_ALREADY == 10054

\* Sent through the session; COMPLETE_ALREADY is as good as OK.
reclaimComplete ==
    [Bootstrap(1, <<[op |-> "RECLAIM_COMPLETE", onefs |-> 0]>>) EXCEPT
        !.session = TRUE, !.accepts = {NFS4_OK, NFS4ERR_COMPLETE_ALREADY}]

setClientID ==
    Bootstrap(0, <<[op |-> "SETCLIENTID", verifier |-> Verifier, id |-> Name, prog |-> 0,
                    netid |-> Name, addr |-> Other, ident |-> 0]>>)

confirmClientID ==
    Bootstrap(0, <<[op |-> "SETCLIENTID_CONFIRM", clientid |-> ID, verifier |-> Verifier]>>)

\* teardownSession sends these two beneath the session and the retryCaller, with a
\* context that never ends, and ignores their answer.
destroySession ==
    [Bootstrap(1, <<[op |-> "DESTROY_SESSION", session |-> SessionID]>>) EXCEPT !.beneath = TRUE]
destroyClientID ==
    [Bootstrap(1, <<[op |-> "DESTROY_CLIENTID", clientid |-> ID]>>) EXCEPT !.beneath = TRUE]

fetchRootFH == Method(<<Op("PUTROOTFH"), Op("GETFH")>>, TRUE, {2}, {2}, 0)

\* Lookup does not look at the status of the compound.
BugLookup ==
    Method(<<Put(Dir), [op |-> "LOOKUP", name |-> Name], Op("GETFH")>>, FALSE, {3}, {3}, 0)

ConnLookup ==
    Method(<<Put(Dir), [op |-> "LOOKUP", name |-> Name], Op("GETFH")>>, TRUE, {3}, {3}, 0)

ConnGetAttr == Method(<<Put(FH), GetAttrs(StandardMask, Server!Standard)>>, TRUE, {2}, {2}, 0)

\* The same, with the mask of FS.Statvfs.
ConnStatvfs == Method(<<Put(FH), GetAttrs(StatvfsMask, Server!Statvfs)>>, TRUE, {2}, {2}, 0)

ConnRead ==
    Method(<<Put(FH), [op |-> "READ", stateid |-> AnonStateid, offset |-> Offset, count |-> 34]>>,
           TRUE, {2}, {2}, 0)

ConnReaddir ==
    Method(<<Put(Dir), [op |-> "READDIR", cookie |-> Offset, verifier |-> Verifier, dircount |-> 8192,
                        maxcount |-> 65536, mask |-> StandardMask, want |-> Server!Standard]>>,
           TRUE, {2}, {2}, 0)

ConnRenew == Method(<<[op |-> "RENEW", clientid |-> ID]>>, FALSE, {1}, {}, 0)

ConnReadlink == Method(<<Put(FH), Op("READLINK")>>, TRUE, {2}, {2}, 0)

\* The arguments of OPEN that all calls share.
OpenBase == [op |-> "OPEN", seqid |-> 35, access |-> 3, deny |-> 0, clientid |-> ID,
             owner |-> Other, name |-> Name, mode |-> 0, verifier |-> Verifier]

\* doCreate and excl: the file is opened, or created with its mode, UNCHECKED or
\* GUARDED.  Of GETFH only the handle is looked at.
ConnOpen(doCreate, excl) ==
    LET args == IF ~doCreate THEN [opentype |-> 0] @@ OpenBase
                ELSE WithAttrs([opentype |-> Open4Create, mode |-> IF excl THEN 1 ELSE 0] @@ OpenBase,
                               [Mode |-> 420])
    IN Method(<<Put(Dir), args, Op("GETFH")>>, TRUE, {2}, {2, 3}, 2)

openConfirm ==
    [Method(<<Put(FH), [op |-> "OPEN_CONFIRM", stateid |-> SID, seqid |-> 36]>>, TRUE, {2}, {2}, 2)
        EXCEPT !.minors = {0}]

ConnWrite ==
    Method(<<Put(FH), [op |-> "WRITE", stateid |-> SID, offset |-> Offset, stable |-> 2,
                       data |-> Other]>>, TRUE, {2}, {2}, 2)

ConnCommit ==
    Method(<<Put(FH), [op |-> "COMMIT", offset |-> Offset, count |-> 0]>>, TRUE, {2}, {}, 2)

CloseFile ==
    Method(<<Put(FH), [op |-> "CLOSE", seqid |-> 37, stateid |-> SID]>>, TRUE, {2}, {}, 2)

\* create, for a directory and for a symbolic link.
create(args) == Method(<<Put(Dir), args, Op("GETFH")>>, TRUE, {2}, {3}, 2)

ConnMkdir ==
    create(WithAttrs([op |-> "CREATE", type |-> 2, name |-> Name], [Mode |-> 493]))

ConnSymlink ==
    create(WithAttrs([op |-> "CREATE", type |-> 5, link |-> Other, name |-> Name], <<>>))

\* REMOVE before a GETATTR of the directory, in one compound.
BugRemove ==
    Method(<<Put(Dir), [op |-> "REMOVE", name |-> Name], GetAttrs(StatvfsMask, Server!Statvfs)>>,
           TRUE, {2}, {}, 2)

ConnRemove == Method(<<Put(Dir), [op |-> "REMOVE", name |-> Name]>>, TRUE, {2}, {}, 2)

ConnRename ==
    Method(<<Put(Dir), Op("SAVEFH"), Put(FH), [op |-> "RENAME", old |-> Name, new |-> Other]>>,
           TRUE, {4}, {}, 4)

ConnLink ==
    Method(<<Put(FH), Op("SAVEFH"), Put(Dir), [op |-> "LINK", new |-> Other]>>, TRUE, {4}, {}, 4)

\* SETATTR of any of the attributes that SettableAttrs has; File sets the size.
ConnSetAttr(s) ==
    Method(<<Put(FH), WithAttrs([op |-> "SETATTR", stateid |-> SID], s)>>, TRUE, {2}, {}, 2)

Methods ==
    [exchangeID |-> exchangeID, createSession |-> createSession, reclaimComplete |-> reclaimComplete,
     setClientID |-> setClientID, confirmClientID |-> confirmClientID,
     destroySession |-> destroySession, destroyClientID |-> destroyClientID,
     fetchRootFH |-> fetchRootFH, Lookup |-> ConnLookup, GetAttr |-> ConnGetAttr,
     Statvfs |-> ConnStatvfs, Read |-> ConnRead, Readdir |-> ConnReaddir, Renew |-> ConnRenew,
     Readlink |-> ConnReadlink, Open |-> ConnOpen(FALSE, FALSE),
     OpenCreate |-> ConnOpen(TRUE, FALSE), OpenExcl |-> ConnOpen(TRUE, TRUE),
     openConfirm |-> openConfirm, Write |-> ConnWrite, Commit |-> ConnCommit,
     CloseFile |-> CloseFile, Mkdir |-> ConnMkdir, Symlink |-> ConnSymlink, Remove |-> ConnRemove,
     Rename |-> ConnRename, Link |-> ConnLink, Truncate |-> ConnSetAttr([Size |-> Offset]),
     Chmod |-> ConnSetAttr([Mode |-> 420]),
     SetBoth |-> ConnSetAttr([Size |-> Offset, Mode |-> 420]),
     SetTimes |-> ConnSetAttr([TimeAccess |-> <<0, 39, 40>>, TimeModify |-> <<0, 41, 42>>])]

Named(name) == [name |-> name] @@ Methods[name]

Opens == {"Open", "OpenCreate", "OpenExcl"}
-----------------------------------------------------------------------------
(* The compound that goes out: sessionCaller puts SEQUENCE in front.       *)

InSession == minor = 1 /\ m.session

Sequence == [op |-> "SEQUENCE", session |-> SessionID, seqid |-> 38, slot |-> 0, highest |-> 0,
             cache |-> 0]

Sent == (IF InSession THEN <<Sequence>> ELSE <<>>) \o m.args

SentOps == [i \in 1 .. Len(Sent) |-> Sent[i].op]
SentNums == [i \in 1 .. Len(Sent) |-> Opnum[Sent[i].op]]

\* Client.Call and Compound.Encode.
Request == CallHeader(Xid, AuthSys(Cred)) \o Encode(minor, Sent)

\* The results of a method before any attempt: the zero values.
Zero(args) == [i \in 1 .. Len(args) |-> <<0>>]

\* The retry loop does not depend on the method: all its configurations are
\* tried with one method, and the others have the default one.
Defaults == [Initial |-> 0, Max |-> 0, MaxAttempts |-> 0]

OpInit ==
    /\ RetryInit
    /\ m \in {Named(name) : name \in Called}
    /\ minor \in m.minors
    /\ m.name # "Lookup" => user = Defaults
    /\ m.beneath => ctx = "live"
    /\ results = Zero(m.args)
    /\ reply = [how |-> "none", ops |-> <<>>]
    /\ applied = 0
-----------------------------------------------------------------------------
(* An attempt.                                                             *)

isRetriableStatus(s) == s \in {10008, 10013}

\* What the callers make of a decoded reply: a SEQUENCE that failed is an error
\* (sessionCaller), any other status is the compound's.  Beneath the retryCaller
\* nobody asks whether it is retriable: the first answer is the last.
OutcomeOf(x) ==
    LET seq == IF InSession THEN x.results[1][1] ELSE NFS4_OK
    IN CASE x.err -> "error"
         [] ~x.err /\ seq # NFS4_OK -> IF isRetriableStatus(seq) THEN "retryErr" ELSE "error"
         [] OTHER -> IF x.status = NFS4_OK THEN "ok"
                     ELSE IF isRetriableStatus(x.status) /\ ~m.beneath THEN "retryStatus" ELSE "status"

\* The change took effect if its operation succeeded in the reply ops.
Changes(ops) ==
    LET i == IF InSession THEN m.change + 1 ELSE m.change
    IN IF m.change > 0 /\ i <= Len(ops) /\ ops[i].status = NFS4_OK THEN 1 ELSE 0

\* The bytes of a stream arrive in answer to the attempt.
Arrives(how, ops, stream) ==
    LET old == (IF InSession THEN Zero(<<Sequence>>) ELSE <<>>) \o results IN
    \E x \in {Receive(stream, Xid, SentOps, old)} :
        /\ CallBase(OutcomeOf(x))
        /\ results' = IF InSession THEN Tail(x.results) ELSE x.results
        /\ reply' = [how |-> how, ops |-> ops]
        /\ applied' = applied + Changes(ops)
        /\ UNCHANGED <<m, minor>>

Body(ops) == Server!ReplyWords(Server!ReplyStatus(ops), SentNums, ops)

\* The reply comes as one record.
Answer ==
    /\ pc = "call"
    /\ \E ops \in Server!Replies(Sent) :
          Arrives("whole", ops, WriteRecord(Server!Plain(Xid) \o Body(ops)))

\* Two fragments, a record that ends early, or a connection that ends before it
\* does: in the first attempt of a default configuration, to bound the model.
Early == pc = "call" /\ attempt = 0 /\ user = Defaults /\ ctx = "live"

Fragmented ==
    /\ Early
    /\ \E ops \in Server!Replies(Sent), h \in Server!Accepted(Xid) :
          LET w == h \o Body(ops) IN
          \E k \in 0 .. Len(w) :
              Arrives("whole", ops, <<k>> \o SubSeq(w, 1, k) \o WriteRecord(SubSeq(w, k + 1, Len(w))))

Cut ==
    /\ Early
    /\ \E ops \in Server!Replies(Sent), h \in Server!Accepted(Xid) :
          LET w == h \o Body(ops)
              r == WriteRecord(w)
              records == {WriteRecord(SubSeq(w, 1, k)) : k \in 0 .. Len(w) - 1}
              streams == {SubSeq(r, 1, k) : k \in 0 .. Len(r) - 1}
          IN \E stream \in records \cup streams : Arrives("cut", ops, stream)

\* The RPC layer refuses the call.
Refuse ==
    /\ pc = "call"
    /\ \E h \in Server!Refused(Xid) : Arrives("refused", <<>>, WriteRecord(h))

\* A server that does not know the minor version answers without any resop.
NFS4ERR_MINOR_VERS_MISMATCH == 10021
WrongMinor ==
    /\ pc = "call" /\ minor = 1
    /\ LET w == Server!ReplyWords(NFS4ERR_MINOR_VERS_MISMATCH, <<>>, <<>>)
       IN Arrives("wrongMinor", <<>>, WriteRecord(Server!Plain(Xid) \o w))

\* OpenRes.NeedsConfirm: the flag is in the sixth word kept.
NeedsConfirm(r) == (r[6] \div 2) % 2 = 1
-----------------------------------------------------------------------------
(* The end of the method.                                                  *)

\* The checks that follow CallCompound: err, r.Err() and the results' own status.
Succeeds ==
    /\ ret \in {"ok", "status"}
    /\ m.errs => ret = "ok"
    /\ \A i \in m.own : results[i][1] \in m.accepts

MustConfirm == pc = "returned" /\ m.name \in Opens /\ Succeeds /\ NeedsConfirm(results[2])

\* Open goes on with OPEN_CONFIRM, in a CallCompound of its own.
Confirm ==
    /\ MustConfirm
    /\ m' = Named("openConfirm") /\ results' = Zero(openConfirm.args)
    /\ reply' = [how |-> "none", ops |-> <<>>] /\ applied' = 0
    /\ attempt' = 0 /\ delay' = cfg.Initial /\ last' = "none" /\ pc' = "top" /\ ret' = "none"
    /\ calls' = 0 /\ slept' = [count |-> 0, last |-> 0] /\ tooLate' = 0
    /\ UNCHANGED <<user, cfg, ctx, minor>>

OpNext ==
    \/ ~m.beneath /\ ContextEnds /\ UNCHANGED opVars
    \/ (Top \/ Sleep \/ SleepCut) /\ UNCHANGED opVars
    \/ Answer \/ Fragmented \/ Cut \/ Refuse \/ WrongMinor
    \/ Confirm

OpSpec == OpInit /\ [][OpNext]_<<retryVars, opVars>>
-----------------------------------------------------------------------------
Returned == pc = "returned" /\ ~MustConfirm

\* The part of the last reply that answers the method's own operations.
Own == IF InSession /\ reply.ops # <<>> THEN Tail(reply.ops) ELSE reply.ops

(***************************************************************************)
(* A method that returns without an error returns what the server said in  *)
(* answer to its last attempt, and the server carried out every operation: *)
(* nothing a former attempt decoded, no reply cut short, no failed         *)
(* operation passes for an answer, and an OPEN that asks for it was        *)
(* confirmed.  Only the calls that do not look at the status of their      *)
(* compound miss the refusal, without resops, of the minor version.        *)
(***************************************************************************)
AnswerIsOwn ==
    Returned /\ Succeeds /\ (reply.how = "wrongMinor" => m.errs) =>
        /\ reply.how = "whole"
        /\ Len(Own) = Len(m.args)
        /\ \A i \in 1 .. Len(Own) : Own[i].status \in m.accepts
        /\ \A i \in m.vals :
              results[i] = <<Own[i].status>> \o Server!Kept(Own[i].body)
        /\ m.name \in Opens => Own[2].body[3].w # <<2>>

(***************************************************************************)
(* A reply that is whole and in which every operation succeeded is taken:  *)
(* whichever arm of the unions the server chose, whatever lengths and      *)
(* paddings it holds and however it was split into fragments, the decoders *)
(* stay aligned with it and the method returns without an error.           *)
(***************************************************************************)
WholeIsTaken ==
    Returned /\ reply.how = "whole" /\ (\A i \in 1 .. Len(reply.ops) : reply.ops[i].status = 0)
        => Succeeds

\* No reply that was cut short, anywhere, is taken for an answer.
CutIsSeen == Returned /\ reply.how \in {"cut", "refused"} => ret = "error"

\* The server reads in the request what the method was asked to do.
RequestIsRead == pc = "call" => Request = Server!RequestWords(Xid, Cred, minor, SentNums, Sent)

(***************************************************************************)
(* What encode.go:30 says of SettableAttrs: these are "the attributes a    *)
(* client may set via SETATTR".  A server reads the times it is told to    *)
(* set in TIME_ACCESS_SET and TIME_MODIFY_SET; EncodeFattr sends them      *)
(* under the numbers of the read-only TIME_ACCESS and TIME_MODIFY.         *)
(***************************************************************************)
TimesSettable == m.name = "SetTimes" => RequestIsRead

(***************************************************************************)
(* Retrying is safe: however often a compound is sent again, its change is *)
(* carried out at most once, and exactly once if the method succeeds.  It  *)
(* rests on no operation that may answer DELAY following the change in any *)
(* of the compounds.                                                       *)
(***************************************************************************)
AppliedOnce ==
    /\ applied <= 1
    /\ Returned /\ Succeeds /\ m.change > 0 /\ reply.how = "whole" => applied = 1

\* The attributes a method returns are those the server sent, whichever subset
\* of those asked for an object has.
AttrsRead ==
    Returned /\ Succeeds /\ m.name \in {"GetAttr", "Statvfs"} =>
        LET r == results[2]
            mask == SubSeq(r, 3, 2 + r[2])
            vals == SubSeq(r, 4 + r[2], Len(r))
            a == IF m.name = "GetAttr" THEN Decode(mask, vals) ELSE DecodeStatvfs(mask, vals)
        IN ~a.err /\ a.attrs = [n \in Own[2].has |-> Server!AttrWords[n]]
=============================================================================
