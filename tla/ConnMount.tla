------------------------------ MODULE ConnMount -----------------------------
(***************************************************************************)
(* Dial and DialAuto (nfs4/transport.go), and Conn.Mount and Conn.Close    *)
(* (nfs4/conn.go) under the recoveries that the LeaseManager               *)
(* (client/lease.go) starts: its loop, which renews and mounts again when  *)
(* the server has lost the client, and WithRetry, which does so around an  *)
(* operation of the user's.                                                *)
(*                                                                         *)
(* c.mu guards the fields of Conn one access at a time: it is not held     *)
(* across a round trip, so between what a mount stores and what it reads   *)
(* back another mount may store its own.  A round trip is one step (the    *)
(* RPC client sends one call at a time).  They all share one connection,   *)
(* which nobody dials again once it is lost.  The server is external.      *)
(***************************************************************************)
EXTENDS Integers, Sequences, Functions

CONSTANTS
    Users,         \* goroutines that call WithRetry
    Loop,          \* the goroutine of LeaseManager.loop
    MaxID,         \* client and session ids are 1 .. MaxID, taken anew when
                   \* nobody knows them any more; None is not one
    None,
    Configs,       \* how the application dials: Dial "v40" or "v41", or DialAuto "auto"
    Servers,       \* what a server makes of v4.1, see Servers41
    MaxCalls,      \* bound: WithRetry calls of a user
    MaxForgets,    \* bound: how often the server forgets the client
    MaxFaults      \* bound: round trips that fail for another reason

Actors == Users \cup {Loop}

IDs == 1 .. MaxID

(***************************************************************************)
(* A server does both versions, or it answers every v4.1 compound with     *)
(* MINOR_VERS_MISMATCH and no resop, EXCHANGE_ID with NOTSUPP, or with a   *)
(* resop of the operation OP_ILLEGAL, which DecodeCompound does not take.  *)
(***************************************************************************)
Servers41 == {"both", "mismatch", "notsupp", "illegal"}

ASSUME ActorsDistinct == Loop \notin Users /\ None \notin IDs
\* The server has ids to spare: a first mount meets three at the most.
ASSUME IDsEnough == MaxID \in Nat /\ MaxID > 3
ASSUME SetupsKnown == Configs \subseteq {"v40", "v41", "auto"} /\ Servers \subseteq Servers41

VARIABLES
    setup,    \* the config and the server
    rpcs,     \* how many RPC clients were dialed, and Close not called on them
    up,       \* the connection dialed last was not lost: reset, or closed by a cancelled call
    minor,    \* ConnConfig.MinorVersion of the Conn, once there is one
    conn,     \* Conn: clientID, confirm (in v4.1 eirSequence), session, and the sessions
              \* of the chain of sessionCallers under the retryCaller, outermost first
    mounted,  \* the first Mount has succeeded
    closing,  \* Conn.Close: "no", "session", "clientid", "rpc" or "closed"
    snap,     \* what teardownSession read of conn
    cut,      \* a compound of teardownSession was not answered, or refused
    srv,      \* the server: the confirmed and the unconfirmed client id, the session
    pc,       \* pc[a]: the next step of a
    loc,      \* loc[a]: [id, confirm, retry]: arguments or results it holds
    result,   \* result[a]: how its last WithRetry, or Mount, ended
    calls,    \* how many WithRetry calls each user began
    forgets, faults,
    mounts,   \* how many Mounts were begun, up to 2
    alone     \* alone[a]: nothing disturbed a's recovery

vars == <<setup, rpcs, up, minor, conn, mounted, closing, snap, cut, srv, pc, loc, result, calls,
          forgets, faults, mounts, alone>>

NoState == [confirmed |-> None, unconfirmed |-> None, session |-> None]
NoLoc == [id |-> None, confirm |-> None, retry |-> FALSE]

NewConn == [clientID |-> None, confirm |-> None, session |-> None, chain |-> <<>>]

\* For a v4.0 Conn one server is as good as another.
Init ==
    /\ setup \in [config : Configs, server : Servers]
    /\ setup.config = "v40" => setup.server = "both"
    /\ rpcs = 0 /\ up = FALSE /\ minor = 0
    /\ conn = NewConn
    /\ mounted = FALSE
    /\ closing = "no"
    /\ snap = conn /\ cut = FALSE
    /\ srv = NoState
    /\ pc = [a \in Actors |-> "idle"]
    /\ loc = [a \in Actors |-> NoLoc]
    /\ result = [a \in Actors |-> "none"]
    /\ calls = [a \in Actors |-> 0]
    /\ forgets = 0 /\ faults = 0 /\ mounts = 0
    /\ alone = [a \in Actors |-> FALSE]

MountSteps == {"mount", "store", "read", "confirm", "create", "install", "reclaim", "root"}
Mounting(a) == pc[a] \in MountSteps
Retrying(a) == pc[a] \in {"fn", "send"} /\ loc[a].retry

InUse ==
    {conn.clientID, conn.confirm, conn.session, snap.clientID, snap.session}
    \cup {srv.confirmed, srv.unconfirmed, srv.session}
    \cup Range(conn.chain) \cup Range(snap.chain)
    \cup {loc[a].id : a \in Actors} \cup {loc[a].confirm : a \in Actors}

Fresh == CHOOSE i \in IDs \ InUse : \A j \in IDs \ InUse : i <= j

Go(a, to) == pc' = [pc EXCEPT ![a] = to]
Hold(a, l) == loc' = [loc EXCEPT ![a] = l]
End(a, r) == Go(a, "idle") /\ Hold(a, NoLoc) /\ result' = [result EXCEPT ![a] = r]

\* Where a mount begins, it disturbs the recoveries of the others, and they it.
Disturb(a) ==
    alone' = [b \in Actors |->
                IF b = a THEN ~\E c \in Actors \ {a} : Mounting(c)
                ELSE alone[b] /\ ~Mounting(b) /\ ~Retrying(b)]

Still == UNCHANGED <<setup, closing, snap, cut, forgets>>
Untouched == Still /\ UNCHANGED <<rpcs, up, minor>>

\* A call that is sent now reaches the server.
Connected == up /\ closing # "closed"

\* A compound goes through every sessionCaller of the chain, each of which puts
\* its SEQUENCE in front.  The server wants at most one, of a session it knows.
Accepted(chain) == chain = <<>> \/ (srv.session # None /\ chain = <<srv.session>>)
-----------------------------------------------------------------------------
\* The application dials, before anything else: DialAuto tries v4.1 first.
BeginDial(u) ==
    /\ ~mounted /\ closing = "no" /\ \A a \in Actors : pc[a] = "idle"
    /\ minor' = IF setup.config = "v40" THEN 0 ELSE 1
    /\ Go(u, "dial") /\ Disturb(u)
    /\ mounts' = IF mounts = 0 THEN 1 ELSE 2
    /\ result' = [result EXCEPT ![u] = "none"]
    /\ Still /\ UNCHANGED <<rpcs, up, conn, mounted, srv, loc, calls, faults>>

\* rpc.Dial, which may fail; then NewConn and Mount.
DialRPC(u) ==
    /\ pc[u] = "dial"
    /\ \/ /\ Go(u, "mount") /\ rpcs' = rpcs + 1 /\ up' = TRUE
          /\ UNCHANGED <<loc, result, faults, alone>>
       \/ /\ faults < MaxFaults /\ faults' = faults + 1
          /\ alone' = [alone EXCEPT ![u] = FALSE]
          /\ End(u, "mountErr") /\ UNCHANGED <<rpcs, up>>
    /\ Still /\ UNCHANGED <<minor, conn, mounted, srv, calls, mounts>>

BugIsMinorVersionFallback(err) == TRUE

isMinorVersionFallback(err) == err \in {"MINOR_VERS_MISMATCH", "NOTSUPP", "OP_ILLEGAL"}

BugMountFails(a, err) ==
    IF mounted
    THEN End(a, "mountErr") /\ UNCHANGED <<rpcs, minor, conn>>
    ELSE /\ conn' = NewConn
         /\ IF setup.config = "auto" /\ minor = 1 /\ isMinorVersionFallback(err)
            THEN Go(a, "dial") /\ Hold(a, NoLoc) /\ minor' = 0 /\ UNCHANGED <<result, rpcs>>
            ELSE End(a, "mountErr") /\ minor' = minor /\ rpcs' = rpcs - 1

\* Mount returns err.  In Dial this closes the RPC client, and the Conn is gone
\* with what it stored; DialAuto may then dial again for v4.0.
MountFails(a, err) ==
    IF mounted
    THEN End(a, "mountErr") /\ UNCHANGED <<rpcs, minor, conn>>
    ELSE /\ conn' = NewConn /\ rpcs' = rpcs - 1
         /\ IF setup.config = "auto" /\ minor = 1 /\ isMinorVersionFallback(err)
            THEN Go(a, "dial") /\ Hold(a, NoLoc) /\ minor' = 0 /\ result' = result
            ELSE End(a, "mountErr") /\ minor' = minor

\* WithRetry, or the timer of the loop: fn, or Renew, is called.
Begin(a) ==
    /\ mounted /\ pc[a] = "idle"
    /\ a \in Users => calls[a] < MaxCalls
    /\ calls' = [calls EXCEPT ![a] = IF a = Loop THEN 0 ELSE @ + 1]
    /\ Go(a, "fn")
    /\ result' = [result EXCEPT ![a] = "none"]
    /\ Untouched /\ UNCHANGED <<conn, mounted, srv, loc, faults, mounts, alone>>

\* c.ClientID()
ReadClientID(a) ==
    /\ pc[a] = "fn"
    /\ Go(a, "send") /\ Hold(a, [loc[a] EXCEPT !.id = conn.clientID])
    /\ Untouched /\ UNCHANGED <<conn, mounted, srv, result, calls, faults, mounts, alone>>

BugStateLost(a) ==
    IF loc[a].retry \/ a = Loop
    THEN End(a, "lost") /\ UNCHANGED <<mounts, alone>>
    ELSE /\ Go(a, "mount") /\ Hold(a, NoLoc) /\ Disturb(a)
         /\ mounts' = 2 /\ result' = result

\* isClientStateLost: WithRetry recovers once, the loop once a RENEW.
StateLost(a) ==
    IF loc[a].retry
    THEN End(a, "lost") /\ UNCHANGED <<mounts, alone>>
    ELSE /\ Go(a, "mount") /\ Hold(a, NoLoc) /\ Disturb(a)
         /\ mounts' = 2 /\ result' = result

\* The operation's round trip.  In v4.0 it names the client id; in v4.1 a bad
\* session is an error that isClientStateLost does not know, and state may be
\* lost while the session lives (a fault here).
Fn(a) ==
    /\ pc[a] = "send" /\ Connected
    /\ \/ /\ IF minor = 0 THEN loc[a].id = srv.confirmed ELSE Accepted(conn.chain)
          /\ End(a, "ok") /\ UNCHANGED <<faults, mounts, alone>>
       \/ /\ minor = 0 /\ loc[a].id # srv.confirmed
          /\ StateLost(a) /\ UNCHANGED faults
       \/ /\ minor = 1 /\ ~Accepted(conn.chain)
          /\ End(a, "error") /\ UNCHANGED <<faults, mounts, alone>>
       \/ /\ minor = 1 /\ Accepted(conn.chain) /\ faults < MaxFaults
          /\ faults' = faults + 1
          /\ StateLost(a)
    /\ Untouched /\ UNCHANGED <<conn, mounted, srv, calls>>
-----------------------------------------------------------------------------
\* The server takes no v4.1 compound; it answers them all with a status only, of
\* which exchangeID, createSession and reclaimComplete see nothing but zero results.
Unsupported == minor = 1 /\ setup.server # "both"
Zeroes == minor = 1 /\ setup.server = "mismatch"

Known(a) == loc[a].id \in {srv.unconfirmed, srv.confirmed}
Pending(id) == IF srv.unconfirmed = id THEN None ELSE srv.unconfirmed

(***************************************************************************)
(* What the server makes of a's compound.  SETCLIENTID and EXCHANGE_ID     *)
(* come with a random verifier, so they make a new unconfirmed client id   *)
(* in place of an older one.  SETCLIENTID_CONFIRM confirms it, or repeats  *)
(* that.  CREATE_SESSION confirms it too; with the sequence of an earlier  *)
(* one it is a replay and names the same session.                          *)
(***************************************************************************)
Served(a) ==
    IF Unsupported THEN srv
    ELSE CASE pc[a] = "mount" /\ Accepted(conn.chain) -> [srv EXCEPT !.unconfirmed = Fresh]
           [] pc[a] = "confirm" /\ Known(a) /\ loc[a].id = loc[a].confirm ->
                 [srv EXCEPT !.confirmed = loc[a].id, !.unconfirmed = Pending(loc[a].id)]
           [] /\ pc[a] = "create" /\ Accepted(conn.chain) /\ Known(a)
              /\ loc[a].id # srv.confirmed \/ srv.session = None ->
                 [confirmed |-> loc[a].id, unconfirmed |-> Pending(loc[a].id), session |-> Fresh]
           [] OTHER -> srv

\* setClientID or exchangeID, up to the reply.
SendClient(a) ==
    LET id == IF Zeroes THEN None ELSE srv'.unconfirmed IN
    /\ pc[a] = "mount" /\ Connected
    /\ srv' = Served(a)
    /\ IF Zeroes \/ (~Unsupported /\ Accepted(conn.chain))
       THEN /\ Go(a, "store") /\ result' = result
            /\ Hold(a, [NoLoc EXCEPT !.id = id, !.confirm = id])
            /\ UNCHANGED <<rpcs, minor, conn>>
       ELSE MountFails(a, IF minor = 1 /\ setup.server = "notsupp" THEN "NOTSUPP" ELSE "other")
    /\ Still /\ UNCHANGED <<up, mounted, calls, faults, mounts, alone>>

BugStoreClient(a) ==
    /\ pc[a] = "store"
    /\ conn' = [conn EXCEPT !.clientID = loc[a].id]
    /\ Go(a, "read") /\ Hold(a, NoLoc)
    /\ Untouched /\ UNCHANGED <<mounted, srv, result, calls, faults, mounts, alone>>

\* The results are stored under c.mu.
StoreClient(a) ==
    /\ pc[a] = "store"
    /\ conn' = [conn EXCEPT !.clientID = loc[a].id, !.confirm = loc[a].confirm]
    /\ Go(a, "read") /\ Hold(a, NoLoc)
    /\ Untouched /\ UNCHANGED <<mounted, srv, result, calls, faults, mounts, alone>>

BugReadClient(a) ==
    /\ pc[a] = "read"
    /\ Go(a, IF minor = 0 THEN "root" ELSE "create")
    /\ Hold(a, [NoLoc EXCEPT !.id = conn.clientID, !.confirm = conn.confirm])
    /\ Untouched /\ UNCHANGED <<conn, mounted, srv, result, calls, faults, mounts, alone>>

\* confirmClientID and createSession read them back, under c.mu again.
ReadClient(a) ==
    /\ pc[a] = "read"
    /\ Go(a, IF minor = 0 THEN "confirm" ELSE "create")
    /\ Hold(a, [NoLoc EXCEPT !.id = conn.clientID, !.confirm = conn.confirm])
    /\ Untouched /\ UNCHANGED <<conn, mounted, srv, result, calls, faults, mounts, alone>>

\* The round trip of confirmClientID.
Confirm(a) ==
    /\ pc[a] = "confirm" /\ Connected
    /\ srv' = Served(a)
    /\ IF Known(a) /\ loc[a].id = loc[a].confirm
       THEN Go(a, "root") /\ Hold(a, NoLoc) /\ UNCHANGED <<result, rpcs, minor, conn>>
       ELSE MountFails(a, "other")
    /\ Still /\ UNCHANGED <<up, mounted, calls, faults, mounts, alone>>

\* The round trip of createSession.
Create(a) ==
    /\ pc[a] = "create" /\ Connected
    /\ srv' = Served(a)
    /\ IF Zeroes \/ (Accepted(conn.chain) /\ Known(a))
       THEN /\ Go(a, "install")
            /\ Hold(a, [NoLoc EXCEPT !.id = IF Zeroes THEN None ELSE srv'.session])
            /\ UNCHANGED <<result, rpcs, minor, conn>>
       ELSE MountFails(a, "other")
    /\ Still /\ UNCHANGED <<up, mounted, calls, faults, mounts, alone>>

\* createSession puts a sessionCaller under the retryCaller, on what is there.
Install(a) ==
    /\ pc[a] = "install"
    /\ conn' = [conn EXCEPT !.session = loc[a].id, !.chain = <<loc[a].id>> \o @]
    /\ Go(a, "reclaim") /\ Hold(a, NoLoc)
    /\ Untouched /\ UNCHANGED <<mounted, srv, result, calls, faults, mounts, alone>>

\* reclaimComplete; a second one is benign.
Reclaim(a) ==
    /\ pc[a] = "reclaim" /\ Connected
    /\ IF Zeroes \/ Accepted(conn.chain)
       THEN Go(a, "root") /\ UNCHANGED <<loc, result, rpcs, minor, conn>>
       ELSE MountFails(a, "other")
    /\ Still /\ UNCHANGED <<up, mounted, srv, calls, faults, mounts, alone>>

\* fetchRootFH ends Mount, and looks at the compound's status too; WithRetry then
\* calls fn again.
FetchRootFH(a) ==
    /\ pc[a] = "root" /\ Connected
    /\ IF Accepted(conn.chain)
       THEN /\ mounted' = TRUE /\ UNCHANGED <<rpcs, minor, conn>>
            /\ IF mounted /\ a \in Users
               THEN Go(a, "fn") /\ Hold(a, [NoLoc EXCEPT !.retry = TRUE]) /\ result' = result
               ELSE End(a, "ok")
       ELSE /\ MountFails(a, IF Zeroes THEN "MINOR_VERS_MISMATCH" ELSE "other")
            /\ mounted' = mounted
    /\ Still /\ UNCHANGED <<up, srv, calls, faults, mounts, alone>>
-----------------------------------------------------------------------------
Sending(a) == pc[a] \in {"send", "mount", "confirm", "create", "reclaim", "root"}

(***************************************************************************)
(* A round trip fails.  The answer may be an error, of the server or the   *)
(* RPC layer, or one that cannot be decoded: the connection survives.  Or  *)
(* the call is cancelled, and Client.Call closes the connection, or the    *)
(* transport fails.  The server may have acted on the call in any of these *)
(* cases.  Without a connection every round trip fails.                    *)
(***************************************************************************)
TripFails(a) ==
    /\ Sending(a)
    /\ \/ ~Connected /\ UNCHANGED <<faults, srv, up>>
       \/ /\ Connected /\ faults < MaxFaults /\ faults' = faults + 1
          /\ srv' \in {srv, Served(a)} /\ up' \in {up, FALSE}
    /\ IF pc[a] = "send" THEN End(a, "error") /\ UNCHANGED <<rpcs, minor, conn>>
       ELSE MountFails(a, "other")
    /\ alone' = [alone EXCEPT ![a] = FALSE]
    /\ Still /\ UNCHANGED <<mounted, calls, mounts>>

\* The server forgets the client: the lease has run out, or it restarts, which
\* resets the connection too.
Forget ==
    /\ forgets < MaxForgets
    /\ forgets' = forgets + 1
    /\ srv' = NoState /\ up' \in {up, FALSE}
    /\ alone' = [a \in Actors |-> FALSE]
    /\ UNCHANGED <<setup, rpcs, minor, conn, mounted, closing, snap, cut, pc, loc, result, calls, faults, mounts>>

Quiet == UNCHANGED <<setup, minor, conn, mounted, pc, loc, result, calls, forgets, mounts>>

BugClose ==
    /\ closing = "no" /\ mounted
    /\ snap' = conn
    /\ closing' = IF conn.session = None THEN "rpc" ELSE "clientid"
    /\ alone' = [a \in Actors |-> FALSE]
    /\ Quiet /\ UNCHANGED <<rpcs, up, cut, srv, faults>>

\* Conn.Close: teardownSession reads the session, if there is one.
Close ==
    /\ closing = "no" /\ mounted
    /\ snap' = conn
    /\ closing' = IF conn.session = None THEN "rpc" ELSE "session"
    /\ alone' = [a \in Actors |-> FALSE]
    /\ Quiet /\ UNCHANGED <<rpcs, up, cut, srv, faults>>

\* A compound of teardownSession, after which the server would be s.  Its error is
\* dropped and the next one sent: the teardown "is best-effort".
TearDown(s) ==
    \/ up /\ srv' = s /\ UNCHANGED <<up, cut, faults>>
    \/ ~up /\ cut' = TRUE /\ UNCHANGED <<up, srv, faults>>
    \/ /\ up /\ faults < MaxFaults /\ faults' = faults + 1
       /\ cut' = TRUE /\ srv' \in {srv, s} /\ up' \in {up, FALSE}

\* DESTROY_SESSION goes to the caller beneath the outermost sessionCaller.
DestroySession ==
    /\ closing = "session"
    /\ TearDown(IF Accepted(Tail(snap.chain)) /\ snap.session = srv.session
                THEN [srv EXCEPT !.session = None] ELSE srv)
    /\ closing' = "clientid"
    /\ Quiet /\ UNCHANGED <<rpcs, snap, alone>>

\* DESTROY_CLIENTID: refused while the client has a session.
DestroyClientID ==
    /\ closing = "clientid"
    /\ TearDown(IF /\ Accepted(Tail(snap.chain))
                   /\ srv.session = None /\ snap.clientID = srv.confirmed
                THEN [srv EXCEPT !.confirmed = None] ELSE srv)
    /\ closing' = "rpc"
    /\ Quiet /\ UNCHANGED <<rpcs, snap, alone>>

CloseRPC ==
    /\ closing = "rpc"
    /\ closing' = "closed" /\ rpcs' = rpcs - 1
    /\ Quiet /\ UNCHANGED <<up, snap, cut, srv, faults, alone>>

Step(a) ==
    \/ DialRPC(a) \/ ReadClientID(a) \/ Fn(a)
    \/ SendClient(a) \/ StoreClient(a) \/ ReadClient(a) \/ Confirm(a)
    \/ Create(a) \/ Install(a) \/ Reclaim(a) \/ FetchRootFH(a)
    \/ TripFails(a)

Next ==
    \/ \E u \in Users : BeginDial(u)
    \/ \E a \in Actors : Begin(a) \/ Step(a)
    \/ Forget
    \/ Close \/ DestroySession \/ DestroyClientID \/ CloseRPC

Spec == Init /\ [][Next]_vars

\* Fairness: goroutines run, round trips end, and the loop's timer fires.
FairSpec == Spec /\ WF_vars(Begin(Loop)) /\ \A a \in Actors : WF_vars(Step(a))
-----------------------------------------------------------------------------
(***************************************************************************)
(* The client id and the confirm verifier that a mount sends back belong   *)
(* to the same SETCLIENTID, also when two mounts store theirs in turn; in  *)
(* v4.1 so do those of CREATE_SESSION and EXCHANGE_ID.                     *)
(***************************************************************************)
ConfirmPaired ==
    \A a \in Actors : pc[a] \in {"confirm", "create"} => loc[a].id = loc[a].confirm

(***************************************************************************)
(* A v4.0 recovery, or a first mount, that nothing disturbs works:         *)
(* WithRetry reports lost state, and a mount fails, only if another mount  *)
(* ran at the same time, the server forgot the client meanwhile, a round   *)
(* trip failed, or the Conn was closed.  Dial for v4.1 needs a server that has it; DialAuto    *)
(* succeeds against every server but one that answers with OP_ILLEGAL.     *)
(***************************************************************************)
Hopeless ==
    setup.server = "illegal" \/ (setup.config = "v41" /\ setup.server # "both")

RetryWorks ==
    \A a \in Actors :
        /\ result[a] \in {"lost", "mountErr"}
        /\ minor = 0 \/ (~mounted /\ ~Hopeless)
        => ~alone[a]

\* After one v4.1 mount and a Close whose compounds were answered the server holds
\* nothing of the client.
CloseCleans ==
    closing = "closed" /\ minor = 1 /\ mounts = 1 /\ ~cut => srv.confirmed = None /\ srv.session = None

(***************************************************************************)
(* A v4.0 Conn settles on the client id that the server confirmed, however *)
(* recoveries overwrote each other's, as long as its connection is not     *)
(* lost: once the users are done and the server forgets nothing more, the  *)
(* loop notices and mounts again.  Over a lost connection nothing settles, *)
(* since neither Conn nor LeaseManager dials again.                        *)
(***************************************************************************)
Settles ==
    <>[](minor = 0 /\ mounted /\ closing = "no" /\ up => conn.clientID = srv.confirmed)

(***************************************************************************)
(* DialAuto "negotiates the highest minor version the server supports":    *)
(* what it returns speaks v4.1 exactly if the server does, although a      *)
(* refusal of the version reaches it only after three calls that seemed to *)
(* succeed, and although other failures come between.                      *)
(***************************************************************************)
Negotiated ==
    mounted /\ setup.config = "auto" => (minor = 1 <=> setup.server = "both")

(***************************************************************************)
(* Every RPC client that Dial opens is closed again, or is the one of the  *)
(* Conn that is being mounted or in use: no attempt of DialAuto leaves its *)
(* connection behind.                                                      *)
(***************************************************************************)
ClientsClosed ==
    rpcs = IF closing # "closed" /\ (mounted \/ \E a \in Actors : Mounting(a)) THEN 1 ELSE 0
=============================================================================
