--------------------------- MODULE ConnMountProofs --------------------------
(***************************************************************************)
(* Proofs about ConnMount for any number of users, restarts, faults and    *)
(* client ids.                                                             *)
(***************************************************************************)
EXTENDS ConnMount, TLAPS

\* Zenon proves the leaves that name no other prover.
USE Zenon

Pcs == MountSteps \cup {"idle", "dial", "fn", "send"}

\* The fields of a record, whatever their values.
ConnShape(c) == DOMAIN c = {"clientID", "confirm", "session", "chain"}
LocShape(l) == DOMAIN l = {"id", "confirm", "retry"}
SrvShape(v) == DOMAIN v = {"confirmed", "unconfirmed", "session"}

Shape ==
    /\ pc \in [Actors -> Pcs]
    /\ DOMAIN loc = Actors /\ loc = [a \in Actors |-> loc[a]]
    /\ \A a \in Actors : LocShape(loc[a])
    /\ ConnShape(conn) /\ SrvShape(srv)
    /\ rpcs \in Int /\ minor \in {0, 1}
    /\ closing \in {"no", "session", "clientid", "rpc", "closed"}
    /\ mounted \in BOOLEAN

\* The client id and what belongs to it are stored, and read, together.
PairInv ==
    /\ conn.clientID = conn.confirm
    /\ \A a \in Actors : pc[a] \in {"store", "confirm", "create"} => loc[a].id = loc[a].confirm

\* Until the first Mount has succeeded one goroutine dials, and nobody closes.
DialInv ==
    /\ ~mounted =>
          /\ closing = "no"
          /\ \A a \in Actors : pc[a] \notin {"fn", "send"}
          /\ \A a, b \in Actors : pc[a] # "idle" /\ pc[b] # "idle" => a = b
    /\ mounted => \A a \in Actors : pc[a] # "dial"

\* a goes on to the step to and holds l.
Does(a, to, l) == pc' = [pc EXCEPT ![a] = to] /\ loc' = [loc EXCEPT ![a] = l]

\* The values that a Conn, a mount and the server start with have their shapes.
LEMMA Literals ==
    /\ ConnShape(NewConn) /\ NewConn.clientID = None /\ NewConn.confirm = None
    /\ NewConn.chain = <<>>
    /\ LocShape(NoLoc) /\ NoLoc.id = None /\ NoLoc.confirm = None
    /\ SrvShape(NoState) /\ NoState.session = None
  BY DEF ConnShape, NewConn, LocShape, NoLoc, SrvShape, NoState

\* Before the application dials.
LEMMA InitFacts == Init => Shape /\ PairInv /\ DialInv /\ ClientsClosed
  <1> SUFFICES ASSUME Init
               PROVE  Shape /\ PairInv /\ DialInv /\ ClientsClosed
    OBVIOUS
  <1>1. Shape
    <2>1. pc \in [Actors -> Pcs]
      BY DEF Init, Pcs
    <2>2. /\ DOMAIN loc = Actors /\ loc = [a \in Actors |-> loc[a]]
          /\ \A a \in Actors : LocShape(loc[a])
      BY Literals DEF Init
    <2>3. ConnShape(conn) /\ SrvShape(srv) /\ rpcs \in Int
      BY SMTT(30), Literals DEF Init
    <2>4. minor \in {0, 1} /\ closing \in {"no", "session", "clientid", "rpc", "closed"}
      BY DEF Init
    <2>5. mounted \in BOOLEAN
      BY DEF Init
    <2> QED  BY <2>1, <2>2, <2>3, <2>4, <2>5 DEF Shape
  <1>2. PairInv
    BY Literals DEF Init, PairInv
  <1>3. DialInv /\ ClientsClosed
    BY DEF Init, DialInv, ClientsClosed, Mounting, MountSteps
  <1> QED  BY <1>1, <1>2, <1>3

\* What a's step leaves and changes.
LEMMA DoesFacts ==
    ASSUME Shape, NEW a \in Actors, NEW to \in Pcs, NEW l, LocShape(l), Does(a, to, l)
    PROVE  /\ pc' \in [Actors -> Pcs] /\ pc'[a] = to /\ loc'[a] = l
           /\ \A b \in Actors \ {a} : pc'[b] = pc[b] /\ loc'[b] = loc[b]
           /\ DOMAIN loc' = Actors /\ loc' = [b \in Actors |-> loc'[b]]
           /\ \A b \in Actors : LocShape(loc'[b])
  <1>1. pc' \in [Actors -> Pcs] /\ pc'[a] = to /\ \A b \in Actors \ {a} : pc'[b] = pc[b]
    BY DEF Does, Shape
  <1>2. loc' = [b \in Actors |-> IF b = a THEN l ELSE loc[b]]
    BY DEF Does, Shape
  <1>3. /\ loc'[a] = l /\ \A b \in Actors \ {a} : loc'[b] = loc[b]
        /\ DOMAIN loc' = Actors /\ loc' = [b \in Actors |-> loc'[b]]
    BY <1>2
  <1>4. \A b \in Actors : LocShape(loc'[b])
    BY <1>3 DEF Shape
  <1> QED  BY <1>1, <1>3, <1>4

\* A step that leaves loc alone.
LEMMA DoesGo ==
    ASSUME Shape, NEW a \in Actors, NEW to \in Pcs, Go(a, to), UNCHANGED loc
    PROVE  Does(a, to, loc[a]) /\ LocShape(loc[a])
  <1>1. loc = [loc EXCEPT ![a] = loc[a]]
    BY DEF Shape
  <1> QED  BY <1>1 DEF Go, Does, Shape
-----------------------------------------------------------------------------
(* The RPC clients.                                                        *)

\* The ways a step of a can go.
Inside(a, to) ==
    pc[a] \in MountSteps /\ to \in MountSteps /\ rpcs' = rpcs /\ mounted' = mounted
Abandon(a, to) ==
    /\ ~mounted /\ ~mounted' /\ pc[a] \in MountSteps /\ to \in {"dial", "idle"}
    /\ rpcs' = rpcs - 1
Dialed(a, to) ==
    /\ pc[a] = "dial" /\ mounted' = mounted
    /\ \/ to = "mount" /\ rpcs' = rpcs + 1
       \/ to = "idle" /\ rpcs' = rpcs
FirstDial(a, to) ==
    /\ ~mounted /\ ~mounted' /\ (\A b \in Actors : pc[b] = "idle")
    /\ to = "dial" /\ rpcs' = rpcs
Succeeds(a, to) ==
    /\ pc[a] \in MountSteps /\ closing # "closed" /\ mounted' = TRUE
    /\ to \in {"idle", "fn"} /\ rpcs' = rpcs
Later(a, to) == mounted /\ mounted' /\ to # "dial" /\ rpcs' = rpcs

\* A step that goes one of these ways keeps the RPC clients balanced.
LEMMA DialMove ==
    ASSUME Shape, DialInv, ClientsClosed, NEW a \in Actors, NEW to \in Pcs, NEW l, LocShape(l),
           Does(a, to, l), closing' = closing,
           \/ Inside(a, to) \/ Abandon(a, to) \/ Dialed(a, to) \/ FirstDial(a, to)
           \/ Succeeds(a, to) \/ Later(a, to)
    PROVE  DialInv' /\ ClientsClosed'
  <1>1. pc'[a] = to /\ \A b \in Actors \ {a} : pc'[b] = pc[b]
    BY DoesFacts
  <1>2. CASE Later(a, to)
    <2>1. DialInv'
      BY <1>1, <1>2 DEF Later, DialInv
    <2>2. ClientsClosed'
      BY <1>2 DEF Later, ClientsClosed
    <2> QED  BY <2>1, <2>2
  <1>3. CASE Inside(a, to)
    <2>1. pc[a] \notin {"idle", "dial"} /\ to \notin {"idle", "dial", "fn", "send"}
      BY <1>3 DEF Inside, MountSteps
    <2>2. DialInv'
      BY <1>1, <1>3, <2>1 DEF Inside, DialInv
    <2>3. ClientsClosed'
      BY <1>1, <1>3 DEF Inside, ClientsClosed, Mounting
    <2> QED  BY <2>2, <2>3
  <1>4. CASE Abandon(a, to)
    <2>1. pc[a] # "idle" /\ to \notin {"fn", "send"} /\ to \notin MountSteps
      BY <1>4 DEF Abandon, MountSteps
    <2>2. closing = "no" /\ \A b \in Actors \ {a} : pc[b] = "idle"
      BY <1>4, <2>1 DEF Abandon, DialInv
    <2>3. DialInv'
      BY <1>1, <1>4, <2>1, <2>2 DEF Abandon, DialInv
    <2>4. rpcs = 1
      BY <1>4, <2>2 DEF Abandon, ClientsClosed, Mounting
    <2>5. ~\E b \in Actors : pc'[b] \in MountSteps
      BY <1>1, <2>1, <2>2 DEF MountSteps
    <2>6. ClientsClosed'
      BY <1>4, <2>4, <2>5, SMTT(30) DEF Abandon, ClientsClosed, Mounting
    <2> QED  BY <2>3, <2>6
  <1>5. CASE Dialed(a, to)
    <2>1. ~mounted /\ ~mounted' /\ closing = "no" /\ \A b \in Actors \ {a} : pc[b] = "idle"
      BY <1>5 DEF Dialed, DialInv
    <2>2. to \notin {"fn", "send"}
      BY <1>5 DEF Dialed
    <2>3. DialInv'
      BY <1>1, <2>1, <2>2 DEF DialInv
    <2>4. rpcs = 0
      BY <1>5, <2>1 DEF Dialed, ClientsClosed, Mounting, MountSteps
    <2>5. ClientsClosed'
      BY <1>1, <1>5, <2>1, <2>4, SMTT(30) DEF Dialed, ClientsClosed, Mounting, MountSteps
    <2> QED  BY <2>3, <2>5
  <1>6. CASE FirstDial(a, to)
    <2>1. DialInv'
      BY <1>1, <1>6 DEF FirstDial, DialInv
    <2>2. rpcs = 0
      BY <1>6 DEF FirstDial, ClientsClosed, Mounting, MountSteps
    <2>3. ClientsClosed'
      BY <1>1, <1>6, <2>2, SMTT(30) DEF FirstDial, ClientsClosed, Mounting, MountSteps
    <2> QED  BY <2>1, <2>3
  <1>7. CASE Succeeds(a, to)
    <2>1. \A b \in Actors \ {a} : pc[b] # "dial"
      BY <1>7 DEF Succeeds, DialInv, MountSteps
    <2>2. DialInv'
      BY <1>1, <1>7, <2>1 DEF Succeeds, DialInv
    <2>3. ClientsClosed'
      BY <1>7 DEF Succeeds, ClientsClosed, Mounting
    <2> QED  BY <2>2, <2>3
  <1> QED  BY <1>2, <1>3, <1>4, <1>5, <1>6, <1>7
-----------------------------------------------------------------------------
(* The minor version.                                                      *)

(***************************************************************************)
(* A server without v4.1 has no session, so a chain of sessionCallers is   *)
(* not accepted; only one that answers with no results lets a v4.1 mount   *)
(* pass EXCHANGE_ID.  DialAuto is at v4.0 only after such a server.        *)
(***************************************************************************)
NegInv ==
    /\ setup.server # "both" => srv.session = None
    /\ setup.config = "auto" /\ minor = 0 /\ (mounted \/ \E a \in Actors : pc[a] # "idle")
          => setup.server # "both"
    /\ minor = 1 /\ setup.server # "both" => ~mounted
    /\ \A a \in Actors :
          /\ minor = 0 => pc[a] \notin {"create", "install", "reclaim"}
          /\ minor = 1 => pc[a] # "confirm"
          /\ minor = 1 /\ setup.server # "both" =>
                pc[a] \in {"idle", "dial", "mount"} \/ setup.server = "mismatch"
          /\ minor = 1 /\ pc[a] \in {"reclaim", "root"} => conn.chain # <<>>

IInv == Shape /\ PairInv /\ DialInv /\ NegInv /\ ClientsClosed

OthersIdle(a) == \A b \in Actors \ {a} : pc[b] = "idle"

\* What the step of a needs for NegInv.
Fits(a, to) ==
    /\ setup' = setup /\ minor' \in {0, 1}
    /\ setup.server # "both" => srv'.session = None
    /\ setup.config = "auto" /\ minor' = 0 /\ (to # "idle" \/ mounted') => setup.server # "both"
    /\ minor' = 1 /\ setup.server # "both" => ~mounted'
    /\ minor' = 0 => to \notin {"create", "install", "reclaim"}
    /\ minor' = 1 => to # "confirm"
    /\ minor' = 1 /\ setup.server # "both" =>
          to \in {"idle", "dial", "mount"} \/ setup.server = "mismatch"
    /\ minor' = 1 /\ to \in {"reclaim", "root"} => conn'.chain # <<>>
    /\ minor' = minor \/ OthersIdle(a)
    /\ conn'.chain # <<>> \/ conn'.chain = conn.chain \/ OthersIdle(a)

\* One step of a, whichever it is.
LEMMA Move ==
    ASSUME IInv, NEW a \in Actors, NEW to \in Pcs, NEW l, LocShape(l), Does(a, to, l),
           \/ Inside(a, to) \/ Abandon(a, to) \/ Dialed(a, to) \/ FirstDial(a, to)
           \/ Succeeds(a, to) \/ Later(a, to),
           closing' = closing, mounted' \in BOOLEAN, Fits(a, to),
           ConnShape(conn'), SrvShape(srv'), conn'.clientID = conn'.confirm,
           to \in {"store", "confirm", "create"} => l.id = l.confirm
    PROVE  IInv'
  <1>1. /\ pc' \in [Actors -> Pcs] /\ pc'[a] = to /\ loc'[a] = l
        /\ \A b \in Actors \ {a} : pc'[b] = pc[b] /\ loc'[b] = loc[b]
        /\ DOMAIN loc' = Actors /\ loc' = [b \in Actors |-> loc'[b]]
        /\ \A b \in Actors : LocShape(loc'[b])
    BY DoesFacts DEF IInv
  <1>2. DialInv' /\ ClientsClosed'
    BY DialMove DEF IInv
  <1>3. PairInv'
    BY <1>1 DEF PairInv, IInv
  <1>4. Shape'
    <2>1. rpcs' \in Int
      <3>1. rpcs' = rpcs \/ rpcs' = rpcs + 1 \/ rpcs' = rpcs - 1
        BY DEF Inside, Abandon, Dialed, FirstDial, Succeeds, Later
      <3> QED  BY SMTT(30), <3>1 DEF IInv, Shape
    <2>2. closing' \in {"no", "session", "clientid", "rpc", "closed"} /\ minor' \in {0, 1}
      BY DEF IInv, Shape, Fits
    <2> QED  BY <1>1, <2>1, <2>2 DEF Shape
  <1>5. NegInv'
    <2>1. setup.server # "both" => srv'.session = None
      BY DEF Fits
    <2>2. setup.config = "auto" /\ minor' = 0 /\ (mounted' \/ \E b \in Actors : pc'[b] # "idle")
             => setup.server # "both"
      BY ZenonT(40), <1>1 DEF Fits, OthersIdle, IInv, NegInv
    <2>3. minor' = 1 /\ setup.server # "both" => ~mounted'
      BY DEF Fits
    <2>4. ASSUME NEW b \in Actors
          PROVE  /\ minor' = 0 => pc'[b] \notin {"create", "install", "reclaim"}
                 /\ minor' = 1 => pc'[b] # "confirm"
                 /\ minor' = 1 /\ setup.server # "both" =>
                       pc'[b] \in {"idle", "dial", "mount"} \/ setup.server = "mismatch"
                 /\ minor' = 1 /\ pc'[b] \in {"reclaim", "root"} => conn'.chain # <<>>
      BY <1>1 DEF Fits, OthersIdle, IInv, NegInv
    <2>5. setup' = setup
      BY DEF Fits
    <2> QED  BY <2>1, <2>2, <2>3, <2>4, <2>5 DEF NegInv
  <1> QED  BY <1>2, <1>3, <1>4, <1>5 DEF IInv

\* What the server makes of a compound.
LEMMA ServedFacts ==
    ASSUME IInv, NEW a \in Actors
    PROVE  SrvShape(Served(a)) /\ (setup.server # "both" => Served(a).session = None)
  <1>1. SrvShape(srv) /\ (setup.server # "both" => srv.session = None)
    BY DEF IInv, Shape, NegInv
  <1>2. pc[a] = "create" /\ ~Unsupported => setup.server = "both"
    BY DEF IInv, Shape, NegInv, Unsupported
  <1> DEFINE made == [srv EXCEPT !.unconfirmed = Fresh]
             confirmed == [srv EXCEPT !.confirmed = loc[a].id, !.unconfirmed = Pending(loc[a].id)]
             created == [confirmed |-> loc[a].id, unconfirmed |-> Pending(loc[a].id),
                         session |-> Fresh]
  <1>3. \/ Served(a) \in {srv, made, confirmed}
        \/ Served(a) = created /\ pc[a] = "create" /\ ~Unsupported
    BY DEF Served
  <1>4. SrvShape(made) /\ made.session = srv.session
    BY <1>1 DEF SrvShape
  <1>5. SrvShape(confirmed) /\ confirmed.session = srv.session
    BY <1>1 DEF SrvShape
  <1>6. SrvShape(created)
    BY DEF SrvShape
  <1> HIDE DEF made, confirmed, created
  <1> QED  BY <1>1, <1>2, <1>3, <1>4, <1>5, <1>6
-----------------------------------------------------------------------------
(* The actions.                                                            *)

\* The outcomes of MountFails, and what they need.
LEMMA FailStep ==
    ASSUME IInv, NEW a \in Actors, NEW err, MountFails(a, err), pc[a] \in MountSteps,
           mounted' = mounted, closing' = closing, setup' = setup, SrvShape(srv'),
           setup.server # "both" => srv'.session = None,
           minor = 1 /\ isMinorVersionFallback(err) => setup.server # "both"
    PROVE  IInv'
  <1>1. PICK to \in {"dial", "idle"} :
            /\ Does(a, to, NoLoc)
            /\ mounted => to = "idle" /\ UNCHANGED <<rpcs, minor, conn>>
            /\ ~mounted => conn' = NewConn /\ rpcs' = rpcs - 1
            /\ to = "dial" => minor = 1 /\ minor' = 0 /\ isMinorVersionFallback(err)
            /\ to = "idle" => minor' = minor
    BY DEF MountFails, End, Go, Hold, Does
  <1>2. to \in Pcs /\ LocShape(NoLoc) /\ mounted \in BOOLEAN /\ pc[a] # "idle" /\ minor \in {0, 1}
    BY Literals DEF Pcs, IInv, Shape, MountSteps
  <1>3. Abandon(a, to) \/ Later(a, to)
    BY <1>1, <1>2 DEF Abandon, Later
  <1>4. /\ ConnShape(conn') /\ conn'.clientID = conn'.confirm
        /\ conn'.chain = conn.chain \/ ~mounted
    BY <1>1, Literals DEF IInv, Shape, PairInv
  <1>5. ~mounted => OthersIdle(a)
    BY <1>2 DEF IInv, DialInv, OthersIdle
  <1>6. Fits(a, to)
    <2>1. minor' \in {0, 1} /\ (minor' = minor \/ OthersIdle(a))
      BY <1>1, <1>2, <1>5, SMTT(30)
    <2>2. setup.config = "auto" /\ minor' = 0 /\ (to # "idle" \/ mounted') => setup.server # "both"
      BY <1>1, <1>2 DEF IInv, NegInv
    <2>3. minor' = 1 /\ setup.server # "both" => ~mounted'
      BY <1>1, <1>2 DEF IInv, NegInv
    <2> QED  BY <1>4, <1>5, <2>1, <2>2, <2>3 DEF Fits
  <1> QED  BY <1>1, <1>2, <1>3, <1>4, <1>6, Move

\* A step inside a mount, or after one, that does not fail.
LEMMA PlainStep ==
    ASSUME IInv, NEW a \in Actors, NEW to \in Pcs, NEW l, LocShape(l), Does(a, to, l),
           Inside(a, to) \/ (mounted /\ to # "dial"),
           UNCHANGED <<rpcs, minor, mounted, closing, setup>>,
           ConnShape(conn'), conn'.clientID = conn'.confirm,
           conn'.chain # <<>> \/ conn'.chain = conn.chain,
           SrvShape(srv'), setup.server # "both" => srv'.session = None,
           to \in {"store", "confirm", "create"} => l.id = l.confirm,
           minor = 0 => to \notin {"create", "install", "reclaim"},
           minor = 1 => to # "confirm",
           minor = 1 /\ setup.server # "both" => setup.server = "mismatch" /\ ~mounted,
           minor = 1 /\ to \in {"reclaim", "root"} => conn'.chain # <<>>
    PROVE  IInv'
  <1>1. minor \in {0, 1} /\ mounted' \in BOOLEAN
    BY DEF IInv, Shape
  <1>2. Inside(a, to) \/ Later(a, to)
    BY DEF Inside, Later
  <1>3. pc[a] # "idle" \/ mounted
    BY <1>2 DEF Inside, Later, MountSteps
  <1>4. Fits(a, to)
    BY <1>1, <1>3 DEF Fits, IInv, NegInv
  <1> QED  BY <1>1, <1>2, <1>4, Move

\* What every step finds.
LEMMA Common ==
    ASSUME IInv, NEW a \in Actors
    PROVE  /\ ConnShape(conn) /\ SrvShape(srv) /\ LocShape(loc[a]) /\ LocShape(NoLoc)
           /\ conn.clientID = conn.confirm
           /\ setup.server # "both" => srv.session = None
           /\ minor = 1 /\ setup.server # "both" => ~mounted
           /\ minor = 1 /\ setup.server # "both" /\ pc[a] \notin {"idle", "dial", "mount"} =>
                 setup.server = "mismatch"
           /\ pc[a] \in {"fn", "send"} => mounted
           /\ minor \in {0, 1}
  BY Literals DEF IInv, Shape, PairInv, NegInv, DialInv

\* The operations, between mounts.
LEMMA OperationStep ==
    ASSUME IInv, NEW a \in Actors, Begin(a) \/ ReadClientID(a) \/ Fn(a)
    PROVE  IInv'
  <1>1. mounted
    BY Common DEF Begin, ReadClientID, Fn
  <1>2. UNCHANGED <<rpcs, minor, mounted, closing, setup, conn, srv>>
    BY DEF Begin, ReadClientID, Fn, Untouched, Still
  <1>3. \E to \in {"fn", "send", "idle", "mount"} : \E l : LocShape(l) /\ Does(a, to, l)
    <2>1. CASE Begin(a)
      <3>1. Go(a, "fn") /\ UNCHANGED loc /\ "fn" \in Pcs
        BY <2>1 DEF Begin, Pcs
      <3> QED  BY <3>1, DoesGo DEF IInv
    <2>2. CASE ReadClientID(a)
      <3>1. LocShape([loc[a] EXCEPT !.id = conn.clientID])
        BY Common DEF LocShape
      <3> QED  BY <2>2, <3>1 DEF ReadClientID, Go, Hold, Does
    <2>3. CASE Fn(a)
      <3>1. (\E to \in {"idle", "mount"} : Go(a, to)) /\ Hold(a, NoLoc)
        BY <2>3 DEF Fn, End, StateLost
      <3> QED  BY <3>1, Common DEF Go, Hold, Does
    <2> QED  BY <2>1, <2>2, <2>3
  <1>4. PICK to \in {"fn", "send", "idle", "mount"} : \E l : LocShape(l) /\ Does(a, to, l)
    BY <1>3
  <1>5. to \in Pcs
    BY DEF Pcs, MountSteps
  <1> QED  BY <1>1, <1>2, <1>4, <1>5, Common, PlainStep

\* Dial and DialAuto, up to NewConn.
LEMMA DialStep ==
    ASSUME IInv, NEW a \in Actors, BeginDial(a) \/ DialRPC(a)
    PROVE  IInv'
  <1>1. UNCHANGED <<mounted, closing, setup, conn, srv>> /\ mounted \in BOOLEAN
    BY DEF BeginDial, DialRPC, Still, IInv, Shape
  <1>2. "dial" \in Pcs /\ "mount" \in Pcs /\ "idle" \in Pcs
    BY DEF Pcs, MountSteps
  <1>3. CASE BeginDial(a)
    <2>1. ~mounted /\ Does(a, "dial", loc[a])
      BY <1>2, <1>3, DoesGo DEF BeginDial, IInv
    <2>2. FirstDial(a, "dial")
      BY <1>1, <1>3, SMTT(30) DEF BeginDial, FirstDial
    <2>3. Fits(a, "dial")
      <3>1. /\ minor' = IF setup.config = "v40" THEN 0 ELSE 1
            /\ OthersIdle(a)
        BY <1>3 DEF BeginDial, OthersIdle
      <3>2. setup.server # "both" => srv'.session = None
        BY <1>1, Common
      <3>3. /\ "dial" \notin {"create", "install", "reclaim"} /\ "dial" # "confirm"
            /\ "dial" \in {"idle", "dial", "mount"} /\ "dial" \notin {"reclaim", "root"}
        OBVIOUS
      <3>4. minor' \in {0, 1} /\ (setup.config = "auto" => minor' # 0)
        BY SMTT(30), <3>1
      <3> QED  BY <1>1, <2>1, <3>1, <3>2, <3>3, <3>4 DEF Fits
    <2> QED  BY <1>1, <1>2, <2>1, <2>2, <2>3, Common, Move
  <1>4. CASE DialRPC(a)
    <2>1. PICK to \in {"mount", "idle"} :
              /\ \E l : LocShape(l) /\ Does(a, to, l)
              /\ Dialed(a, to) /\ minor' = minor
      <3>1. CASE Go(a, "mount") /\ rpcs' = rpcs + 1 /\ UNCHANGED loc
        BY <1>1, <1>2, <1>4, <3>1, DoesGo DEF DialRPC, Dialed, IInv
      <3>2. CASE End(a, "mountErr") /\ rpcs' = rpcs
        BY <1>1, <1>4, <3>2, Common DEF DialRPC, End, Go, Hold, Does, Dialed
      <3> QED  BY <1>4, <3>1, <3>2, SMTT(30) DEF DialRPC
    <2>2. ~mounted /\ pc[a] = "dial"
      BY <1>4 DEF DialRPC, IInv, DialInv
    <2>3. Fits(a, to)
      BY <1>1, <2>1, <2>2, Common DEF Fits, IInv, NegInv
    <2> QED  BY <1>1, <1>2, <2>1, <2>3, Common, Move
  <1> QED  BY <1>3, <1>4

\* setClientID and exchangeID.
LEMMA ClientStep ==
    ASSUME IInv, NEW a \in Actors, SendClient(a) \/ StoreClient(a) \/ ReadClient(a)
    PROVE  IInv'
  <1>1. UNCHANGED <<mounted, closing, setup>> /\ pc[a] \in MountSteps
    BY DEF SendClient, StoreClient, ReadClient, Untouched, Still, MountSteps
  <1>2. "store" \in Pcs /\ "read" \in Pcs /\ "confirm" \in Pcs /\ "create" \in Pcs
        /\ "store" \in MountSteps /\ "read" \in MountSteps /\ "confirm" \in MountSteps
        /\ "create" \in MountSteps
    BY DEF Pcs, MountSteps
  <1>3. ASSUME NEW id, NEW c
        PROVE  LET l == [NoLoc EXCEPT !.id = id, !.confirm = c]
               IN  LocShape(l) /\ l.id = id /\ l.confirm = c
    BY SMTT(30) DEF NoLoc, LocShape
  <1>4. CASE SendClient(a)
    <2>1. SrvShape(srv') /\ (setup.server # "both" => srv'.session = None)
      BY <1>4, ServedFacts DEF SendClient
    <2>2. ASSUME NEW id, Go(a, "store"), Hold(a, [NoLoc EXCEPT !.id = id, !.confirm = id]),
                 Zeroes \/ ~Unsupported, UNCHANGED <<rpcs, minor, conn>>
          PROVE  IInv'
      <3> DEFINE l == [NoLoc EXCEPT !.id = id, !.confirm = id]
      <3>1. Does(a, "store", l) /\ LocShape(l) /\ l.id = l.confirm
        BY <1>3, <2>2 DEF Go, Hold, Does
      <3> HIDE DEF l
      <3>2. Inside(a, "store")
        BY <1>1, <1>2, <2>2 DEF Inside
      <3>3. minor = 1 /\ setup.server # "both" => setup.server = "mismatch" /\ ~mounted
        BY <2>2, Common DEF Zeroes, Unsupported
      <3> QED  BY <1>1, <1>2, <2>1, <2>2, <3>1, <3>2, <3>3, Common, PlainStep
    <2>3. ASSUME NEW err, MountFails(a, err),
                 err = IF minor = 1 /\ setup.server = "notsupp" THEN "NOTSUPP" ELSE "other"
          PROVE  IInv'
      <3>1. minor = 1 /\ isMinorVersionFallback(err) => setup.server # "both"
        BY <2>3, SMTT(30) DEF isMinorVersionFallback
      <3> QED  BY <1>1, <2>1, <2>3, <3>1, FailStep
    <2> QED  BY <1>4, <2>2, <2>3 DEF SendClient
  <1>5. CASE StoreClient(a)
    <2>1. Does(a, "read", NoLoc) /\ UNCHANGED <<rpcs, minor, srv>>
      BY <1>5 DEF StoreClient, Go, Hold, Does, Untouched
    <2>2. loc[a].id = loc[a].confirm /\ pc[a] = "store"
      BY <1>5 DEF StoreClient, IInv, PairInv
    <2>3. ConnShape(conn') /\ conn'.clientID = conn'.confirm /\ conn'.chain = conn.chain
      BY <1>5, <2>2, Common DEF StoreClient, ConnShape
    <2>4. Inside(a, "read")
      BY <1>1, <1>2, <2>1, SMTT(30) DEF Inside
    <2> QED  BY <1>1, <1>2, <2>1, <2>2, <2>3, <2>4, Common, PlainStep
  <1>6. CASE ReadClient(a)
    <2> DEFINE to == IF minor = 0 THEN "confirm" ELSE "create"
               l == [NoLoc EXCEPT !.id = conn.clientID, !.confirm = conn.confirm]
    <2>1. Does(a, to, l) /\ UNCHANGED <<rpcs, minor, srv, conn>> /\ pc[a] = "read"
      BY <1>6 DEF ReadClient, Go, Hold, Does, Untouched
    <2>2. LocShape(l) /\ l.id = l.confirm
      <3>1. LocShape(l) /\ l.id = conn.clientID /\ l.confirm = conn.confirm
        BY DEF NoLoc, LocShape
      <3> QED  BY <3>1, Common
    <2>3. /\ to \in Pcs /\ to \in MountSteps /\ to \notin {"reclaim", "root", "dial"}
          /\ minor = 0 => to \notin {"create", "install", "reclaim"}
          /\ minor = 1 => to # "confirm"
      BY SMTT(30), <1>2
    <2> HIDE DEF to, l
    <2>4. Inside(a, to)
      BY <1>1, <2>1, <2>3 DEF Inside
    <2> QED  BY <1>1, <2>1, <2>2, <2>3, <2>4, Common, PlainStep
  <1> QED  BY <1>4, <1>5, <1>6

\* confirmClientID, createSession and reclaimComplete.
LEMMA SessionStep ==
    ASSUME IInv, NEW a \in Actors, Confirm(a) \/ Create(a) \/ Install(a) \/ Reclaim(a)
    PROVE  IInv'
  <1>1. UNCHANGED <<mounted, closing, setup>> /\ pc[a] \in MountSteps
        /\ pc[a] \notin {"idle", "dial", "mount"}
    BY DEF Confirm, Create, Install, Reclaim, Untouched, Still, MountSteps
  <1>2. "root" \in Pcs /\ "install" \in Pcs /\ "reclaim" \in Pcs
        /\ "root" \in MountSteps /\ "install" \in MountSteps /\ "reclaim" \in MountSteps
    BY DEF Pcs, MountSteps
  <1>3. SrvShape(srv') /\ (setup.server # "both" => srv'.session = None)
    BY ServedFacts, Common DEF Confirm, Create, Install, Reclaim
  <1>4. minor = 0 => pc[a] \notin {"create", "install", "reclaim"}
    BY DEF IInv, NegInv
  <1>5. minor = 1 /\ setup.server # "both" => setup.server = "mismatch" /\ ~mounted
    BY <1>1, Common
  <1>6. ASSUME MountFails(a, "other")
        PROVE  IInv'
    BY <1>1, <1>3, <1>6, FailStep DEF isMinorVersionFallback
  <1>7. CASE Confirm(a) /\ ~MountFails(a, "other")
    <2>1. Does(a, "root", NoLoc) /\ UNCHANGED <<rpcs, minor, conn>>
      BY <1>7 DEF Confirm, Go, Hold, Does
    <2>2. Inside(a, "root")
      BY <1>1, <1>2, <2>1, SMTT(30) DEF Inside
    <2>3. minor = 0
      BY <1>7, Common DEF Confirm, IInv, NegInv
    <2> QED  BY SMTT(30), <1>1, <1>2, <1>3, <2>1, <2>2, <2>3, Common, PlainStep
  <1>8. CASE Create(a) /\ ~MountFails(a, "other")
    <2> DEFINE l == [NoLoc EXCEPT !.id = IF Zeroes THEN None ELSE srv'.session]
    <2>1. Does(a, "install", l) /\ UNCHANGED <<rpcs, minor, conn>> /\ pc[a] = "create"
      BY <1>8 DEF Create, Go, Hold, Does
    <2>2. LocShape(l)
      BY Common DEF LocShape
    <2> HIDE DEF l
    <2>3. Inside(a, "install")
      BY <1>1, <1>2, <2>1, SMTT(30) DEF Inside
    <2> QED  BY <1>1, <1>2, <1>3, <1>4, <1>5, <2>1, <2>2, <2>3, Common, PlainStep
  <1>9. CASE Install(a)
    <2>1. Does(a, "reclaim", NoLoc) /\ UNCHANGED <<rpcs, minor>> /\ pc[a] = "install"
      BY <1>9 DEF Install, Go, Hold, Does, Untouched
    <2>2. /\ ConnShape(conn') /\ conn'.clientID = conn'.confirm
          /\ conn'.chain = <<loc[a].id>> \o conn.chain
      BY <1>9, Common DEF Install, ConnShape
    <2>3. conn'.chain # <<>>
      BY SMTT(30), <2>2
    <2>4. Inside(a, "reclaim")
      BY <1>1, <1>2, <2>1, SMTT(30) DEF Inside
    <2> QED  BY <1>1, <1>2, <1>3, <1>4, <1>5, <2>1, <2>2, <2>3, <2>4, Common, PlainStep
  <1>10. CASE Reclaim(a) /\ ~MountFails(a, "other")
    <2>1. Does(a, "root", loc[a]) /\ UNCHANGED <<rpcs, minor, conn>> /\ pc[a] = "reclaim"
      <3>1. Go(a, "root") /\ UNCHANGED <<loc, rpcs, minor, conn>> /\ pc[a] = "reclaim"
        BY <1>10 DEF Reclaim
      <3>2. Shape
        BY DEF IInv
      <3> QED  BY <1>2, <3>1, <3>2, DoesGo
    <2>2. Inside(a, "root")
      BY <1>1, <1>2, <2>1 DEF Inside
    <2>3. minor = 1 => conn.chain # <<>>
      BY <2>1 DEF IInv, NegInv
    <2> QED  BY <1>1, <1>2, <1>3, <1>5, <2>1, <2>2, <2>3, Common, PlainStep
  <1> QED  BY <1>6, <1>7, <1>8, <1>9, <1>10

\* fetchRootFH, which ends a mount.
LEMMA RootStep ==
    ASSUME IInv, NEW a \in Actors, FetchRootFH(a)
    PROVE  IInv'
  <1>1. /\ UNCHANGED <<closing, setup, srv>> /\ pc[a] = "root" /\ pc[a] \in MountSteps
        /\ closing # "closed" /\ mounted \in BOOLEAN
    BY DEF FetchRootFH, Connected, Still, MountSteps, IInv, Shape
  <1>2. CASE Accepted(conn.chain)
    <2>1. mounted' = TRUE /\ UNCHANGED <<rpcs, minor, conn>>
      BY <1>2 DEF FetchRootFH
    <2>2. PICK to \in {"idle", "fn"} : \E l : LocShape(l) /\ Does(a, to, l)
      <3>1. LocShape([NoLoc EXCEPT !.retry = TRUE])
        BY Common DEF LocShape
      <3> QED  BY <1>2, <3>1, Common DEF FetchRootFH, End, Go, Hold, Does
    <2>3. to \in Pcs
      BY DEF Pcs
    <2>4. Succeeds(a, to)
      BY <1>1, <2>1 DEF Succeeds
    <2>5. minor = 1 => setup.server = "both"
      BY <1>1, <1>2, Common DEF Accepted, IInv, NegInv
    <2>6. Fits(a, to)
      <3>1. setup.config = "auto" /\ minor = 0 => setup.server # "both"
        BY <1>1, SMTT(30) DEF IInv, NegInv
      <3> QED  BY <1>1, <2>1, <2>5, <3>1, Common, SMTT(30) DEF Fits
    <2> QED  BY <1>1, <2>1, <2>2, <2>3, <2>4, <2>6, Common, Move
  <1>3. CASE ~Accepted(conn.chain)
    <2>1. PICK err \in {"MINOR_VERS_MISMATCH", "other"} :
              MountFails(a, err) /\ (err # "other" => Zeroes) /\ mounted' = mounted
      BY <1>3 DEF FetchRootFH
    <2>2. minor = 1 /\ isMinorVersionFallback(err) => setup.server # "both"
      BY <2>1 DEF isMinorVersionFallback, Zeroes
    <2> QED  BY <1>1, <2>1, <2>2, Common, FailStep
  <1> QED  BY <1>2, <1>3

\* A round trip that fails.
LEMMA FaultStep ==
    ASSUME IInv, NEW a \in Actors, TripFails(a)
    PROVE  IInv'
  <1>1. UNCHANGED <<mounted, closing, setup>> /\ Sending(a)
    BY DEF TripFails, Still
  <1>2. SrvShape(srv') /\ (setup.server # "both" => srv'.session = None)
    <2>1. srv' \in {srv, Served(a)}
      BY DEF TripFails
    <2> QED  BY <2>1, ServedFacts, Common
  <1>3. CASE pc[a] = "send"
    <2>1. Does(a, "idle", NoLoc) /\ UNCHANGED <<rpcs, minor, conn>>
      BY <1>3 DEF TripFails, End, Go, Hold, Does
    <2>2. mounted /\ "idle" \in Pcs
      BY <1>3, Common DEF Pcs
    <2> QED  BY <1>1, <1>2, <2>1, <2>2, Common, PlainStep
  <1>4. CASE pc[a] # "send"
    <2>1. MountFails(a, "other") /\ pc[a] \in MountSteps
      BY <1>1, <1>4 DEF TripFails, Sending, MountSteps
    <2> QED  BY <1>1, <1>2, <2>1, FailStep DEF isMinorVersionFallback
  <1> QED  BY <1>3, <1>4

\* Steps of the server and of Close: no goroutine moves.
LEMMA ServerCloseStep ==
    ASSUME IInv, Forget \/ Close \/ DestroySession \/ DestroyClientID \/ CloseRPC
    PROVE  IInv'
  <1>1. UNCHANGED <<setup, minor, conn, mounted, pc, loc>> /\ mounted \in BOOLEAN
    BY DEF Forget, Close, DestroySession, DestroyClientID, CloseRPC, Quiet, IInv, Shape
  <1>2. SrvShape(srv') /\ (setup.server # "both" => srv'.session = None)
    <2>1. SrvShape(srv) /\ (setup.server # "both" => srv.session = None)
      BY DEF IInv, Shape, NegInv
    <2>2. /\ SrvShape([srv EXCEPT !.session = None])
          /\ [srv EXCEPT !.session = None].session = None
          /\ SrvShape([srv EXCEPT !.confirmed = None])
          /\ [srv EXCEPT !.confirmed = None].session = srv.session
      BY <2>1 DEF SrvShape
    <2>3. srv' \in {srv, NoState, [srv EXCEPT !.session = None], [srv EXCEPT !.confirmed = None]}
      BY DEF Forget, Close, DestroySession, DestroyClientID, TearDown, CloseRPC
    <2> QED  BY <2>1, <2>2, <2>3, Literals
  <1>3. \/ UNCHANGED <<rpcs, closing>>
        \/ /\ mounted /\ UNCHANGED rpcs /\ closing # "closed"
           /\ closing' \in {"session", "clientid", "rpc"}
        \/ mounted /\ rpcs' = rpcs - 1 /\ closing = "rpc" /\ closing' = "closed"
    BY DEF Forget, Close, DestroySession, DestroyClientID, CloseRPC, IInv, DialInv
  <1>4. rpcs' \in Int /\ closing' \in {"no", "session", "clientid", "rpc", "closed"}
    BY SMTT(30), <1>3 DEF IInv, Shape
  <1>5. Shape'
    BY <1>1, <1>2, <1>4 DEF IInv, Shape
  <1>6. DialInv'
    BY <1>1, <1>3 DEF IInv, DialInv
  <1>7. ClientsClosed'
    BY SMTT(30), <1>1, <1>3 DEF IInv, ClientsClosed, Mounting
  <1>8. PairInv' /\ NegInv'
    BY <1>1, <1>2 DEF IInv, PairInv, NegInv
  <1> QED  BY <1>5, <1>6, <1>7, <1>8 DEF IInv

\* Every action keeps the invariant.
LEMMA StepIInv == IInv /\ [Next]_vars => IInv'
  <1> SUFFICES ASSUME IInv, [Next]_vars
               PROVE  IInv'
    OBVIOUS
  <1>1. ASSUME NEW u \in Users, BeginDial(u)
        PROVE  IInv'
    BY <1>1, DialStep DEF Actors
  <1>2. ASSUME NEW a \in Actors, Begin(a) \/ Step(a)
        PROVE  IInv'
    BY <1>2, DialStep, OperationStep, ClientStep, SessionStep, RootStep, FaultStep DEF Step
  <1>3. CASE Forget \/ Close \/ DestroySession \/ DestroyClientID \/ CloseRPC
    BY <1>3, ServerCloseStep
  <1>4. CASE UNCHANGED vars
    <2>1. UNCHANGED <<setup, rpcs, minor, conn, mounted, closing, srv, pc, loc>>
      BY <1>4 DEF vars
    <2> QED  BY <2>1 DEF IInv, Shape, PairInv, DialInv, NegInv, ClientsClosed, Mounting
  <1> QED  BY <1>1, <1>2, <1>3, <1>4 DEF Next

\* The invariant holds initially.
LEMMA InitIInv == Init => IInv
  <1> SUFFICES ASSUME Init
               PROVE  IInv
    OBVIOUS
  <1>1. NegInv
    BY Literals DEF Init, NegInv
  <1> QED  BY <1>1, InitFacts DEF IInv

\* c.mu around the two fields: whatever mounts run at once, the client id that is
\* confirmed and its verifier are of one SETCLIENTID or EXCHANGE_ID.
THEOREM ConfirmPairedThm == Spec => []ConfirmPaired
  <1>1. IInv => ConfirmPaired
    BY DEF IInv, PairInv, ConfirmPaired
  <1> QED  BY <1>1, InitIInv, StepIInv, PTL DEF Spec

\* DialAuto and isMinorVersionFallback: the version that is returned is the
\* highest the server has, for any faults and restarts on the way.
THEOREM NegotiatedThm == Spec => []Negotiated
  <1>1. IInv => Negotiated
    BY DEF IInv, Shape, NegInv, Negotiated
  <1> QED  BY <1>1, InitIInv, StepIInv, PTL DEF Spec

\* Dial, DialAuto and Conn.Close: the RPC clients opened and closed balance.
THEOREM ClientsClosedThm == Spec => []ClientsClosed
  <1>1. IInv => ClientsClosed
    BY DEF IInv
  <1> QED  BY <1>1, InitIInv, StepIInv, PTL DEF Spec
-----------------------------------------------------------------------------
(* A mount that works, and what it leaves: the invariant, and what a step *)
(* of a goroutine does to each part of it.                                *)

\* What the fields hold when, in every execution.
FormInv ==
    /\ setup.config \in {"v40", "v41", "auto"} /\ setup.server \in Servers41
    /\ setup.config = "v40" => setup.server = "both"
    /\ mounts \in {0, 1, 2}
    /\ mounts = 0 => ~mounted /\ srv = NoState /\ \A a \in Actors : pc[a] = "idle" /\ result[a] = "none"
    /\ result \in [Actors -> {"none", "ok", "lost", "error", "mountErr"}]
    /\ alone \in [Actors -> BOOLEAN]
    /\ \A a \in Actors :
          /\ pc[a] # "idle" => result[a] = "none"
          /\ pc[a] \in {"idle", "dial", "mount"} => loc[a] = NoLoc
          /\ pc[a] \in {"confirm", "create"} /\ ~mounted => loc[a].id = conn.clientID
    /\ ~mounted => snap = NewConn
    /\ ~mounted /\ (\A a \in Actors : pc[a] \notin {"reclaim", "root"}) =>
          conn.session = None /\ conn.chain = <<>>
    /\ minor = 0 => /\ conn.session = None /\ conn.chain = <<>>
                    /\ closing \notin {"session", "clientid"}

\* The server has the client id c and the session s, or has forgotten both.
Live(v, c, s) ==
    \/ v.confirmed = None /\ v.session = None
    \/ v.confirmed = c /\ v.session = s

\* The only v4.1 mount so far, at the step p with l in hand.
CleanAt(p, l, c, v) ==
    /\ p \in {"dial", "mount", "store", "read", "create"} => v.confirmed = None /\ v.session = None
    /\ p = "install" => l.id # None /\ Live(v, c.clientID, l.id)
    /\ p \in {"reclaim", "root"} =>
          c.session # None /\ c.chain = <<c.session>> /\ Live(v, c.clientID, c.session)

\* What Close has still to undo, once that mount has succeeded.
CleanUp ==
    /\ \A a \in Actors : pc[a] \in {"idle", "fn", "send"}
    /\ conn.session # None /\ conn.chain = <<conn.session>>
    /\ closing \in {"session", "clientid"} => snap = conn
    /\ closing \in {"no", "session"} => Live(srv, conn.clientID, conn.session)
    /\ closing = "clientid" /\ ~cut => srv.session = None /\ srv.confirmed \in {None, conn.clientID}
    /\ closing \in {"rpc", "closed"} /\ ~cut => srv.session = None /\ srv.confirmed = None

First41 == minor = 1 /\ mounts = 1 /\ setup.server = "both"

CleanInv ==
    First41 => IF mounted THEN CleanUp ELSE \A a \in Actors : CleanAt(pc[a], loc[a], conn, srv)

\* A recovery or first mount that nothing disturbs, at the step p with l in hand.
SoundAt(p, l, c, v, m) ==
    /\ p \in {"store", "confirm", "create"} => l.id = v.unconfirmed
    /\ p \in {"read", "confirm", "create"} => c.clientID = v.unconfirmed
    /\ p = "install" => l.id # None /\ l.id = v.session
    /\ p \in {"reclaim", "root"} /\ m = 1 => v.session # None /\ c.chain = <<v.session>>
    /\ p \in {"root", "fn"} /\ m = 0 => c.clientID = v.confirmed
    /\ p = "send" => l.id = v.confirmed

\* A mount that is expected to work.
Expected == minor = 0 \/ (~mounted /\ ~Hopeless)

RetryInv ==
    /\ Hopeless => minor = 1 \/ mounts = 0
    /\ RetryWorks
    /\ \A a \in Actors :
          alone[a] /\ (Mounting(a) \/ Retrying(a)) /\ Expected =>
              /\ \A b \in Actors \ {a} : ~Mounting(b)
              /\ minor = 0 \/ setup.server = "both" => SoundAt(pc[a], loc[a], conn, srv, minor)

Mount41 == FormInv /\ CleanInv /\ RetryInv

\* The server has an id to give while at most three are in use.
LEMMA FreshId ==
    ASSUME NEW x, NEW y, NEW z, InUse \subseteq {None, x, y, z}
    PROVE  Fresh # None
  <1> DEFINE Free == IDs \ InUse
  <1>1. 1 \in IDs /\ 2 \in IDs /\ 3 \in IDs /\ 4 \in IDs /\ \A j \in Free : j \in Int /\ j >= 1
    BY SMTT(30), IDsEnough DEF IDs
  <1>2. 1 \in Free \/ 2 \in Free \/ 3 \in Free \/ 4 \in Free
    BY SMTT(30), <1>1, ActorsDistinct
  <1> HIDE DEF Free
  <1>3. \E i \in Free : \A j \in Free : i <= j
    <2>1. CASE 1 \in Free
      BY <2>1, <1>1
    <2>2. CASE 1 \notin Free /\ 2 \in Free
      <3>1. \A j \in Free : 2 <= j
        BY SMTT(30), <2>2, <1>1
      <3> QED  BY <2>2, <3>1
    <2>3. CASE 1 \notin Free /\ 2 \notin Free /\ 3 \in Free
      <3>1. \A j \in Free : 3 <= j
        BY SMTT(30), <2>3, <1>1
      <3> QED  BY <2>3, <3>1
    <2>4. CASE 1 \notin Free /\ 2 \notin Free /\ 3 \notin Free /\ 4 \in Free
      <3>1. \A j \in Free : 4 <= j
        BY SMTT(30), <2>4, <1>1
      <3> QED  BY <2>4, <3>1
    <2> QED  BY <1>2, <2>1, <2>2, <2>3, <2>4
  <1>4. Fresh \in Free
    BY <1>3 DEF Fresh, Free
  <1> QED  BY <1>4, ActorsDistinct DEF Free

\* What a step of a leaves of FormInv.
FormKeeps(a, to, l) ==
    /\ setup' = setup /\ mounts' \in {1, 2}
    /\ result' \in [Actors -> {"none", "ok", "lost", "error", "mountErr"}]
    /\ alone' \in [Actors -> BOOLEAN]
    /\ \A b \in Actors \ {a} : result'[b] = result[b]
    /\ to # "idle" => result'[a] = "none"
    /\ to \in {"idle", "dial", "mount"} => l = NoLoc
    /\ to \in {"confirm", "create"} /\ ~mounted' => l.id = conn'.clientID
    /\ mounted' \/ OthersIdle(a)
    /\ ~mounted' => snap' = NewConn
    /\ ~mounted' /\ to \notin {"reclaim", "root"} => conn'.session = None /\ conn'.chain = <<>>
    /\ minor' = 0 => /\ conn'.session = None /\ conn'.chain = <<>>
                     /\ closing' \notin {"session", "clientid"}

\* Such a step keeps FormInv.
LEMMA FormMove ==
    ASSUME IInv, FormInv, NEW a \in Actors, NEW to \in Pcs, NEW l, LocShape(l),
           Does(a, to, l), FormKeeps(a, to, l)
    PROVE  FormInv'
  <1>1. /\ pc'[a] = to /\ loc'[a] = l
        /\ \A b \in Actors \ {a} : pc'[b] = pc[b] /\ loc'[b] = loc[b]
    BY DoesFacts DEF IInv
  <1>2. ASSUME NEW b \in Actors
        PROVE  /\ pc'[b] # "idle" => result'[b] = "none"
               /\ pc'[b] \in {"idle", "dial", "mount"} => loc'[b] = NoLoc
               /\ pc'[b] \in {"confirm", "create"} /\ ~mounted' => loc'[b].id = conn'.clientID
    <2>1. CASE b = a
      BY <1>1, <2>1 DEF FormKeeps
    <2>2. CASE b # a
      BY SMTT(30), <1>1, <2>2 DEF FormInv, OthersIdle, FormKeeps
    <2> QED  BY <2>1, <2>2
  <1>3. /\ ~mounted' /\ (\A b \in Actors : pc'[b] \notin {"reclaim", "root"}) =>
              conn'.session = None /\ conn'.chain = <<>>
        /\ ~mounted' => snap' = NewConn
        /\ minor' = 0 => /\ conn'.session = None /\ conn'.chain = <<>>
                         /\ closing' \notin {"session", "clientid"}
    BY <1>1 DEF FormKeeps
  <1>4. /\ setup'.config \in {"v40", "v41", "auto"} /\ setup'.server \in Servers41
        /\ setup'.config = "v40" => setup'.server = "both"
        /\ mounts' \in {1, 2} /\ alone' \in [Actors -> BOOLEAN]
        /\ result' \in [Actors -> {"none", "ok", "lost", "error", "mountErr"}]
    BY DEF FormInv, FormKeeps
  <1> QED  BY SMTT(30), <1>2, <1>3, <1>4 DEF FormInv

\* A step of a before the first mount has succeeded.
LEMMA CleanMove ==
    ASSUME IInv, NEW a \in Actors, NEW to \in Pcs, NEW l, LocShape(l), Does(a, to, l),
           ~mounted', OthersIdle(a), First41' => CleanAt(to, l, conn', srv')
    PROVE  CleanInv'
  <1>1. /\ pc'[a] = to /\ loc'[a] = l
        /\ \A b \in Actors \ {a} : pc'[b] = pc[b] /\ loc'[b] = loc[b]
    BY DoesFacts DEF IInv
  <1>2. ASSUME NEW b \in Actors, First41'
        PROVE  CleanAt(pc'[b], loc'[b], conn', srv')
    <2>1. CASE b = a
      BY <1>1, <1>2, <2>1
    <2>2. CASE b # a
      BY <1>1, <2>2 DEF OthersIdle, CleanAt
    <2> QED  BY <2>1, <2>2
  <1> QED  BY <1>2 DEF CleanInv

\* A step of a after it.
LEMMA CleanLater ==
    ASSUME IInv, CleanInv, NEW a \in Actors, NEW to \in Pcs, NEW l, LocShape(l), Does(a, to, l),
           mounted, mounted', UNCHANGED <<conn, srv, snap, cut, closing, minor, setup>>,
           mounts' \in {mounts, 2}, mounts' = 2 \/ to \in {"idle", "fn", "send"}
    PROVE  CleanInv'
  <1>1. pc'[a] = to /\ \A b \in Actors \ {a} : pc'[b] = pc[b]
    BY DoesFacts DEF IInv
  <1>2. ASSUME First41'
        PROVE  First41 /\ to \in {"idle", "fn", "send"}
    BY SMTT(30), <1>2 DEF First41
  <1> QED  BY <1>1, <1>2 DEF CleanInv, CleanUp

\* A step of a, and what it means to the mounts that are expected to work.
RetryKeeps(a, to, l) ==
    /\ setup' = setup
    /\ Hopeless => minor' = 1 \/ mounts' = 0
    /\ Expected' => Expected
    /\ \A b \in Actors \ {a} : result'[b] = result[b] /\ (alone'[b] => alone[b])
    /\ OthersIdle(a) \/ (minor' = minor /\ (UNCHANGED <<conn, srv>> \/ Mounting(a)))
    /\ \/ to \notin MountSteps \/ Mounting(a)
       \/ \A b \in Actors \ {a} : alone'[b] => ~Mounting(b) /\ ~Retrying(b)
    /\ /\ alone'[a] /\ Expected'
       /\ to \in MountSteps \/ (to \in {"fn", "send"} /\ l.retry)
       => /\ \A b \in Actors \ {a} : ~Mounting(b)
          /\ minor' = 0 \/ setup.server = "both" => SoundAt(to, l, conn', srv', minor')
    /\ result'[a] \in {"lost", "mountErr"} /\ Expected' => ~alone'[a]

\* Such a step keeps RetryInv.
LEMMA RetryMove ==
    ASSUME IInv, RetryInv, NEW a \in Actors, NEW to \in Pcs, NEW l, LocShape(l),
           Does(a, to, l), RetryKeeps(a, to, l)
    PROVE  RetryInv'
  <1>1. /\ pc'[a] = to /\ loc'[a] = l
        /\ \A b \in Actors \ {a} : pc'[b] = pc[b] /\ loc'[b] = loc[b]
    BY DoesFacts DEF IInv
  <1>2. (Hopeless' <=> Hopeless) /\ (Hopeless' => minor' = 1 \/ mounts' = 0) /\ setup' = setup
    BY DEF Hopeless, RetryKeeps
  <1>3. \A b \in Actors : result'[b] \in {"lost", "mountErr"} /\ Expected' => ~alone'[b]
    BY DEF RetryInv, RetryWorks, Expected, RetryKeeps
  <1>4. RetryWorks'
    BY <1>3 DEF RetryWorks, Expected
  <1>5. ASSUME NEW b \in Actors, alone'[b], Mounting(b)' \/ Retrying(b)', Expected'
        PROVE  /\ \A c \in Actors \ {b} : ~Mounting(c)'
               /\ minor' = 0 \/ setup.server = "both" =>
                     SoundAt(pc'[b], loc'[b], conn', srv', minor')
    <2>1. CASE b = a
      BY <1>1, <1>5, <2>1 DEF Mounting, Retrying, RetryKeeps
    <2>2. CASE b # a
      <3>1. pc[b] # "idle" /\ (Mounting(b) \/ Retrying(b))
        BY <1>1, <1>5, <2>2 DEF Mounting, Retrying, MountSteps
      <3>2. ~OthersIdle(a)
        BY <2>2, <3>1 DEF OthersIdle
      <3>3. alone[b] /\ Expected
        BY <1>5, <2>2 DEF RetryKeeps
      <3>4. /\ \A c \in Actors \ {b} : ~Mounting(c)
            /\ minor = 0 \/ setup.server = "both" => SoundAt(pc[b], loc[b], conn, srv, minor)
        BY <3>1, <3>3 DEF RetryInv
      <3>5. ~Mounting(a)
        BY <2>2, <3>4
      <3>6. to \notin MountSteps /\ UNCHANGED <<conn, srv, minor>>
        BY <1>5, <2>2, <3>1, <3>2, <3>5 DEF RetryKeeps
      <3>7. \A c \in Actors \ {b} : ~Mounting(c)'
        BY <1>1, <3>4, <3>6 DEF Mounting
      <3> QED  BY <1>1, <2>2, <3>4, <3>6, <3>7
    <2> QED  BY <2>1, <2>2
  <1>6. \A b \in Actors :
            alone'[b] /\ (Mounting(b)' \/ Retrying(b)') /\ Expected' =>
                /\ \A c \in Actors \ {b} : ~Mounting(c)'
                /\ minor' = 0 \/ setup'.server = "both" =>
                      SoundAt(pc'[b], loc'[b], conn', srv', minor')
    BY <1>2, <1>5
  <1> QED  BY <1>2, <1>4, <1>6 DEF RetryInv, SoundAt
=============================================================================
