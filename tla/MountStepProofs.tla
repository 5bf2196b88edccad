--------------------------- MODULE MountStepProofs --------------------------
(***************************************************************************)
(* A mount that nothing disturbs works, and Close undoes the only one: the *)
(* invariant Mount41, what it takes a step of a goroutine to keep it, and  *)
(* the steps of a mount up to its session.  MountProofs has the others and *)
(* the theorems.                                                           *)
(***************************************************************************)
EXTENDS ConnMountProofs

\* Zenon proves the leaves that name no other prover.
USE Zenon

\* What a step of a mount finds.
LEMMA MountFinds ==
    ASSUME IInv, Mount41, NEW a \in Actors, Mounting(a)
    PROVE  /\ pc[a] \in Pcs /\ pc[a] # "idle" /\ minor \in {0, 1} /\ mounts \in {1, 2}
           /\ mounted \in BOOLEAN
           /\ result[a] = "none"
           /\ First41 => ~mounted /\ CleanAt(pc[a], loc[a], conn, srv)
           /\ ~mounted => OthersIdle(a) /\ closing = "no" /\ snap = NewConn
           /\ ~mounted /\ pc[a] \notin {"reclaim", "root"} => conn.session = None /\ conn.chain = <<>>
           /\ minor = 0 => conn.session = None /\ conn.chain = <<>>
           /\ alone[a] /\ Expected =>
                 /\ \A b \in Actors \ {a} : ~Mounting(b)
                 /\ minor = 0 \/ setup.server = "both" => SoundAt(pc[a], loc[a], conn, srv, minor)
  <1>1. /\ pc[a] \in Pcs /\ pc[a] # "idle" /\ minor \in {0, 1} /\ mounts \in {1, 2}
        /\ mounted \in BOOLEAN /\ result[a] = "none"
    BY DEF Mounting, MountSteps, IInv, Shape, Mount41, FormInv
  <1>2. ~mounted => OthersIdle(a) /\ closing = "no" /\ snap = NewConn
    BY <1>1 DEF IInv, DialInv, OthersIdle, Mount41, FormInv
  <1>3. First41 => ~mounted /\ CleanAt(pc[a], loc[a], conn, srv)
    BY DEF Mount41, CleanInv, CleanUp, Mounting, MountSteps
  <1>4. ~mounted /\ pc[a] \notin {"reclaim", "root"} => conn.session = None /\ conn.chain = <<>>
    <2> SUFFICES ASSUME ~mounted, pc[a] \notin {"reclaim", "root"}
                 PROVE  conn.session = None /\ conn.chain = <<>>
      OBVIOUS
    <2>1. \A b \in Actors : pc[b] \notin {"reclaim", "root"}
      BY <1>2 DEF OthersIdle
    <2> QED  BY <2>1 DEF Mount41, FormInv
  <1>5. minor = 0 => conn.session = None /\ conn.chain = <<>>
    BY DEF Mount41, FormInv
  <1>6. alone[a] /\ Expected =>
           /\ \A b \in Actors \ {a} : ~Mounting(b)
           /\ minor = 0 \/ setup.server = "both" => SoundAt(pc[a], loc[a], conn, srv, minor)
    BY DEF Mount41, RetryInv
  <1> QED  BY <1>1, <1>2, <1>3, <1>4, <1>5, <1>6

\* A step of a mount that goes on.
MountKeeps(a, to, l) ==
    /\ UNCHANGED <<setup, minor, mounted, closing, snap, result, mounts, alone>>
    /\ to \in {"confirm", "create"} /\ ~mounted => l.id = conn'.clientID
    /\ ~mounted /\ to \notin {"reclaim", "root"} => conn'.session = None /\ conn'.chain = <<>>
    /\ minor = 0 => conn'.session = None /\ conn'.chain = <<>>
    /\ First41 => CleanAt(to, l, conn', srv')
    /\ alone[a] /\ Expected /\ (minor = 0 \/ setup.server = "both") =>
          SoundAt(to, l, conn', srv', minor)

\* Such a step keeps the invariant.
LEMMA MountGoes ==
    ASSUME IInv, Mount41, NEW a \in Actors, Mounting(a), NEW to \in MountSteps \ {"mount"},
           NEW l, LocShape(l), Does(a, to, l), MountKeeps(a, to, l)
    PROVE  Mount41'
  <1>1. /\ to \in Pcs /\ to \notin {"idle", "dial", "mount", "fn", "send"}
        /\ mounted \in BOOLEAN /\ mounts \in {1, 2} /\ result[a] = "none"
        /\ mounted \/ OthersIdle(a)
    BY MountFinds DEF Pcs, MountSteps
  <1>2. UNCHANGED <<setup, minor, mounted, closing, snap, result, mounts, alone>>
    BY DEF MountKeeps
  <1>3. FormInv'
    <2>1. /\ result' \in [Actors -> {"none", "ok", "lost", "error", "mountErr"}]
          /\ alone' \in [Actors -> BOOLEAN]
          /\ minor = 0 => closing \notin {"session", "clientid"}
          /\ ~mounted => snap = NewConn
      BY <1>2 DEF Mount41, FormInv
    <2>2. FormKeeps(a, to, l)
      BY <1>1, <2>1 DEF FormKeeps, MountKeeps
    <2> QED  BY <1>1, <2>2, FormMove DEF Mount41
  <1>4. CleanInv'
    <2>1. First41' <=> First41
      BY <1>2 DEF First41
    <2>2. CASE mounted
      BY <2>1, <2>2, MountFinds DEF CleanInv
    <2>3. CASE ~mounted
      <3>1. First41' => CleanAt(to, l, conn', srv')
        BY <2>1 DEF MountKeeps
      <3> QED  BY <1>1, <1>2, <2>3, <3>1, CleanMove
    <2> QED  BY <2>2, <2>3
  <1>5. RetryInv'
    <2>1. (Expected' <=> Expected) /\ (Hopeless => minor' = 1 \/ mounts' = 0)
      BY <1>2 DEF Expected, Hopeless, Mount41, RetryInv
    <2>2. result'[a] \notin {"lost", "mountErr"}
      BY <1>1, <1>2
    <2>3. alone'[a] /\ Expected' =>
             /\ \A b \in Actors \ {a} : ~Mounting(b)
             /\ minor' = 0 \/ setup.server = "both" => SoundAt(to, l, conn', srv', minor')
      BY <1>2, <2>1, MountFinds DEF MountKeeps
    <2>4. RetryKeeps(a, to, l)
      BY <1>1, <1>2, <2>1, <2>2, <2>3 DEF RetryKeeps
    <2> QED  BY <1>1, <2>4, RetryMove DEF Mount41
  <1> QED  BY <1>3, <1>4, <1>5 DEF Mount41

\* A mount that fails: if it should have worked, DialAuto goes on with v4.0.
GivesUp(a, err) ==
    /\ MountFails(a, err)
    /\ UNCHANGED <<mounted, closing, setup, snap, mounts>>
    /\ alone' \in [Actors -> BOOLEAN] /\ \A b \in Actors : alone'[b] => alone[b]
    /\ minor = 1 /\ isMinorVersionFallback(err) => setup.server \in {"notsupp", "mismatch"}
    /\ alone'[a] /\ Expected =>
          ~mounted /\ setup.config = "auto" /\ minor = 1 /\ isMinorVersionFallback(err)

\* Such a failure keeps the invariant.
LEMMA MountGives ==
    ASSUME IInv, Mount41, NEW a \in Actors, NEW err, Mounting(a), GivesUp(a, err)
    PROVE  Mount41'
  <1>1. PICK to \in {"dial", "idle"} :
            /\ Does(a, to, NoLoc)
            /\ mounted => to = "idle" /\ UNCHANGED <<minor, conn>>
            /\ ~mounted => conn' = NewConn
            /\ to = "dial" => ~mounted /\ minor = 1 /\ minor' = 0 /\ result' = result /\ ~Hopeless
            /\ to = "idle" => /\ minor' = minor /\ result' = [result EXCEPT ![a] = "mountErr"]
                              /\ ~(alone'[a] /\ Expected)
    <2>1. PICK to \in {"dial", "idle"} :
              /\ Does(a, to, NoLoc)
              /\ mounted => to = "idle" /\ UNCHANGED <<minor, conn>>
              /\ ~mounted => conn' = NewConn
              /\ to = "dial" => /\ setup.config = "auto" /\ minor = 1 /\ isMinorVersionFallback(err)
                                /\ ~mounted /\ minor' = 0 /\ result' = result
              /\ to = "idle" => minor' = minor /\ result' = [result EXCEPT ![a] = "mountErr"]
              /\ ~mounted /\ setup.config = "auto" /\ minor = 1 /\ isMinorVersionFallback(err) =>
                    to = "dial"
      BY DEF GivesUp, MountFails, End, Go, Hold, Does
    <2>2. to = "dial" => ~Hopeless
      BY <2>1 DEF Hopeless, GivesUp
    <2>3. to = "idle" => ~(alone'[a] /\ Expected)
      BY <2>1 DEF GivesUp
    <2> QED  BY <2>1, <2>2, <2>3
  <1>2. /\ to \in Pcs /\ LocShape(NoLoc) /\ to \notin MountSteps
        /\ to \notin {"confirm", "create", "reclaim", "root", "fn", "send"}
        /\ mounted \in BOOLEAN /\ mounts \in {1, 2} /\ (mounted \/ OthersIdle(a))
        /\ result[a] = "none" /\ minor \in {0, 1}
    BY Literals, MountFinds DEF Pcs, MountSteps
  <1>3. /\ result' \in [Actors -> {"none", "ok", "lost", "error", "mountErr"}]
        /\ \A b \in Actors \ {a} : result'[b] = result[b]
        /\ to = "dial" => result'[a] = "none"
        /\ to = "idle" => result'[a] = "mountErr"
    BY <1>1, <1>2 DEF Mount41, FormInv
  <1>4. UNCHANGED <<mounted, closing, setup, snap, mounts>>
    BY DEF GivesUp
  <1>5. ~mounted => conn'.session = None /\ conn'.chain = <<>>
    <2>1. NewConn.session = None /\ NewConn.chain = <<>>
      BY DEF NewConn
    <2> QED  BY <1>1, <2>1
  <1>6. FormInv'
    <2>1. minor' = 0 => /\ conn'.session = None /\ conn'.chain = <<>>
                        /\ closing' \notin {"session", "clientid"}
      BY <1>1, <1>2, <1>4, <1>5, MountFinds DEF Mount41, FormInv
    <2>2. ~mounted' => snap' = NewConn
      BY <1>4, MountFinds
    <2>3. FormKeeps(a, to, NoLoc)
      BY SMTT(30), <1>2, <1>3, <1>4, <1>5, <2>1, <2>2 DEF FormKeeps, GivesUp
    <2> QED  BY <1>1, <1>2, <2>3, FormMove DEF Mount41
  <1>7. CleanInv'
    <2>1. CASE mounted
      <3>1. ~First41 /\ minor' = minor
        BY <1>1, <2>1, MountFinds
      <3>2. ~First41'
        BY <1>4, <3>1 DEF First41
      <3> QED  BY <3>2 DEF CleanInv
    <2>2. CASE ~mounted
      <3>1. First41' => to = "idle"
        BY SMTT(30), <1>1 DEF First41
      <3>2. First41' => CleanAt(to, NoLoc, conn', srv')
        BY <3>1 DEF CleanAt
      <3> QED  BY <1>1, <1>2, <1>4, <2>2, <3>2, CleanMove
    <2> QED  BY <2>1, <2>2
  <1>8. RetryInv'
    <2>1. Hopeless => minor' = 1 \/ mounts' = 0
      BY <1>1, <1>4 DEF Mount41, RetryInv
    <2>2. Expected' => Expected
      <3>1. CASE to = "dial"
        BY <1>1, <3>1 DEF Expected
      <3>2. CASE to = "idle"
        BY <1>1, <1>4, <3>2 DEF Expected, Hopeless
      <3> QED  BY <3>1, <3>2
    <2>3. result'[a] \in {"lost", "mountErr"} /\ Expected' => ~alone'[a]
      BY <1>1, <1>3, <2>2
    <2>4. OthersIdle(a) \/ (minor' = minor /\ Mounting(a))
      BY <1>1, <1>2
    <2>5. RetryKeeps(a, to, NoLoc)
      BY <1>2, <1>3, <1>4, <2>1, <2>2, <2>3, <2>4 DEF RetryKeeps, GivesUp
    <2> QED  BY <1>1, <1>2, <2>5, RetryMove DEF Mount41
  <1> QED  BY <1>6, <1>7, <1>8 DEF Mount41

\* What is made from NoLoc holds what was put in it.
LEMMA Held ==
    ASSUME NEW id, NEW c
    PROVE  LET l == [NoLoc EXCEPT !.id = id, !.confirm = c]
           IN  LocShape(l) /\ l.id = id /\ l.confirm = c
  BY SMTT(30) DEF NoLoc, LocShape

\* The records that the server's answers make of srv.
LEMMA ServerRecords ==
    ASSUME SrvShape(srv), NEW x, NEW y
    PROVE  /\ [srv EXCEPT !.unconfirmed = x].unconfirmed = x
           /\ [srv EXCEPT !.unconfirmed = x].confirmed = srv.confirmed
           /\ [srv EXCEPT !.unconfirmed = x].session = srv.session
           /\ [srv EXCEPT !.confirmed = x, !.unconfirmed = y].confirmed = x
           /\ [srv EXCEPT !.session = x].session = x
           /\ [srv EXCEPT !.session = x].confirmed = srv.confirmed
           /\ [srv EXCEPT !.confirmed = x].confirmed = x
           /\ [srv EXCEPT !.confirmed = x].session = srv.session
  BY DEF SrvShape

\* The first mount finds an id for its session.
LEMMA SessionFresh ==
    ASSUME IInv, Mount41, NEW a \in Actors, pc[a] = "create", ~mounted,
           \/ srv.confirmed = None /\ srv.session = None
           \/ srv.unconfirmed = conn.clientID
    PROVE  Fresh # None
  <1>1. Mounting(a)
    BY DEF Mounting, MountSteps
  <1>2. OthersIdle(a) /\ snap = NewConn /\ conn.session = None /\ conn.chain = <<>>
    BY <1>1, MountFinds
  <1>3. loc[a].id = conn.clientID /\ loc[a].confirm = conn.clientID /\ conn.confirm = conn.clientID
    BY DEF Mount41, FormInv, IInv, PairInv
  <1>4. \A b \in Actors \ {a} : loc[b] = NoLoc
    BY <1>2 DEF OthersIdle, Mount41, FormInv
  <1>5. \A b \in Actors : /\ loc[b].id \in {None, conn.clientID}
                          /\ loc[b].confirm \in {None, conn.clientID}
    BY <1>3, <1>4, Literals
  <1>6. /\ snap.clientID = None /\ snap.session = None
        /\ Range(conn.chain) = {} /\ Range(snap.chain) = {}
    <2>1. NewConn.session = None /\ Range(<<>>) = {}
      BY SMTT(30) DEF NewConn, Range
    <2> QED  BY <1>2, <2>1, Literals
  <1>7. InUse \subseteq {None, conn.clientID, srv.confirmed, srv.session, srv.unconfirmed}
    BY <1>2, <1>3, <1>5, <1>6 DEF InUse
  <1>8. CASE srv.confirmed = None /\ srv.session = None
    <2>1. InUse \subseteq {None, conn.clientID, srv.unconfirmed, srv.unconfirmed}
      BY <1>7, <1>8
    <2> QED  BY <2>1, FreshId
  <1>9. CASE srv.unconfirmed = conn.clientID
    <2>1. InUse \subseteq {None, conn.clientID, srv.confirmed, srv.session}
      BY <1>7, <1>9
    <2> QED  BY <2>1, FreshId
  <1> QED  BY <1>8, <1>9

\* A round trip of a mount that fails for a reason of its own.
LEMMA TripGives ==
    ASSUME IInv, Mount41, NEW a \in Actors, Mounting(a), MountFails(a, "other"),
           UNCHANGED <<mounted, closing, setup, snap, mounts>>,
           alone' \in [Actors -> BOOLEAN], \A b \in Actors : alone'[b] => alone[b],
           alone'[a] => ~Expected
    PROVE  Mount41'
  <1>1. ~isMinorVersionFallback("other")
    BY DEF isMinorVersionFallback
  <1>2. GivesUp(a, "other")
    BY <1>1 DEF GivesUp
  <1> QED  BY <1>2, MountGives

\* A step of an operation, with no mount in hand, that ends it or goes on.
OperationKeeps(a, to, l, r) ==
    /\ UNCHANGED <<setup, minor, mounted, closing, snap, cut, conn, srv, mounts>>
    /\ result' = [result EXCEPT ![a] = r]
    /\ to # "idle" => r = "none"
    /\ to = "idle" => l = NoLoc
    /\ alone' \in [Actors -> BOOLEAN] /\ \A b \in Actors : alone'[b] => alone[b]
    /\ to # "idle" /\ l.retry => Retrying(a)
    /\ to = "send" => l.id = conn.clientID /\ pc[a] = "fn"
    /\ to = "fn" => ~l.retry
    /\ r = "lost" /\ minor = 0 => ~alone[a]

\* Such a step keeps the invariant.
LEMMA OperationGoes ==
    ASSUME IInv, Mount41, NEW a \in Actors, mounted, NEW to \in {"idle", "fn", "send"},
           NEW l, LocShape(l), Does(a, to, l),
           NEW r \in {"none", "ok", "lost", "error"}, OperationKeeps(a, to, l, r)
    PROVE  Mount41'
  <1>1. to \in Pcs /\ to \notin MountSteps
    BY DEF Pcs, MountSteps
  <1>2. /\ UNCHANGED <<setup, minor, mounted, closing, snap, cut, conn, srv, mounts>>
        /\ to # "idle" => r = "none"
    BY DEF OperationKeeps
  <1>3. /\ result' \in [Actors -> {"none", "ok", "lost", "error", "mountErr"}]
        /\ \A b \in Actors \ {a} : result'[b] = result[b]
        /\ result'[a] = r
    BY DEF Mount41, FormInv, OperationKeeps
  <1>4. FormInv'
    <2>1. minor = 0 => /\ conn.session = None /\ conn.chain = <<>>
                       /\ closing \notin {"session", "clientid"}
      BY DEF Mount41, FormInv
    <2>2. mounts \in {1, 2}
      BY DEF Mount41, FormInv
    <2>3. FormKeeps(a, to, l)
      BY SMTT(30), <1>1, <1>2, <1>3, <2>1, <2>2 DEF FormKeeps, OperationKeeps
    <2> QED  BY <1>1, <2>3, FormMove DEF Mount41
  <1>5. CleanInv'
    BY <1>1, <1>2, CleanLater DEF Mount41
  <1>6. RetryInv'
    <2>1. (Expected' => Expected /\ minor = 0) /\ (Hopeless => minor' = 1 \/ mounts' = 0)
      BY <1>2 DEF Expected, Mount41, RetryInv
    <2>2. ASSUME alone'[a], Expected', to \in {"fn", "send"}, l.retry
          PROVE  /\ \A b \in Actors \ {a} : ~Mounting(b)
                 /\ SoundAt(to, l, conn', srv', minor')
      <3>1. alone[a] /\ Expected /\ Retrying(a) /\ to = "send" /\ minor = 0
        BY <2>1, <2>2 DEF OperationKeeps
      <3>2. /\ \A b \in Actors \ {a} : ~Mounting(b)
            /\ SoundAt(pc[a], loc[a], conn, srv, minor)
        BY <3>1 DEF Mount41, RetryInv
      <3>3. l.id = srv.confirmed
        BY <3>1, <3>2 DEF SoundAt, OperationKeeps
      <3> QED  BY <1>2, <3>1, <3>2, <3>3 DEF SoundAt
    <2>3. result'[a] \in {"lost", "mountErr"} /\ Expected' => ~alone'[a]
      BY <1>3, <2>1 DEF OperationKeeps
    <2>4. RetryKeeps(a, to, l)
      BY <1>1, <1>2, <1>3, <2>1, <2>2, <2>3 DEF RetryKeeps, OperationKeeps
    <2> QED  BY <1>1, <2>4, RetryMove DEF Mount41
  <1> QED  BY <1>4, <1>5, <1>6 DEF Mount41

\* What of the invariant has to be looked at where no goroutine moves.
QuietKeeps ==
    /\ alone' \in [Actors -> BOOLEAN] /\ \A a \in Actors : alone'[a] => alone[a]
    /\ mounts = 0 => srv' = NoState
    /\ ~mounted => snap' = snap
    /\ minor = 0 => closing' \notin {"session", "clientid"}
    /\ First41 /\ mounted => CleanUp'
    /\ First41 /\ ~mounted => srv' \in {srv, NoState}
    /\ Expected => srv' = srv \/ \A a \in Actors : ~alone'[a]

\* Such a step keeps the invariant.
LEMMA QuietMounts ==
    ASSUME IInv, Mount41, UNCHANGED <<setup, minor, conn, mounted, pc, loc, result, mounts>>, QuietKeeps
    PROVE  Mount41'
  <1>1. FormInv'
    <2>1. \A a \in Actors :
              /\ pc'[a] # "idle" => result'[a] = "none"
              /\ pc'[a] \in {"idle", "dial", "mount"} => loc'[a] = NoLoc
              /\ pc'[a] \in {"confirm", "create"} /\ ~mounted' => loc'[a].id = conn'.clientID
      BY DEF Mount41, FormInv
    <2> QED  BY <2>1 DEF Mount41, FormInv, QuietKeeps
  <1>2. CleanInv'
    <2>1. First41' <=> First41
      BY DEF First41
    <2>2. CASE mounted
      BY <2>1, <2>2 DEF CleanInv, QuietKeeps
    <2>3. ASSUME ~mounted, First41, NEW a \in Actors
          PROVE  CleanAt(pc'[a], loc'[a], conn', srv')
      <3>1. CleanAt(pc[a], loc[a], conn, srv)
        BY <2>3 DEF Mount41, CleanInv
      <3>2. srv' = srv \/ (srv'.confirmed = None /\ srv'.session = None)
        BY SMTT(30), <2>3, Literals DEF NoState, QuietKeeps
      <3> QED  BY <3>1, <3>2 DEF CleanAt, Live
    <2> QED  BY <2>1, <2>2, <2>3 DEF CleanInv, CleanAt, Live
  <1>3. RetryInv'
    <2>1. (Expected' <=> Expected) /\ (Hopeless' <=> Hopeless)
      BY DEF Expected, Hopeless
    <2>2. RetryWorks'
      BY DEF RetryWorks, Mount41, RetryInv, Hopeless, QuietKeeps
    <2>3. ASSUME NEW a \in Actors, alone'[a], Mounting(a) \/ Retrying(a), Expected
          PROVE  /\ \A b \in Actors \ {a} : ~Mounting(b)
                 /\ minor = 0 \/ setup.server = "both" =>
                       SoundAt(pc[a], loc[a], conn, srv', minor)
      BY <2>3 DEF Mount41, RetryInv, QuietKeeps
    <2>4. /\ \A a \in Actors : (Mounting(a)' <=> Mounting(a)) /\ (Retrying(a)' <=> Retrying(a))
          /\ Hopeless' => minor' = 1 \/ mounts' = 0
      BY <2>1 DEF Mounting, Retrying, Mount41, RetryInv
    <2>5. \A a \in Actors :
              alone'[a] /\ (Mounting(a)' \/ Retrying(a)') /\ Expected' =>
                  /\ \A b \in Actors \ {a} : ~Mounting(b)'
                  /\ minor' = 0 \/ setup'.server = "both" =>
                        SoundAt(pc'[a], loc'[a], conn', srv', minor')
      BY <2>1, <2>3, <2>4
    <2> QED  BY <2>2, <2>4, <2>5 DEF RetryInv, SoundAt
  <1> QED  BY <1>1, <1>2, <1>3 DEF Mount41
-----------------------------------------------------------------------------
(* The round trips of a mount. *)

\* SETCLIENTID and EXCHANGE_ID.
LEMMA SendMounts ==
    ASSUME IInv, Mount41, NEW a \in Actors, SendClient(a)
    PROVE  Mount41'
  <1>1. /\ pc[a] = "mount" /\ Mounting(a) /\ srv' = Served(a)
        /\ UNCHANGED <<setup, mounted, closing, snap, mounts, alone>>
    BY DEF SendClient, Still, Mounting, MountSteps
  <1>2. CASE Zeroes \/ (~Unsupported /\ Accepted(conn.chain))
    <2> DEFINE id == IF Zeroes THEN None ELSE srv'.unconfirmed
               l == [NoLoc EXCEPT !.id = id, !.confirm = id]
    <2>1. Does(a, "store", l) /\ UNCHANGED <<minor, conn, result>>
      BY <1>2 DEF SendClient, Go, Hold, Does
    <2>2. LocShape(l) /\ l.id = id /\ (setup.server = "both" \/ minor = 0 => l.id = srv'.unconfirmed)
      <3>1. setup.server = "both" \/ minor = 0 => id = srv'.unconfirmed
        BY SMTT(30) DEF Zeroes
      <3> HIDE DEF id
      <3>2. LocShape(l) /\ l.id = id
        BY Held
      <3> QED  BY <3>1, <3>2
    <2> HIDE DEF l, id
    <2>3. srv'.confirmed = srv.confirmed /\ srv'.session = srv.session
      <3>1. srv' = srv \/ srv' = [srv EXCEPT !.unconfirmed = Fresh]
        BY <1>1 DEF Served
      <3>2. SrvShape(srv)
        BY Common
      <3>3. /\ [srv EXCEPT !.unconfirmed = Fresh].confirmed = srv.confirmed
            /\ [srv EXCEPT !.unconfirmed = Fresh].session = srv.session
        BY <3>2, ServerRecords
      <3> QED  BY <3>1, <3>3
    <2>4. First41 => CleanAt("store", l, conn', srv')
      BY <1>1, <2>3, MountFinds DEF CleanAt
    <2>5. minor = 0 \/ setup.server = "both" => SoundAt("store", l, conn', srv', minor)
      BY <2>2 DEF SoundAt
    <2>6. "store" \in MountSteps \ {"mount"}
      BY DEF MountSteps
    <2>7. MountKeeps(a, "store", l)
      BY <1>1, <2>1, <2>4, <2>5, MountFinds DEF MountKeeps
    <2> QED  BY <1>1, <2>1, <2>2, <2>6, <2>7, MountGoes
  <1>3. CASE ~(Zeroes \/ (~Unsupported /\ Accepted(conn.chain)))
    <2>1. PICK err \in {"NOTSUPP", "other"} :
              MountFails(a, err) /\ (err = "NOTSUPP" <=> minor = 1 /\ setup.server = "notsupp")
      BY <1>3 DEF SendClient
    <2>2. Expected => ~mounted /\ setup.config = "auto" /\ minor = 1 /\ isMinorVersionFallback(err)
      <3> SUFFICES ASSUME Expected
                   PROVE  ~mounted /\ setup.config = "auto" /\ minor = 1 /\ err = "NOTSUPP"
        BY DEF isMinorVersionFallback
      <3>1. Accepted(conn.chain)
        BY <1>1, MountFinds DEF Accepted, Expected
      <3>2. minor = 1 /\ setup.server \notin {"both", "mismatch"}
        BY <1>3, <3>1 DEF Zeroes, Unsupported
      <3>3. setup.config \in {"v40", "v41", "auto"} /\ setup.server \in Servers41
        BY DEF Mount41, FormInv
      <3>4. ~mounted /\ setup.server = "notsupp" /\ setup.config \notin {"v40", "v41"}
        BY SMTT(30), <3>2, <3>3 DEF Expected, Hopeless, Servers41, Mount41, FormInv
      <3> QED  BY <2>1, <3>2, <3>3, <3>4
    <2>3. minor = 1 /\ isMinorVersionFallback(err) => setup.server \in {"notsupp", "mismatch"}
      BY <2>1 DEF isMinorVersionFallback
    <2>4. alone' \in [Actors -> BOOLEAN]
      BY <1>1 DEF Mount41, FormInv
    <2> QED  BY <1>1, <2>1, <2>2, <2>3, <2>4, MountGives DEF GivesUp
  <1> QED  BY <1>2, <1>3

\* The results are stored, and read back.
LEMMA StoreMounts ==
    ASSUME IInv, Mount41, NEW a \in Actors, StoreClient(a)
    PROVE  Mount41'
  <1>1. /\ pc[a] = "store" /\ Mounting(a) /\ Does(a, "read", NoLoc)
        /\ UNCHANGED <<setup, minor, mounted, closing, snap, srv, result, mounts, alone>>
    BY DEF StoreClient, Untouched, Still, Mounting, MountSteps, Go, Hold, Does
  <1>2. conn'.clientID = loc[a].id /\ conn'.session = conn.session /\ conn'.chain = conn.chain
    BY Common DEF StoreClient, ConnShape
  <1>3. First41 => CleanAt("read", NoLoc, conn', srv')
    BY <1>1, MountFinds DEF CleanAt
  <1>4. alone[a] /\ Expected /\ (minor = 0 \/ setup.server = "both") =>
            SoundAt("read", NoLoc, conn', srv', minor)
    BY <1>1, <1>2, MountFinds DEF SoundAt
  <1>5. "read" \in MountSteps \ {"mount"} /\ LocShape(NoLoc)
    BY Literals DEF MountSteps
  <1>6. MountKeeps(a, "read", NoLoc)
    BY <1>1, <1>2, <1>3, <1>4, MountFinds DEF MountKeeps
  <1> QED  BY <1>1, <1>5, <1>6, MountGoes

\* They are read back, for SETCLIENTID_CONFIRM or CREATE_SESSION.
LEMMA ReadMounts ==
    ASSUME IInv, Mount41, NEW a \in Actors, ReadClient(a)
    PROVE  Mount41'
  <1> DEFINE to == IF minor = 0 THEN "confirm" ELSE "create"
             l == [NoLoc EXCEPT !.id = conn.clientID, !.confirm = conn.confirm]
  <1>1. /\ pc[a] = "read" /\ Mounting(a) /\ Does(a, to, l)
        /\ UNCHANGED <<setup, minor, mounted, closing, snap, srv, conn, result, mounts, alone>>
    BY DEF ReadClient, Untouched, Still, Mounting, MountSteps, Go, Hold, Does
  <1>2. LocShape(l) /\ l.id = conn.clientID
    BY Held
  <1>3. to \in MountSteps \ {"mount"} /\ to \in {"confirm", "create"}
    BY DEF MountSteps
  <1> HIDE DEF to, l
  <1>4. First41 => CleanAt(to, l, conn', srv')
    BY <1>1, <1>3, MountFinds DEF CleanAt
  <1>5. alone[a] /\ Expected /\ (minor = 0 \/ setup.server = "both") =>
            SoundAt(to, l, conn', srv', minor)
    BY <1>1, <1>2, <1>3, MountFinds DEF SoundAt
  <1>6. MountKeeps(a, to, l)
    BY <1>1, <1>2, <1>3, <1>4, <1>5, MountFinds DEF MountKeeps
  <1> QED  BY <1>1, <1>2, <1>3, <1>6, MountGoes

\* SETCLIENTID_CONFIRM.
LEMMA ConfirmMounts ==
    ASSUME IInv, Mount41, NEW a \in Actors, Confirm(a)
    PROVE  Mount41'
  <1>1. /\ pc[a] = "confirm" /\ Mounting(a) /\ srv' = Served(a)
        /\ UNCHANGED <<setup, mounted, closing, snap, mounts, alone>>
    BY DEF Confirm, Still, Mounting, MountSteps
  <1>2. minor = 0 /\ loc[a].id = loc[a].confirm
    BY <1>1, Common DEF IInv, NegInv, PairInv
  <1>3. alone[a] => Known(a) /\ conn.clientID = loc[a].id
    BY <1>1, <1>2, MountFinds DEF Expected, SoundAt, Known
  <1>4. CASE Known(a)
    <2>1. Does(a, "root", NoLoc) /\ UNCHANGED <<minor, conn, result>>
      BY <1>2, <1>4 DEF Confirm, Go, Hold, Does
    <2>2. srv'.confirmed = loc[a].id
      <3>1. srv' = [srv EXCEPT !.confirmed = loc[a].id, !.unconfirmed = Pending(loc[a].id)]
        BY SMTT(30), <1>1, <1>2, <1>4 DEF Served, Unsupported
      <3> QED  BY SMTT(30), <3>1, Common, ServerRecords
    <2>3. ~First41
      BY SMTT(30), <1>2 DEF First41
    <2>4. alone[a] => SoundAt("root", NoLoc, conn', srv', minor)
      BY SMTT(30), <1>2, <1>3, <2>1, <2>2 DEF SoundAt
    <2>5. "root" \in MountSteps \ {"mount"} /\ LocShape(NoLoc)
      BY Literals DEF MountSteps
    <2>6. MountKeeps(a, "root", NoLoc)
      BY <1>1, <1>2, <2>1, <2>3, <2>4, MountFinds DEF MountKeeps
    <2> QED  BY <1>1, <2>1, <2>5, <2>6, MountGoes
  <1>5. CASE ~Known(a)
    <2>1. MountFails(a, "other") /\ ~isMinorVersionFallback("other")
      BY <1>5 DEF Confirm, isMinorVersionFallback
    <2>2. alone' \in [Actors -> BOOLEAN]
      BY <1>1 DEF Mount41, FormInv
    <2> QED  BY <1>1, <1>3, <1>5, <2>1, <2>2, MountGives DEF GivesUp
  <1> QED  BY <1>4, <1>5

\* CREATE_SESSION.
LEMMA CreateMounts ==
    ASSUME IInv, Mount41, NEW a \in Actors, Create(a)
    PROVE  Mount41'
  <1>1. /\ pc[a] = "create" /\ Mounting(a) /\ srv' = Served(a)
        /\ UNCHANGED <<setup, mounted, closing, snap, mounts, alone>>
    BY DEF Create, Still, Mounting, MountSteps
  <1>2. minor = 1 /\ setup.server \in {"both", "mismatch"}
    BY <1>1, Common DEF IInv, NegInv
  <1>3. Expected \/ First41 =>
            ~mounted /\ conn.chain = <<>> /\ Accepted(conn.chain) /\ loc[a].id = conn.clientID
    BY <1>1, <1>2, MountFinds DEF Expected, Accepted, Mount41, FormInv
  <1>4. alone[a] /\ Expected /\ setup.server = "both" =>
            loc[a].id = srv.unconfirmed /\ conn.clientID = srv.unconfirmed
    BY <1>1, MountFinds DEF SoundAt
  <1>5. CASE Zeroes \/ (Accepted(conn.chain) /\ Known(a))
    <2> DEFINE l == [NoLoc EXCEPT !.id = IF Zeroes THEN None ELSE srv'.session]
    <2>1. Does(a, "install", l) /\ UNCHANGED <<minor, conn, result>>
      BY <1>5 DEF Create, Go, Hold, Does
    <2>2. LocShape(l) /\ (setup.server = "both" => l.id = srv'.session)
      BY DEF Zeroes, LocShape, NoLoc
    <2> HIDE DEF l
    <2>3. ASSUME setup.server = "both", loc[a].id # srv.confirmed \/ srv.session = None
          PROVE  srv'.confirmed = loc[a].id /\ srv'.session = Fresh
      <3>1. srv' = [confirmed |-> loc[a].id, unconfirmed |-> Pending(loc[a].id), session |-> Fresh]
        BY <1>1, <1>5, <2>3 DEF Served, Unsupported, Zeroes
      <3> QED  BY <3>1
    <2>4. First41 => CleanAt("install", l, conn', srv')
      <3> SUFFICES ASSUME First41
                   PROVE  l.id # None /\ Live(srv', conn.clientID, l.id)
        BY <2>1 DEF CleanAt
      <3>1. setup.server = "both" /\ srv.confirmed = None /\ srv.session = None /\ ~mounted
        BY <1>1, MountFinds DEF First41, CleanAt
      <3>2. Fresh # None
        BY <1>1, <3>1, SessionFresh
      <3> QED  BY <1>3, <2>2, <2>3, <3>1, <3>2 DEF Live
    <2>5. alone[a] /\ Expected /\ setup.server = "both" =>
              SoundAt("install", l, conn', srv', minor)
      <3> SUFFICES ASSUME alone[a], Expected, setup.server = "both"
                   PROVE  srv'.session # None
        BY <2>2 DEF SoundAt
      <3>1. CASE loc[a].id # srv.confirmed \/ srv.session = None
        BY <1>1, <1>3, <1>4, <2>3, <3>1, SessionFresh
      <3>2. CASE ~(loc[a].id # srv.confirmed \/ srv.session = None)
        BY <1>1, <3>2 DEF Served
      <3> QED  BY <3>1, <3>2
    <2>6. "install" \in MountSteps \ {"mount"}
      BY DEF MountSteps
    <2>7. MountKeeps(a, "install", l)
      BY SMTT(30), <1>1, <1>2, <2>1, <2>4, <2>5, MountFinds DEF MountKeeps
    <2> QED  BY <1>1, <2>1, <2>2, <2>6, <2>7, MountGoes
  <1>6. CASE ~(Zeroes \/ (Accepted(conn.chain) /\ Known(a)))
    <2>1. MountFails(a, "other")
      BY <1>6 DEF Create
    <2>2. alone[a] => ~Expected
      BY <1>2, <1>3, <1>4, <1>6 DEF Zeroes, Known
    <2>3. alone' \in [Actors -> BOOLEAN]
      BY <1>1 DEF Mount41, FormInv
    <2> QED  BY <1>1, <2>1, <2>2, <2>3, TripGives
  <1> QED  BY <1>5, <1>6

\* createSession puts its sessionCaller on the chain.
LEMMA InstallMounts ==
    ASSUME IInv, Mount41, NEW a \in Actors, Install(a)
    PROVE  Mount41'
  <1>1. /\ pc[a] = "install" /\ Mounting(a) /\ Does(a, "reclaim", NoLoc)
        /\ UNCHANGED <<setup, minor, mounted, closing, snap, srv, result, mounts, alone>>
    BY DEF Install, Untouched, Still, Mounting, MountSteps, Go, Hold, Does
  <1>2. minor = 1
    BY <1>1, Common DEF IInv, NegInv
  <1>3. /\ conn'.clientID = conn.clientID /\ conn'.session = loc[a].id
        /\ conn'.chain = <<loc[a].id>> \o conn.chain
    BY Common DEF Install, ConnShape
  <1>4. Expected \/ First41 => conn'.chain = <<loc[a].id>>
    <2>1. Expected \/ First41 => conn.chain = <<>>
      BY <1>1, <1>2, MountFinds DEF Expected
    <2>2. <<loc[a].id>> \o <<>> = <<loc[a].id>>
      BY SMTT(30)
    <2> QED  BY <1>3, <2>1, <2>2
  <1>5. First41 => CleanAt("reclaim", NoLoc, conn', srv')
    BY <1>1, <1>3, <1>4, MountFinds DEF CleanAt
  <1>6. alone[a] /\ Expected /\ (minor = 0 \/ setup.server = "both") =>
            SoundAt("reclaim", NoLoc, conn', srv', minor)
    BY <1>1, <1>4, MountFinds DEF SoundAt
  <1>7. "reclaim" \in MountSteps \ {"mount"} /\ LocShape(NoLoc)
    BY Literals DEF MountSteps
  <1>8. MountKeeps(a, "reclaim", NoLoc)
    BY SMTT(30), <1>1, <1>2, <1>5, <1>6 DEF MountKeeps
  <1> QED  BY <1>1, <1>7, <1>8, MountGoes
=============================================================================
