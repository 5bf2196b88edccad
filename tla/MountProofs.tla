----------------------------- MODULE MountProofs ----------------------------
(***************************************************************************)
(* The rest of the proof that every action of ConnMount keeps Mount41, and *)
(* the two theorems about a mount and its Close.                           *)
(***************************************************************************)
EXTENDS MountStepProofs

\* Zenon proves the leaves that name no other prover.
USE Zenon

\* RECLAIM_COMPLETE.
LEMMA ReclaimMounts ==
    ASSUME IInv, Mount41, NEW a \in Actors, Reclaim(a)
    PROVE  Mount41'
  <1>1. /\ pc[a] = "reclaim" /\ Mounting(a)
        /\ UNCHANGED <<setup, mounted, closing, snap, srv, mounts, alone>>
    BY DEF Reclaim, Still, Mounting, MountSteps
  <1>2. minor = 1 /\ setup.server \in {"both", "mismatch"}
    BY <1>1, Common DEF IInv, NegInv
  <1>3. CASE Zeroes \/ Accepted(conn.chain)
    <2>1. "root" \in Pcs /\ "root" \in MountSteps \ {"mount"}
      BY DEF Pcs, MountSteps
    <2>2. Does(a, "root", loc[a]) /\ LocShape(loc[a]) /\ UNCHANGED <<minor, conn, result>>
      BY <1>3, <2>1, DoesGo DEF Reclaim, IInv
    <2>3. First41 => CleanAt("root", loc[a], conn', srv')
      BY <1>1, <2>2, MountFinds DEF CleanAt
    <2>4. alone[a] /\ Expected /\ (minor = 0 \/ setup.server = "both") =>
              SoundAt("root", loc[a], conn', srv', minor)
      BY <1>1, <1>2, <2>2, MountFinds, SMTT(30) DEF SoundAt
    <2>5. MountKeeps(a, "root", loc[a])
      BY SMTT(30), <1>1, <1>2, <2>2, <2>3, <2>4 DEF MountKeeps
    <2> QED  BY <1>1, <2>1, <2>2, <2>5, MountGoes
  <1>4. CASE ~(Zeroes \/ Accepted(conn.chain))
    <2>1. MountFails(a, "other")
      BY <1>4 DEF Reclaim
    <2>2. alone[a] => ~Expected
      BY <1>1, <1>2, <1>4, MountFinds DEF Zeroes, Accepted, SoundAt
    <2>3. alone' \in [Actors -> BOOLEAN]
      BY <1>1 DEF Mount41, FormInv
    <2> QED  BY <1>1, <2>1, <2>2, <2>3, TripGives
  <1> QED  BY <1>3, <1>4

\* fetchRootFH ends the mount; WithRetry goes on with fn.
LEMMA RootMounts ==
    ASSUME IInv, Mount41, NEW a \in Actors, FetchRootFH(a)
    PROVE  Mount41'
  <1>1. /\ pc[a] = "root" /\ Mounting(a)
        /\ UNCHANGED <<setup, closing, snap, srv, mounts, alone>>
    BY DEF FetchRootFH, Still, Mounting, MountSteps
  <1>2. minor \in {0, 1} /\ (minor = 1 => setup.server \in {"both", "mismatch"})
    BY <1>1, Common
  <1>3. alone' \in [Actors -> BOOLEAN]
    BY <1>1 DEF Mount41, FormInv
  <1>4. CASE Accepted(conn.chain)
    <2> DEFINE r == [NoLoc EXCEPT !.retry = TRUE]
    <2>1. mounted' = TRUE /\ UNCHANGED <<minor, conn>>
      BY <1>4 DEF FetchRootFH
    <2>2. LocShape(r) /\ LocShape(NoLoc)
      BY Literals DEF LocShape
    <2> HIDE DEF r
    <2>3. PICK to \in {"idle", "fn"} : \E l \in {NoLoc, r} :
              /\ Does(a, to, l)
              /\ to = "idle" => l = NoLoc /\ result' = [result EXCEPT ![a] = "ok"]
              /\ to = "fn" => mounted /\ result' = result
      BY <1>4 DEF FetchRootFH, End, Go, Hold, Does, r
    <2>4. PICK l \in {NoLoc, r} :
              /\ Does(a, to, l)
              /\ to = "idle" => l = NoLoc /\ result' = [result EXCEPT ![a] = "ok"]
              /\ to = "fn" => mounted /\ result' = result
      BY <2>3
    <2>5. to \in Pcs /\ to \notin MountSteps /\ LocShape(l)
      BY <2>2 DEF Pcs, MountSteps
    <2>6. /\ result' \in [Actors -> {"none", "ok", "lost", "error", "mountErr"}]
          /\ \A b \in Actors \ {a} : result'[b] = result[b]
          /\ to # "idle" => result'[a] = "none"
          /\ result'[a] \notin {"lost", "mountErr"}
      BY <1>1, <2>4, MountFinds DEF Mount41, FormInv
    <2>7. FormInv'
      <3>1. minor' = 0 => /\ conn'.session = None /\ conn'.chain = <<>>
                          /\ closing' \notin {"session", "clientid"}
        BY <1>1, <2>1 DEF Mount41, FormInv
      <3>2. mounts' \in {1, 2}
        BY <1>1, MountFinds
      <3> QED  BY <1>1, <1>3, <2>1, <2>4, <2>5, <2>6, <3>1, <3>2, FormMove DEF Mount41, FormKeeps
    <2>8. CleanInv'
      <3> SUFFICES ASSUME First41'
                   PROVE  CleanUp'
        BY <2>1 DEF CleanInv
      <3>1. First41
        BY <1>1, <2>1 DEF First41
      <3>2. ~mounted /\ OthersIdle(a) /\ closing = "no" /\ CleanAt("root", loc[a], conn, srv)
        BY <1>1, <3>1, MountFinds
      <3>3. \A b \in Actors : pc'[b] \in {"idle", "fn", "send"}
        BY ZenonT(40), <2>4, <2>5, <3>2, DoesFacts DEF IInv, OthersIdle
      <3> QED  BY <1>1, <2>1, <3>2, <3>3 DEF CleanUp, CleanAt
    <2>9. RetryInv'
      <3>1. Expected' => Expected /\ minor = 0
        BY <2>1 DEF Expected
      <3>2. Hopeless => minor' = 1 \/ mounts' = 0
        BY <1>1, <2>1 DEF Mount41, RetryInv
      <3>3. alone'[a] /\ Expected' =>
               /\ \A b \in Actors \ {a} : ~Mounting(b)
               /\ SoundAt(to, l, conn', srv', minor')
        <4> SUFFICES ASSUME alone'[a], Expected'
                     PROVE  /\ \A b \in Actors \ {a} : ~Mounting(b)
                            /\ SoundAt(to, l, conn', srv', minor')
          OBVIOUS
        <4>1. alone[a] /\ Expected /\ minor = 0
          BY <1>1, <3>1
        <4>2. (\A b \in Actors \ {a} : ~Mounting(b)) /\ conn.clientID = srv.confirmed
          BY <1>1, <4>1, MountFinds DEF SoundAt
        <4> QED  BY <1>1, <2>1, <4>2 DEF SoundAt
      <3>4. \A b \in Actors \ {a} : result'[b] = result[b] /\ (alone'[b] => alone[b])
        BY <1>1, <2>6
      <3> QED  BY <1>1, <2>1, <2>4, <2>5, <2>6, <3>1, <3>2, <3>3, <3>4, RetryMove DEF Mount41, RetryKeeps
    <2> QED  BY <2>7, <2>8, <2>9 DEF Mount41
  <1>5. CASE ~Accepted(conn.chain)
    <2>1. PICK err \in {"MINOR_VERS_MISMATCH", "other"} :
              /\ MountFails(a, err) /\ (err # "other" <=> Zeroes) /\ mounted' = mounted
      BY <1>5 DEF FetchRootFH
    <2>2. alone[a] /\ Expected =>
              ~mounted /\ setup.config = "auto" /\ minor = 1 /\ isMinorVersionFallback(err)
      <3> SUFFICES ASSUME alone[a], Expected
                   PROVE  ~mounted /\ setup.config = "auto" /\ minor = 1 /\ Zeroes
        BY <2>1 DEF isMinorVersionFallback
      <3>1. minor = 1
        BY <1>1, <1>2, <1>5, MountFinds DEF Accepted
      <3>2. setup.server # "both"
        BY <1>1, <1>5, <3>1, MountFinds DEF Accepted, SoundAt
      <3>3. ~mounted /\ setup.config = "auto"
        BY SMTT(30), <3>1, <3>2 DEF Expected, Hopeless, Mount41, FormInv
      <3> QED  BY <1>2, <3>1, <3>2, <3>3 DEF Zeroes
    <2>3. minor = 1 /\ isMinorVersionFallback(err) => setup.server \in {"notsupp", "mismatch"}
      BY <2>1 DEF isMinorVersionFallback, Zeroes
    <2> QED  BY <1>1, <1>3, <2>1, <2>2, <2>3, MountGives DEF GivesUp
  <1> QED  BY <1>4, <1>5

\* fn is called, and names the client id.
LEMMA BeginMounts ==
    ASSUME IInv, Mount41, NEW a \in Actors, Begin(a) \/ ReadClientID(a)
    PROVE  Mount41'
  <1>1. /\ mounted /\ pc[a] \in {"idle", "fn"} /\ ~Mounting(a)
        /\ UNCHANGED <<setup, minor, mounted, closing, snap, cut, conn, srv, mounts, alone>>
    BY Common DEF Begin, ReadClientID, Untouched, Still, Mounting, MountSteps
  <1>2. alone' \in [Actors -> BOOLEAN]
    BY <1>1 DEF Mount41, FormInv
  <1>3. CASE Begin(a)
    <2>1. loc[a] = NoLoc /\ ~NoLoc.retry
      BY <1>3 DEF Begin, Mount41, FormInv, NoLoc
    <2>2. "fn" \in Pcs
      BY DEF Pcs
    <2>3. Does(a, "fn", loc[a]) /\ LocShape(loc[a])
      BY <1>3, <2>2, DoesGo DEF Begin, IInv
    <2>4. result' = [result EXCEPT ![a] = "none"]
      BY <1>3 DEF Begin
    <2> QED  BY <1>1, <1>2, <2>1, <2>3, <2>4, OperationGoes DEF OperationKeeps
  <1>4. CASE ReadClientID(a)
    <2> DEFINE l == [loc[a] EXCEPT !.id = conn.clientID]
    <2>1. LocShape(l) /\ l.id = conn.clientID /\ l.retry = loc[a].retry
      BY Common DEF LocShape
    <2>2. pc[a] = "fn" /\ Does(a, "send", l)
      BY <1>4 DEF ReadClientID, Go, Hold, Does
    <2> HIDE DEF l
    <2>3. result' = [result EXCEPT ![a] = "none"]
      BY <1>4, <2>2 DEF ReadClientID, Mount41, FormInv
    <2>4. l.retry => Retrying(a)
      BY <2>1, <2>2 DEF Retrying
    <2> QED  BY <1>1, <1>2, <2>1, <2>2, <2>3, <2>4, OperationGoes DEF OperationKeeps
  <1> QED  BY <1>3, <1>4

\* A recovery begins: it disturbs the others.
LEMMA RecoveryMounts ==
    ASSUME IInv, Mount41, NEW a \in Actors, mounted,
           Does(a, "mount", NoLoc), Disturb(a), mounts' = 2, result' = result, pc[a] = "send",
           UNCHANGED <<setup, minor, mounted, closing, snap, cut, conn, srv>>
    PROVE  Mount41'
  <1>1. "mount" \in Pcs /\ LocShape(NoLoc) /\ "mount" \in MountSteps
    BY Literals DEF Pcs, MountSteps
  <1>2. /\ alone' \in [Actors -> BOOLEAN]
        /\ \A b \in Actors \ {a} : alone'[b] => alone[b] /\ ~Mounting(b) /\ ~Retrying(b)
        /\ alone'[a] => \A b \in Actors \ {a} : ~Mounting(b)
    <2>1. /\ \A b \in Actors \ {a} : alone[b] \in BOOLEAN
          /\ (\E c \in Actors \ {a} : Mounting(c)) \in BOOLEAN
      BY DEF Mount41, FormInv
    <2>2. \A b \in Actors : alone'[b] = IF b = a THEN ~\E c \in Actors \ {a} : Mounting(c)
                                        ELSE alone[b] /\ ~Mounting(b) /\ ~Retrying(b)
      BY DEF Disturb
    <2>3. alone' \in [Actors -> BOOLEAN]
      BY <2>1 DEF Disturb
    <2> QED  BY <2>2, <2>3
  <1>3. FormInv'
    <2>1. /\ result' \in [Actors -> {"none", "ok", "lost", "error", "mountErr"}]
          /\ result'[a] = "none"
          /\ minor = 0 => /\ conn.session = None /\ conn.chain = <<>>
                          /\ closing \notin {"session", "clientid"}
      BY DEF Mount41, FormInv
    <2> QED  BY <1>1, <1>2, <2>1, FormMove DEF Mount41, FormKeeps
  <1>4. CleanInv'
    BY <1>1, CleanLater DEF Mount41
  <1>5. RetryInv'
    <2>1. (Expected' => Expected) /\ (Hopeless => minor' = 1)
      BY DEF Expected, Hopeless, Mount41, RetryInv, FormInv
    <2>2. result'[a] \notin {"lost", "mountErr"}
      BY DEF Mount41, FormInv
    <2>3. SoundAt("mount", NoLoc, conn', srv', minor')
      BY DEF SoundAt
    <2> QED  BY <1>1, <1>2, <2>1, <2>2, <2>3, RetryMove DEF Mount41, RetryKeeps
  <1> QED  BY <1>3, <1>4, <1>5 DEF Mount41

\* The operation's round trip.
LEMMA FnMounts ==
    ASSUME IInv, Mount41, NEW a \in Actors, Fn(a)
    PROVE  Mount41'
  <1>1. /\ mounted /\ pc[a] = "send" /\ ~Mounting(a)
        /\ UNCHANGED <<setup, minor, mounted, closing, snap, cut, conn, srv>>
    BY Common DEF Fn, Untouched, Still, Mounting, MountSteps
  <1>2. ASSUME NEW r \in {"ok", "error", "lost"}, End(a, r), UNCHANGED <<mounts, alone>>,
               r = "lost" /\ minor = 0 => ~alone[a]
        PROVE  Mount41'
    <2>1. Does(a, "idle", NoLoc) /\ LocShape(NoLoc) /\ result' = [result EXCEPT ![a] = r]
      BY <1>2, Literals DEF End, Go, Hold, Does
    <2>2. alone' \in [Actors -> BOOLEAN]
      BY <1>2 DEF Mount41, FormInv
    <2> QED  BY <1>1, <1>2, <2>1, <2>2, OperationGoes DEF OperationKeeps
  <1>3. ASSUME StateLost(a), minor = 0 => loc[a].id # srv.confirmed
        PROVE  Mount41'
    <2>1. CASE loc[a].retry
      <3>1. End(a, "lost") /\ UNCHANGED <<mounts, alone>>
        BY <1>3, <2>1 DEF StateLost
      <3>2. minor = 0 => ~alone[a]
        BY <1>1, <1>3, <2>1 DEF Mount41, RetryInv, Retrying, Expected, SoundAt
      <3> QED  BY <1>2, <3>1, <3>2
    <2>2. CASE ~loc[a].retry
      <3>1. Does(a, "mount", NoLoc) /\ Disturb(a) /\ mounts' = 2 /\ result' = result
        BY <1>3, <2>2 DEF StateLost, Go, Hold, Does
      <3> QED  BY <1>1, <3>1, RecoveryMounts
    <2> QED  BY <2>1, <2>2
  <1>4. \/ \E r \in {"ok", "error"} : End(a, r) /\ UNCHANGED <<mounts, alone>>
        \/ StateLost(a) /\ (minor = 0 => loc[a].id # srv.confirmed)
    BY SMTT(30) DEF Fn
  <1> QED  BY <1>2, <1>3, <1>4

\* A round trip that fails, of an operation or of a mount.
LEMMA FaultMounts ==
    ASSUME IInv, Mount41, NEW a \in Actors, TripFails(a)
    PROVE  Mount41'
  <1>1. /\ UNCHANGED <<setup, mounted, closing, snap, cut, mounts>> /\ Sending(a)
        /\ alone' = [alone EXCEPT ![a] = FALSE]
    BY DEF TripFails, Still
  <1>2. /\ alone' \in [Actors -> BOOLEAN] /\ ~alone'[a]
        /\ \A b \in Actors : alone'[b] => alone[b]
    BY <1>1 DEF Mount41, FormInv
  <1>3. CASE pc[a] = "send"
    <2>1. Does(a, "idle", NoLoc) /\ LocShape(NoLoc) /\ UNCHANGED <<minor, conn>>
          /\ result' = [result EXCEPT ![a] = "error"]
      BY <1>3, Literals DEF TripFails, End, Go, Hold, Does
    <2>2. mounted /\ ~Mounting(a)
      BY <1>3, Common DEF Mounting, MountSteps
    <2>3. srv' = srv
      BY <1>3 DEF TripFails, Served
    <2> QED  BY <1>1, <1>2, <2>1, <2>2, <2>3, OperationGoes DEF OperationKeeps
  <1>4. CASE pc[a] # "send"
    <2>1. MountFails(a, "other") /\ Mounting(a)
      BY <1>1, <1>4 DEF TripFails, Sending, Mounting, MountSteps
    <2> QED  BY <1>1, <1>2, <2>1, TripGives
  <1> QED  BY <1>3, <1>4

\* Dial and DialAuto, up to the mount.
LEMMA BeginDialMounts ==
    ASSUME IInv, Mount41, NEW a \in Actors, BeginDial(a)
    PROVE  Mount41'
  <1>1. /\ ~mounted /\ closing = "no" /\ (\A b \in Actors : pc[b] = "idle") /\ OthersIdle(a)
        /\ UNCHANGED <<setup, mounted, closing, snap, conn, srv>>
        /\ minor' = IF setup.config = "v40" THEN 0 ELSE 1
        /\ result' = [result EXCEPT ![a] = "none"]
        /\ mounts' = IF mounts = 0 THEN 1 ELSE 2
    BY DEF BeginDial, Still, OthersIdle
  <1>2. "dial" \in Pcs /\ "dial" \notin MountSteps
    BY DEF Pcs, MountSteps
  <1>3. Does(a, "dial", loc[a]) /\ LocShape(loc[a]) /\ loc[a] = NoLoc
    BY <1>1, <1>2, DoesGo DEF BeginDial, IInv, Mount41, FormInv
  <1>4. /\ alone' \in [Actors -> BOOLEAN]
        /\ \A b \in Actors \ {a} : alone'[b] => alone[b]
    <2>1. alone' = [b \in Actors |-> IF b = a THEN ~\E c \in Actors \ {a} : Mounting(c)
                                     ELSE alone[b] /\ ~Mounting(b) /\ ~Retrying(b)]
      BY DEF BeginDial, Disturb
    <2>2. \A b \in Actors \ {a} : alone'[b] => alone[b]
      BY <2>1
    <2>3. alone' \in [Actors -> BOOLEAN]
      BY <2>1 DEF Mount41, FormInv
    <2> QED  BY <2>2, <2>3
  <1>5. /\ result' \in [Actors -> {"none", "ok", "lost", "error", "mountErr"}]
        /\ \A b \in Actors \ {a} : result'[b] = result[b]
        /\ result'[a] = "none"
    BY <1>1 DEF Mount41, FormInv
  <1>6. FormInv'
    <2>1. conn.session = None /\ conn.chain = <<>> /\ snap = NewConn
      BY <1>1 DEF Mount41, FormInv
    <2>2. mounts' \in {1, 2}
      BY <1>1
    <2> QED  BY <1>1, <1>2, <1>3, <1>4, <1>5, <2>1, <2>2, FormMove DEF Mount41, FormKeeps
  <1>7. CleanInv'
    <2>1. First41' => mounts = 0
      BY SMTT(30), <1>1 DEF First41
    <2>2. First41' => srv.confirmed = None /\ srv.session = None
      BY SMTT(30), <2>1 DEF Mount41, FormInv, NoState
    <2>3. First41' => CleanAt("dial", loc[a], conn', srv')
      BY <1>1, <2>2 DEF CleanAt
    <2> QED  BY <1>1, <1>2, <1>3, <2>3, CleanMove
  <1>8. RetryInv'
    <2>1. Hopeless => minor' = 1
      BY <1>1 DEF Hopeless, Mount41, FormInv
    <2>2. Expected' => Expected
      <3>1. Hopeless' <=> Hopeless
        BY <1>1 DEF Hopeless
      <3> QED  BY SMTT(30), <1>1, <2>1, <3>1 DEF Expected
    <2> QED  BY <1>1, <1>2, <1>3, <1>4, <1>5, <2>1, <2>2, RetryMove DEF Mount41, RetryKeeps
  <1> QED  BY <1>6, <1>7, <1>8 DEF Mount41

\* rpc.Dial: the mount begins, or Dial returns the error.
LEMMA DialRPCMounts ==
    ASSUME IInv, Mount41, NEW a \in Actors, DialRPC(a)
    PROVE  Mount41'
  <1>1. /\ pc[a] = "dial" /\ UNCHANGED <<setup, minor, mounted, closing, snap, conn, srv, mounts>>
    BY DEF DialRPC, Still
  <1>2. ~mounted /\ OthersIdle(a) /\ closing = "no" /\ loc[a] = NoLoc /\ result[a] = "none"
        /\ mounts \in {1, 2} /\ snap = NewConn
    BY <1>1 DEF IInv, DialInv, OthersIdle, Mount41, FormInv
  <1>3. PICK to \in {"mount", "idle"} :
            /\ Does(a, to, NoLoc)
            /\ to = "mount" => UNCHANGED <<result, alone>>
            /\ to = "idle" => /\ alone' = [alone EXCEPT ![a] = FALSE]
                              /\ result' = [result EXCEPT ![a] = "mountErr"]
    <2>1. CASE Go(a, "mount") /\ UNCHANGED <<loc, result, alone>>
      <3>1. "mount" \in Pcs
        BY DEF Pcs, MountSteps
      <3>2. Does(a, "mount", NoLoc)
        BY <1>2, <2>1, <3>1, DoesGo DEF IInv
      <3> QED  BY <2>1, <3>2
    <2>2. CASE End(a, "mountErr") /\ alone' = [alone EXCEPT ![a] = FALSE]
      BY <2>2 DEF End, Go, Hold, Does
    <2> QED  BY <2>1, <2>2 DEF DialRPC
  <1>4. to \in Pcs /\ LocShape(NoLoc) /\ to \notin {"fn", "send"}
    BY Literals DEF Pcs, MountSteps
  <1>5. /\ result' \in [Actors -> {"none", "ok", "lost", "error", "mountErr"}]
        /\ \A b \in Actors \ {a} : result'[b] = result[b]
        /\ to # "idle" => result'[a] = "none"
    BY <1>2, <1>3 DEF Mount41, FormInv
  <1>6. /\ alone' \in [Actors -> BOOLEAN]
        /\ \A b \in Actors : alone'[b] => alone[b]
        /\ to = "idle" => ~alone'[a]
    BY <1>3 DEF Mount41, FormInv
  <1>7. FormInv'
    <2>1. conn.session = None /\ conn.chain = <<>>
      <3>1. \A b \in Actors : pc[b] \notin {"reclaim", "root"}
        BY <1>1, <1>2 DEF OthersIdle
      <3> QED  BY <1>2, <3>1 DEF Mount41, FormInv
    <2> QED  BY <1>1, <1>2, <1>3, <1>4, <1>5, <1>6, <2>1, FormMove DEF Mount41, FormKeeps
  <1>8. CleanInv'
    <2>1. First41' => CleanAt("dial", loc[a], conn, srv)
      BY <1>1, <1>2 DEF First41, Mount41, CleanInv
    <2>2. First41' => CleanAt(to, NoLoc, conn', srv')
      BY <1>1, <2>1 DEF CleanAt
    <2> QED  BY <1>1, <1>2, <1>3, <1>4, <2>2, CleanMove
  <1>9. RetryInv'
    <2>1. (Expected' => Expected) /\ (Hopeless => minor' = 1 \/ mounts' = 0)
      BY <1>1 DEF Expected, Hopeless, Mount41, RetryInv
    <2>2. \A b \in Actors \ {a} : ~Mounting(b) /\ ~Retrying(b)
      BY <1>2 DEF OthersIdle, Mounting, Retrying, MountSteps
    <2>3. SoundAt(to, NoLoc, conn', srv', minor')
      BY DEF SoundAt
    <2>4. result'[a] \in {"lost", "mountErr"} => ~alone'[a]
      BY <1>5, <1>6
    <2> QED  BY <1>1, <1>2, <1>3, <1>4, <1>5, <1>6, <2>1, <2>2, <2>3, <2>4, RetryMove DEF Mount41, RetryKeeps
  <1> QED  BY <1>7, <1>8, <1>9 DEF Mount41

\* The server forgets the client: nobody is left alone, and there is nothing to undo.
LEMMA ForgetMounts ==
    ASSUME IInv, Mount41, Forget
    PROVE  Mount41'
  <1>1. /\ UNCHANGED <<setup, minor, conn, mounted, closing, snap, cut, pc, loc, result, mounts>>
        /\ srv' = NoState /\ alone' = [a \in Actors |-> FALSE]
    BY DEF Forget
  <1>2. alone' \in [Actors -> BOOLEAN] /\ \A a \in Actors : ~alone'[a]
    BY <1>1
  <1>3. srv'.confirmed = None /\ srv'.session = None
    BY <1>1 DEF NoState
  <1>4. First41 /\ mounted => CleanUp'
    <2> SUFFICES ASSUME CleanUp
                 PROVE  CleanUp'
      BY DEF Mount41, CleanInv
    <2> QED  BY <1>1, <1>3 DEF CleanUp, Live
  <1>5. minor = 0 => closing' \notin {"session", "clientid"}
    BY <1>1 DEF Mount41, FormInv
  <1> QED  BY <1>1, <1>2, <1>4, <1>5, QuietMounts DEF QuietKeeps

\* Conn.Close undoes the mount, step by step.
LEMMA CloseMounts ==
    ASSUME IInv, Mount41, Close \/ DestroySession \/ DestroyClientID \/ CloseRPC
    PROVE  Mount41'
  <1>1. /\ UNCHANGED <<setup, minor, conn, mounted, pc, loc, result, mounts>> /\ mounted
        /\ mounts # 0
    BY DEF Close, DestroySession, DestroyClientID, CloseRPC, Quiet, IInv, DialInv, Mount41, FormInv
  <1>2. alone' \in [Actors -> BOOLEAN] /\ \A a \in Actors : alone'[a] => alone[a]
    <2>1. alone' = alone \/ alone' = [a \in Actors |-> FALSE]
      BY DEF Close, DestroySession, DestroyClientID, CloseRPC
    <2>2. CASE alone' = alone
      BY <2>2 DEF Mount41, FormInv
    <2>3. CASE alone' = [a \in Actors |-> FALSE]
      BY <2>3
    <2> QED  BY <2>1, <2>2, <2>3
  <1>3. minor = 0 => closing' \notin {"session", "clientid"} /\ srv' = srv
    BY DEF Close, DestroySession, DestroyClientID, CloseRPC, Mount41, FormInv
  <1>4. Expected => srv' = srv
    BY <1>1, <1>3 DEF Expected
  <1>5. First41 /\ mounted => CleanUp'
    <2> SUFFICES ASSUME CleanUp
                 PROVE  CleanUp'
      BY DEF Mount41, CleanInv
    <2>1. \A a \in Actors : pc'[a] \in {"idle", "fn", "send"}
      BY <1>1 DEF CleanUp
    <2>2. conn'.session # None /\ conn'.chain = <<conn'.session>>
      BY <1>1 DEF CleanUp
    <2>3. snap = conn => Accepted(Tail(snap.chain)) /\ snap.session = conn.session
      <3>1. Tail(<<conn.session>>) = <<>>
        BY SMTT(30)
      <3> QED  BY <3>1 DEF CleanUp, Accepted
    <2>4. SrvShape(srv)
      BY DEF IInv, Shape
    <2>5. CASE Close
      BY <1>1, <2>1, <2>2, <2>5 DEF Close, CleanUp
    <2>6. CASE DestroySession
      <3>1. closing = "session" /\ closing' = "clientid" /\ snap' = snap /\ snap = conn
        BY <2>6 DEF DestroySession, CleanUp
      <3>2. cut' \/ srv' = IF conn.session = srv.session THEN [srv EXCEPT !.session = None] ELSE srv
        BY <2>3, <2>6, <3>1 DEF DestroySession, TearDown
      <3>3. Live(srv, conn.clientID, conn.session)
        BY <3>1 DEF CleanUp
      <3>4. /\ [srv EXCEPT !.session = None].session = None
            /\ [srv EXCEPT !.session = None].confirmed = srv.confirmed
        BY <2>4, ServerRecords
      <3>5. cut' \/ (srv'.session = None /\ srv'.confirmed \in {None, conn.clientID})
        BY <3>2, <3>3, <3>4 DEF Live
      <3> QED  BY <1>1, <2>1, <2>2, <3>1, <3>5 DEF CleanUp
    <2>7. CASE DestroyClientID
      <3>1. closing = "clientid" /\ closing' = "rpc" /\ snap' = snap /\ snap = conn
        BY <2>7 DEF DestroyClientID, CleanUp
      <3>2. cut \/ (srv.session = None /\ srv.confirmed \in {None, conn.clientID})
        BY <3>1 DEF CleanUp
      <3>3. \/ cut'
            \/ ~cut /\ srv' = IF conn.clientID = srv.confirmed THEN [srv EXCEPT !.confirmed = None] ELSE srv
        <4>1. cut' \/ (cut' = cut /\ srv' = IF /\ Accepted(Tail(snap.chain))
                                           /\ srv.session = None /\ snap.clientID = srv.confirmed
                                        THEN [srv EXCEPT !.confirmed = None] ELSE srv)
          BY <2>7 DEF DestroyClientID, TearDown
        <4> QED  BY <2>3, <3>1, <3>2, <4>1
      <3>4. /\ [srv EXCEPT !.confirmed = None].confirmed = None
            /\ [srv EXCEPT !.confirmed = None].session = srv.session
        BY <2>4, ServerRecords
      <3>5. cut' \/ (srv'.session = None /\ srv'.confirmed = None)
        BY <3>2, <3>3, <3>4
      <3> QED  BY <1>1, <2>1, <2>2, <3>1, <3>5 DEF CleanUp
    <2>8. CASE CloseRPC
      BY <1>1, <2>1, <2>2, <2>8 DEF CloseRPC, CleanUp
    <2> QED  BY <2>5, <2>6, <2>7, <2>8
  <1> QED  BY <1>1, <1>2, <1>3, <1>4, <1>5, QuietMounts DEF QuietKeeps

\* Every action keeps the invariant.
LEMMA StepMounts == IInv /\ Mount41 /\ [Next]_vars => Mount41'
  <1> SUFFICES ASSUME IInv, Mount41, [Next]_vars
               PROVE  Mount41'
    OBVIOUS
  <1>1. ASSUME NEW u \in Users, BeginDial(u)
        PROVE  Mount41'
    BY <1>1, BeginDialMounts DEF Actors
  <1>2. ASSUME NEW a \in Actors, Begin(a) \/ Step(a)
        PROVE  Mount41'
    BY <1>2, BeginMounts, DialRPCMounts, FnMounts, SendMounts, StoreMounts, ReadMounts,
       ConfirmMounts, CreateMounts, InstallMounts, ReclaimMounts, RootMounts, FaultMounts DEF Step
  <1>3. CASE Forget
    BY <1>3, ForgetMounts
  <1>4. CASE Close \/ DestroySession \/ DestroyClientID \/ CloseRPC
    BY <1>4, CloseMounts
  <1>5. CASE UNCHANGED vars
    <2>1. UNCHANGED <<setup, minor, conn, mounted, closing, snap, cut, srv, pc, loc, result, mounts, alone>>
      BY <1>5 DEF vars
    <2>2. First41 /\ mounted => CleanUp'
      BY <2>1 DEF Mount41, CleanInv, CleanUp, Live
    <2>3. /\ alone \in [Actors -> BOOLEAN]
          /\ mounts = 0 => srv = NoState
          /\ minor = 0 => closing \notin {"session", "clientid"}
      BY DEF Mount41, FormInv
    <2> QED  BY <2>1, <2>2, <2>3, QuietMounts DEF QuietKeeps
  <1> QED  BY <1>1, <1>2, <1>3, <1>4, <1>5 DEF Next

\* The invariant holds before the application dials.
LEMMA InitMounts == Init => Mount41
  <1> SUFFICES ASSUME Init
               PROVE  Mount41
    OBVIOUS
  <1>1. /\ \A a \in Actors : pc[a] = "idle" /\ result[a] = "none" /\ loc[a] = NoLoc
        /\ minor = 0 /\ mounts = 0 /\ mounted = FALSE /\ closing = "no"
        /\ srv = NoState /\ conn = NewConn /\ snap = NewConn
    BY DEF Init
  <1>2. FormInv
    <2>1. setup.config \in {"v40", "v41", "auto"} /\ setup.server \in Servers41
      BY SetupsKnown DEF Init
    <2>2. /\ result \in [Actors -> {"none", "ok", "lost", "error", "mountErr"}]
          /\ alone \in [Actors -> BOOLEAN]
      BY DEF Init
    <2>3. conn.session = None /\ conn.chain = <<>>
      BY <1>1 DEF NewConn
    <2>4. setup.config = "v40" => setup.server = "both"
      BY DEF Init
    <2> QED  BY <1>1, <2>1, <2>2, <2>3, <2>4 DEF FormInv
  <1>3. CleanInv
    BY SMTT(30), <1>1 DEF CleanInv, First41
  <1>4. RetryInv
    BY <1>1 DEF RetryInv, RetryWorks, Mounting, Retrying, MountSteps
  <1> QED  BY <1>2, <1>3, <1>4 DEF Mount41

\* Conn.Close and teardownSession: DESTROY_SESSION goes beneath the sessionCaller, so
\* that the DESTROY_CLIENTID after it is not refused; whatever the restarts and faults
\* before it, a teardown that is answered leaves nothing of one v4.1 mount behind.
THEOREM CloseCleansThm == Spec => []CloseCleans
  <1>1. IInv /\ Mount41 => CloseCleans
    <2> SUFFICES ASSUME IInv, Mount41, closing = "closed", minor = 1, mounts = 1, ~cut
                 PROVE  srv.confirmed = None /\ srv.session = None
      BY DEF CloseCleans
    <2>1. mounted /\ setup.server = "both"
      BY DEF IInv, DialInv, NegInv
    <2> QED  BY <2>1 DEF Mount41, CleanInv, CleanUp, First41
  <1> QED  BY <1>1, InitIInv, StepIInv, InitMounts, StepMounts, PTL DEF Spec

\* WithRetry, Conn.Mount and DialAuto: a recovery, or a first mount, that nothing
\* disturbs does not fail, for any number of users and whatever went on before it.
THEOREM RetryWorksThm == Spec => []RetryWorks
  <1>1. Mount41 => RetryWorks
    BY DEF Mount41, RetryInv
  <1> QED  BY <1>1, InitIInv, StepIInv, InitMounts, StepMounts, PTL DEF Spec
=============================================================================
